------------------------------- MODULE Cleanup -------------------------------
(* The clean-up after a contract run (pkg/testkit/contract/artifacts.go):    *)
(* the uploads under the run's prefix are listed page by page and aborted,   *)
(* then its objects are listed and deleted in batches.  It is the one loop   *)
(* of the repository that walks pages.  Meanwhile a Put of a test that was   *)
(* given up may still land.                                                  *)
EXTENDS Client, SequencesExt

CONSTANTS Drivers,            \* the drivers under test
          Bucket,
          CleanupBatchSize,   \* keys of a page and of a batch
          Uploads,            \* what may be left: the keys of the uploads
          MaxLate             \* bound: late Puts

ASSUME CleanupAssumption == /\ Drivers \subseteq AllDrivers
                            /\ CleanupBatchSize \in Nat \ {0}
                            /\ MaxLate \in Nat

VARIABLES c,         \* the client under test
          store,     \* the service and the driver's sessions
          pc,        \* uploads, abort, objects, delete, done
          token,     \* ContinuationToken of the next page
          found,     \* what the pages have given and is not dealt with yet
          reported,  \* t.Errorf was called
          left,      \* the keys, and the uploads' keys, left behind by the run
          late,      \* how many late Puts have landed
          turn       \* flips with every step of the loops, one that gets
                     \* nowhere included
vars == <<c, store, pc, token, found, reported, left, late, turn>>
Req == [Request EXCEPT !.bucket = Bucket]

\* The state a run leaves: objects of keys, uploads of the keys ups in turn.
LeftBy(d, keys, ups) ==
  LET objects == [NewStore({Bucket}) EXCEPT
        !.objs = [at \in {<<Bucket, k>> : k \in keys} |-> ObjectOf(<<1>>, "nil", "none")]]
      Start(s, k) == (CHOOSE o \in InitiateUpload(Serving(d, Bucket), s, [Req EXCEPT !.key = k])
                        : o.code = "ok").store
  IN FoldLeft(Start, objects, ups)

Init == /\ \E d \in Drivers, keys \in SUBSET Keys, ups \in Uploads :
             /\ c = Serving(d, Bucket)
             /\ store = LeftBy(d, keys, ups)
             /\ left = [keys |-> keys, ups |-> ups]
        /\ pc = "uploads" /\ token = 0 /\ found = {} /\ reported = FALSE /\ late = 0 /\ turn = 0

Next1(to) == pc' = to /\ token' = 0 /\ found' = {}

\* One turn of a paging loop: o is List's answer and got what it lists.
\* Errors of tolerated end the loop without a report; what was found by then
\* is forgotten by every early return.
PageTurn(o, got, tolerated, then, otherwise) ==
  /\ store' = o.store
  /\ \/ /\ o.code # "ok"
        /\ Next1(otherwise)
        /\ reported' = (reported \/ o.code \notin tolerated)
     \/ /\ o.code = "ok" /\ ~o.out.truncated
        /\ pc' = then /\ token' = 0 /\ found' = found \cup got
        /\ UNCHANGED reported
     \/ /\ o.code = "ok" /\ o.out.truncated /\ o.out.token = 0
        /\ Next1(otherwise) /\ reported' = TRUE
     \/ /\ o.code = "ok" /\ o.out.truncated /\ o.out.token # 0
        /\ token' = o.out.token /\ found' = found \cup got
        /\ UNCHANGED <<pc, reported>>
  /\ UNCHANGED <<c, left, late>>

(* cleanupMultipartUploads *)
UploadsPage ==
  /\ pc = "uploads"
  /\ \E o \in ListUploads(c, store, [Req EXCEPT !.token = token, !.max = CleanupBatchSize]) :
       PageTurn(o, o.out.ids, {"not_found", "unsupported"}, "abort", "objects")

AbortOne ==
  /\ pc = "abort" /\ found # {}
  /\ LET id == Min(found)
     IN \E o \in AbortUpload(c, store, [Req EXCEPT !.id = id, !.key = left.ups[id]]) :
          /\ store' = o.store /\ found' = found \ {id}
          /\ reported' = (reported \/ o.code \notin {"ok", "not_found"})
  /\ UNCHANGED <<c, pc, token, left, late>>
AbortsDone == /\ pc = "abort" /\ found = {} /\ Next1("objects")
              /\ UNCHANGED <<c, store, reported, left, late>>

(* cleanupObjects *)
ObjectsPage ==
  /\ pc = "objects"
  /\ \E o \in ListObjects(c, store, [Req EXCEPT !.token = token, !.max = CleanupBatchSize]) :
       PageTurn([o EXCEPT !.out = IF o.code = "ok" THEN [truncated |-> @.truncated,
                                                         token |-> @.next] ELSE @],
                o.out.items, {"not_found"}, "delete", "done")

\* deleteObjectBatch: a batch that fails is reported, and the next one follows.
DeleteBatch ==
  /\ pc = "delete" /\ found # {}
  /\ LET batch == FirstOf(found, CleanupBatchSize)
     IN \E o \in DeleteMany(c, store, [Req EXCEPT !.keys = SetToSortSeq(batch, <)]) :
          /\ store' = o.store /\ found' = found \ batch
          /\ reported' = \/ reported
                         \/ o.code \notin {"ok", "not_found"}
                         \/ o.code = "ok" /\ o.out.failed # {}
  /\ UNCHANGED <<c, pc, token, left, late>>
DeletesDone == /\ pc = "delete" /\ found = {} /\ Next1("done")
               /\ UNCHANGED <<c, store, reported, left, late>>

Turn == pc # "done" /\ turn' = 1 - turn
Cleanup == /\ Turn
           /\ \/ UploadsPage \/ AbortOne \/ AbortsDone
              \/ ObjectsPage \/ DeleteBatch \/ DeletesDone

\* A Put whose test has left is carried out after all.
LatePut(k) ==
  /\ late < MaxLate /\ late' = late + 1
  /\ store' = StoreObject(store, <<Bucket, k>>, ObjectOf(<<2>>, "nil", "none"))
  /\ left' = [left EXCEPT !.keys = @ \ {k}]
  /\ UNCHANGED <<c, pc, token, found, reported, turn>>

Next == Cleanup \/ \E k \in Keys : LatePut(k)

\* The clean-up is a plain loop of one goroutine: it keeps running, as every
\* call of it comes back.
Spec == Init /\ [][Next]_vars /\ WF_turn(Turn)
-----------------------------------------------------------------------------
(* The object listing of Upyun stays in the folder it is asked for, and its  *)
(* sessions and Qiniu's are dropped without a call of the service.           *)
ListsAllKeys == c.drv # "upyun" \/ left.keys \cap Folder = {}
AbortsAtService == c.drv \notin {"qiniu", "upyun", "gcs"}
\* Listings that go on by key alone lose the rest of a key's uploads.
OneUploadPerKey == IsInjective(left.ups)

\* A clean-up that reported nothing left nothing: every object of the run
\* that was not written again and every upload it had open are gone, whatever
\* the page boundaries, the late Puts and the answers that got lost.  A test
\* that leaks would go unnoticed otherwise: artifacts.go:48-150.
SilentMeansClean ==
  pc = "done" /\ ~reported =>
    /\ ListsAllKeys => \A k \in left.keys : ~Has(store, <<Bucket, k>>)
    /\ AbortsAtService /\ OneUploadPerKey =>
         \A id \in DOMAIN left.ups :
           ~\/ id \in DOMAIN store.ups
            \/ id \in DOMAIN store.sess /\ store.sess[id].listed

\* The loops over the pages end, though the clean-up deletes nothing before
\* the last page, keys appear behind and ahead of the cursor, and a driver may
\* say that a page is truncated and name no token.
CleanupEnds == <>(pc = "done")

=============================================================================
