----------------------------- MODULE ObjectCalls -----------------------------
(* Callers that share one object through the ObjectService of a driver.      *)
(* Writers read it and write it back under the preconditions of a            *)
(* PutObjectRequest; others copy and delete.  A request whose caller was     *)
(* told nothing definite may still be carried out later.                     *)
EXTENDS Client

CONSTANTS Drivers,     \* the drivers under test
          Bucket,
          Writers,     \* a set of positive numbers
          MaxSaves,    \* bound: Saves of all writers together
          MaxOthers,   \* bound: deletions and copies
          MaxLate      \* bound: requests pending in the network at a time

ASSUME CallsAssumption == /\ Drivers \subseteq AllDrivers
                          /\ {1, 2} \subseteq Keys
                          /\ 1 \in Writers /\ Writers \subseteq Nat \ {0}
                          /\ MaxSaves \in Nat /\ MaxOthers \in Nat /\ MaxLate \in Nat

VARIABLES c,       \* the client
          store,   \* the service
          seen,    \* what a writer has read: got, there, bytes
          saves, others,    \* how many there were
          acked,   \* the writers whose Save was acknowledged
          late     \* Put requests that may still be carried out

vars == <<c, store, seen, saves, others, acked, late>>
Req == [Request EXCEPT !.bucket = Bucket]
WholeRequest == [Req EXCEPT !.key = 1]
Shared == <<Bucket, 1>>
Copied == <<Bucket, 2>>

\* What a writer adds to the object: a start and an end.
Mark(w) == <<w, 0 - w>>
Bytes(at) == IF Has(store, at) THEN store.objs[at].bytes ELSE <<>>
Unread == [got |-> FALSE, there |-> FALSE, bytes |-> <<>>]

Init == /\ c \in {Serving(d, Bucket) : d \in Drivers}
        /\ \E there \in SUBSET {Shared, Copied} :
             store = [NewStore({Bucket}) EXCEPT !.objs =
                       [at \in there |-> ObjectOf(<<>>, "m1", "none")]]
        /\ seen = [w \in Writers |-> Unread]
        /\ saves = 0 /\ others = 0
        /\ acked = {} /\ late = {}

\* The object was deleted: nobody's update is in it any more.
Kept(s, writers) == IF Has(s, Shared) THEN writers ELSE {}

Load(w) ==
  /\ w \notin acked /\ ~seen[w].got
  /\ \E o \in GetObject(c, store, WholeRequest) :
       /\ o.code \in {"ok", "not_found"}
       /\ seen' = [seen EXCEPT ![w] = [got |-> TRUE, there |-> o.code = "ok",
                     bytes |-> IF o.code = "ok" THEN o.out.bytes ELSE <<>>]]
  /\ UNCHANGED <<c, store, saves, others, acked, late>>

\* The Put that writes back what was seen, unless it has changed since.
SaveRequest(w, cut) ==
  LET bytes == seen[w].bytes \o Mark(w)
  IN [Req EXCEPT !.key = 1, !.meta = "m1",
        !.body = [nil |-> FALSE, fails |-> cut,
                  bytes |-> IF cut THEN SubSeq(bytes, 1, Len(bytes) - 1) ELSE bytes],
        !.size = Len(bytes),
        !.match = IF seen[w].there THEN {seen[w].bytes} ELSE {},
        !.noneMatch = IF seen[w].there THEN "" ELSE "*"]

\* cut: the body fails before its end.
Save(w, cut) ==
  /\ seen[w].got /\ w \notin acked /\ saves < MaxSaves
  /\ LET r == SaveRequest(w, cut)
     IN \E o \in PutObject(c, store, r) :
          /\ store' = o.store
          /\ acked' = Kept(o.store, acked \cup IF o.code = "ok" THEN {w} ELSE {})
          /\ seen' = IF o.code = "ok" THEN seen ELSE [seen EXCEPT ![w] = Unread]
          /\ late' = IF /\ o.code \in {"timeout", "internal"} /\ o.store = store
                        /\ ~cut /\ Cardinality(late) < MaxLate
                     THEN late \cup {r} ELSE late
  /\ saves' = saves + 1
  /\ UNCHANGED <<c, others>>

\* The service gets round to a request at last; nobody reads the answer.
LateArrives(r) ==
  /\ late' = late \ {r}
  /\ \E o \in PutObject(c, store, r) : store' = o.store
  /\ acked' = Kept(store', acked)
  /\ UNCHANGED <<c, seen, saves, others>>

DeleteRequest(keys, quiet) == [Req EXCEPT !.keys = keys, !.quiet = quiet]
DeleteKeys(keys) ==
  /\ others < MaxOthers /\ others' = others + 1
  /\ \E o \in DeleteMany(c, store, DeleteRequest(keys, FALSE)) :
       store' = o.store /\ acked' = Kept(o.store, acked)
  /\ UNCHANGED <<c, seen, saves, late>>

\* Somebody copies the object, with metadata of its own.
CopyRequest(meta, match) ==
  [Req EXCEPT !.key = 2, !.srcBucket = Bucket, !.srcKey = 1, !.meta = meta, !.match = match]
CopyShared ==
  /\ others < MaxOthers /\ others' = others + 1
  /\ \E o \in CopyObject(c, store, CopyRequest("m2", {})) : store' = o.store
  /\ UNCHANGED <<c, seen, saves, acked, late>>

Next == \/ \E w \in Writers : Load(w) \/ \E cut \in BOOLEAN : Save(w, cut)
        \/ \E r \in late : LateArrives(r)
        \/ DeleteKeys(<<2, 1>>)
        \/ CopyShared

Spec == Init /\ [][Next]_vars
-----------------------------------------------------------------------------
(* Which drivers forward which precondition of a PutObjectRequest; the rest  *)
(* drop it without a word.                                                   *)
ForwardsIfMatch == {"aws", "minio", "alibaba", "tencent", "volcengine", "upyun"}
ForwardsIfNoneMatch == {"aws", "minio", "alibaba", "tencent", "gcs", "upyun"}

\* An acknowledged update is in the object until the object is deleted: no
\* writer that read before it, retries, or is carried out late writes over it.
\* The tags and the "*" reach the service, request_object.go:31-35.
AckedUpdateNotLost ==
  c.drv \in ForwardsIfMatch \cap ForwardsIfNoneMatch =>
    \A w \in acked : w \in Range(Bytes(Shared))

\* First write wins (docs/v1_polish_audit.md:77, request_object.go:34): of
\* the writers that put the object under If-None-Match "*" one succeeds.
FirstWriteWins ==
  \A v, w \in acked : ~seen[v].there /\ ~seen[w].there => v = w

Tags == {{}, {<<>>}, {Mark(1)}}
Stars == {"", "*"}
Conditioned(r, match, none) == [r EXCEPT !.match = match, !.noneMatch = none]
SaveRequests == {SaveRequest(1, cut) : cut \in BOOLEAN}
PutRequests == {Conditioned(r, match, none) :
                  r \in SaveRequests, match \in Tags, none \in Stars}
CopyRequests == {CopyRequest(meta, match) : meta \in {"nil", "m2"}, match \in Tags}
DeleteRequests == {DeleteRequest(keys, quiet) :
                     keys \in {<<1>>, <<2, 1>>}, quiet \in BOOLEAN}

\* What a caller takes for a no: the call is over and did nothing.
Refused(o) == ~o.retry /\ o.code \in
  {"unsupported", "invalid_argument", "not_found", "already_exists",
   "permission_denied", "unauthenticated", "precondition_failed", "length_required"}

\* A call that is refused, or whose body fails before its end, has changed
\* nothing, whatever happened between the SDK and the service: the error maps
\* never make a refusal of an answer that was lost after the service had acted
\* (mapError of every driver).  The writer of GCS publishes what it was given.
\* The SDK of Azure sends a request again after an answer that was lost, and
\* what the second one is refused for says nothing of the first: the retries
\* factory.go:189-191 takes for disabled are the SDK's default.
NothingHalfDone ==
  /\ \A r \in PutRequests : \A o \in PutObject(c, store, r) :
       (Refused(o) /\ c.drv # "azure") \/ (r.body.fails /\ c.drv # "gcs")
         => o.store = store
  /\ \A o \in DeleteObject(c, store, WholeRequest)
              \cup UNION {CopyObject(c, store, r) : r \in CopyRequests} :
       Refused(o) /\ c.drv # "azure" => o.store = store

\* DeleteMany accounts for its keys (client.go:101-104): deleted keys are gone,
\* also beside an error of a later batch; without an error every key is
\* deleted or failed, and a key no failure names is gone.  Azure, GCS and
\* Upyun delete key by key, aws and tencent batch by batch.
DeleteManyAccounts ==
  \A r \in DeleteRequests : \A o \in DeleteMany(c, store, r) :
    LET Gone(K) == \A k \in K : ~Has(o.store, <<Bucket, k>>)
        deleted == IF "deleted" \in DOMAIN o.out THEN o.out.deleted ELSE {}
    IN /\ Gone(deleted)
       /\ o.code = "ok" =>
            /\ Gone(Range(r.keys) \ o.out.failed)
            /\ r.quiet \/ deleted \cup o.out.failed = Range(r.keys)
       /\ Refused(o) /\ ~r.quiet =>
            \A k \in Range(r.keys) \ deleted :
              Has(store, <<Bucket, k>>) => Has(o.store, <<Bucket, k>>)

\* A copy has the bytes of the source it was conditioned on and the metadata
\* of the request, or the source's if that has none (request_object.go:146-148).
\* aws wants the directive spelled out; qiniu and upyun send neither.
CopyIsFaithful ==
  \A r \in CopyRequests : \A o \in CopyObject(c, store, r) :
    o.code = "ok" /\ c.drv \notin {"aws", "qiniu", "upyun"} =>
      LET src == store.objs[Shared]
      IN /\ o.store.objs[Copied].bytes = src.bytes
         /\ o.store.objs[Copied].meta = IF r.meta = "nil" THEN src.meta ELSE r.meta
         /\ c.drv \notin {"gcs", "azure"} => r.match = {} \/ src.bytes \in r.match

RangeRequest(first, last) ==
  [Req EXCEPT !.key = 1, !.whole = FALSE, !.first = first, !.last = last]
RangeRequests ==
  {WholeRequest} \cup {RangeRequest(first, last) : first \in 0..2, last \in -1..3}
Wanted(r) == Slice(Bytes(Shared), r.first, r.last)

\* What a ranged Get gives is the range of the object there is, bounds
\* included, an open end to the end (ByteRange, request_object.go:70-76).  Two
\* ranges mean something else to an SDK: the open one from byte 0 gives the first
\* byte on MinIO (SetRange(0, 0)), and the first byte alone gives the whole
\* object on Huawei (RangeStart 0 with RangeEnd 0 is no range).
RangeIsExact ==
  \A r \in RangeRequests : \A o \in GetObject(c, store, r) :
    /\ o.code = "ok" /\ (r.last = -1 \/ r.last >= r.first)
    /\ ~(c.drv = "minio" /\ ~r.whole /\ r.first = 0 /\ r.last = -1)
    /\ ~(c.drv = "huawei" /\ r.first = 0 /\ r.last = 0)
    => o.out.bytes = Wanted(r)
=============================================================================
