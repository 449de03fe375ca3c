--------------------------- MODULE TransferManager ---------------------------
(***************************************************************************)
(* Manager.Upload (src/pkg/uos/transfer/manager.go): the planner, the      *)
(* Initiate -> parts -> Complete flow with its abort-on-failure path, and  *)
(* the resume payload in the StateStore.  Several callers, which may be    *)
(* different processes sharing one store, upload to one bucket and key, so *)
(* they share one resume key.  Each of them uploads again and again.       *)
(*                                                                         *)
(* runWorkers is at the level of PartBatch: parts are acknowledged one by  *)
(* one, in any order (WorkerPool shows that the goroutines implement it).  *)
(* The multipart service is external and is modelled from what the code    *)
(* needs of it: uploads hold parts, a part has the tag of the bytes it     *)
(* was made of, and Complete accepts exactly the parts the upload holds.   *)
(***************************************************************************)
EXTENDS Integers, FiniteSets

CONSTANTS Callers,            \* processes that call Upload
          Bodies,             \* the payloads they may send to the key
          NumParts,           \* [Bodies -> Nat \ {0}]: totalParts of each
          Small,              \* the bodies below MultipartThreshold
          UploadIDs,          \* upload identifiers the service hands out
          Faults,             \* what may go wrong in this instance
          None                \* no object, no payload, no upload

ASSUME BodyAssumption == NumParts \in [Bodies -> Nat \ {0}] /\ Small \subseteq Bodies
ASSUME NoneAssumption == None \notin UploadIDs

\* An UploadedPart: its number, and an ETag that stands for its bytes.
PartNumber == UNION {1 .. NumParts[b] : b \in Bodies}
Part == [num : PartNumber, tag : Bodies]
Plan(b) == 1 .. NumParts[b]
PartOf(b, n) == [num |-> n, tag |-> b]
Whole(b) == {PartOf(b, n) : n \in Plan(b)}
NumbersOf(ps) == {p.num : p \in ps}

VARIABLES
    pc,          \* where each caller is in Upload
    body,        \* the body it was given
    ctx,         \* ctx.Err(): "live" (nil), "canceled" or "deadline"
    uploadID,    \* the upload it works on
    parts,       \* the parts known to be uploaded, resumed ones included
    acked,       \* parts acknowledged by a worker and not yet collected
    failed,      \* an UploadPart of this call returned an error
    uploads,     \* the service: state and parts of every upload
    object,      \* the service: the parts of the object under the key
    store,       \* the StateStore: the resumeState under the resume key
    faults       \* what may still go wrong

local == <<pc, body, ctx, uploadID, parts, acked, failed>>
vars == <<local, uploads, object, store, faults>>

PayloadType == [id : UploadIDs, parts : SUBSET Part]

\* uploadMultipart after the planner chose it, in program order.  "abort"
\* and "forget" follow a failed batch, "undo" a failed Complete, "cleanup" a
\* successful one.
BatchPhase == {"batch", "collect"}
AfterParts == {"complete", "undo", "cleanup"}
AfterError == {"abort", "forget"}
Phase == {"idle", "put", "load", "initiate", "slice"}
            \cup BatchPhase \cup AfterParts \cup AfterError

Init == /\ pc = [c \in Callers |-> "idle"]
        /\ body \in [Callers -> Bodies]
        /\ ctx = [c \in Callers |-> "live"]
        /\ uploadID = [c \in Callers |-> None]
        /\ parts = [c \in Callers |-> {}]
        /\ acked = [c \in Callers |-> {}]
        /\ failed = [c \in Callers |-> FALSE]
        /\ uploads = [i \in UploadIDs |-> [state |-> "unused", held |-> {}]]
        /\ object = None
        /\ store = None
        /\ faults = Faults

-----------------------------------------------------------------------------
Goto(c, phase) == pc' = [pc EXCEPT ![c] = phase]

\* The call is over, by return or by the death of its process: its local
\* variables are gone.
Leave(c) == /\ Goto(c, "idle")
            /\ ctx' = [ctx EXCEPT ![c] = "live"]
            /\ uploadID' = [uploadID EXCEPT ![c] = None]
            /\ parts' = [parts EXCEPT ![c] = {}]
            /\ acked' = [acked EXCEPT ![c] = {}]
            /\ failed' = [failed EXCEPT ![c] = FALSE]
            /\ UNCHANGED body

service == <<uploads, object, faults>>
batchVars == <<uploadID, parts, acked, failed>>

\* Upload(ctx, mp, req): the planner picks the single Put for a body below
\* MultipartThreshold and uploadMultipart otherwise.
Begin(c, b) == /\ pc[c] = "idle"
               /\ body' = [body EXCEPT ![c] = b]
               /\ Goto(c, IF b \in Small THEN "put" ELSE "load")
               /\ UNCHANGED <<ctx, batchVars, service, store>>

SinglePut(c) == /\ pc[c] = "put"
                /\ object' = Whole(body[c])
                /\ Leave(c)
                /\ UNCHANGED <<uploads, store, faults>>

\* Put returns an error; the object may have been written all the same.
SinglePutFails(c) ==
    /\ pc[c] = "put"
    /\ \/ (ctx[c] # "live" \/ "put" \in faults) /\ UNCHANGED object
       \/ "lostReply" \in faults /\ object' = Whole(body[c])
    /\ Leave(c)
    /\ UNCHANGED <<uploads, store, faults>>

\* MUTANT: a new upload is initiated while the parts of the payload are kept.
LoadResumeParts(c) == /\ pc[c] = "load"
                      /\ store # None
                      /\ parts' = [parts EXCEPT ![c] = store.parts]
                      /\ Goto(c, "initiate")
                      /\ UNCHANGED <<body, ctx, uploadID, acked, failed, service, store>>

\* loadResume: a payload gives the upload to continue and the parts to skip.
LoadResume(c) == /\ pc[c] = "load"
                 /\ store # None
                 /\ uploadID' = [uploadID EXCEPT ![c] = store.id]
                 /\ parts' = [parts EXCEPT ![c] = store.parts]
                 /\ Goto(c, "slice")
                 /\ UNCHANGED <<body, ctx, acked, failed, service, store>>

\* No payload, or one that cannot be read, which is treated as no payload.
LoadNothing(c) == /\ pc[c] = "load"
                  /\ store = None \/ ctx[c] # "live" \/ "load" \in faults
                  /\ Goto(c, "initiate")
                  /\ UNCHANGED <<body, ctx, batchVars, service, store>>

-----------------------------------------------------------------------------
(* Initiate.  An identifier is free when nobody can name it any more; with *)
(* none left the service refuses.                                          *)

Named == {uploadID[c] : c \in Callers} \cup (IF store = None THEN {} ELSE {store.id})
Free == {i \in UploadIDs \ Named : uploads[i].state # "open"}

Opens(i) == uploads' = [uploads EXCEPT ![i] = [state |-> "open", held |-> {}]]

Initiate(c) == /\ pc[c] = "initiate"
               /\ \E i \in Free :
                    /\ Opens(i)
                    /\ uploadID' = [uploadID EXCEPT ![c] = i]
               /\ Goto(c, "slice")
               /\ UNCHANGED <<body, ctx, parts, acked, failed, object, store, faults>>

\* Initiate returns an error and so does Upload; the service may have opened
\* an upload whose identifier nobody will ever know.
InitiateFails(c) ==
    /\ pc[c] = "initiate"
    /\ \/ /\ ctx[c] # "live" \/ "initiate" \in faults \/ Free = {}
          /\ UNCHANGED uploads
       \/ "lostInitiate" \in faults /\ \E i \in Free : Opens(i)
    /\ Leave(c)
    /\ UNCHANGED <<object, store, faults>>

-----------------------------------------------------------------------------
(* runWorkers, at the level of PartBatch.                                  *)

Missing(c) == Plan(body[c]) \ NumbersOf(parts[c] \cup acked[c])

\* sliceParts reads the whole body; runWorkers returns at once when the
\* payload already names every part of the plan.
Slice(c) == /\ pc[c] = "slice"
            /\ Goto(c, IF Missing(c) = {} THEN "complete" ELSE "batch")
            /\ UNCHANGED <<body, ctx, batchVars, service, store>>

SliceFails(c) == /\ pc[c] = "slice"
                 /\ "body" \in faults
                 /\ Goto(c, "abort")
                 /\ UNCHANGED <<body, ctx, batchVars, service, store>>

\* The service stores a part of an open upload, replacing one of the same
\* number.
Stores(id, p) == uploads' = [uploads EXCEPT ![id].held =
                                {q \in @ : q.num # p.num} \cup {p}]

UploadPart(c, n) == /\ pc[c] = "batch"
                    /\ n \in Missing(c)
                    /\ uploads[uploadID[c]].state = "open"
                    /\ Stores(uploadID[c], PartOf(body[c], n))
                    /\ acked' = [acked EXCEPT ![c] = @ \cup {PartOf(body[c], n)}]
                    /\ UNCHANGED <<pc, body, ctx, uploadID, parts, failed, object, store, faults>>

\* UploadPart returns an error; the part may have been stored before.
UploadPartFails(c, n) ==
    /\ pc[c] = "batch"
    /\ n \in Missing(c)
    /\ \/ ctx[c] # "live" \/ failed[c] \/ "part" \in faults
       \/ uploads[uploadID[c]].state # "open"
    /\ failed' = [failed EXCEPT ![c] = TRUE]
    /\ \/ UNCHANGED uploads
       \/ /\ "lostReply" \in faults
          /\ uploads[uploadID[c]].state = "open"
          /\ Stores(uploadID[c], PartOf(body[c], n))
    /\ UNCHANGED <<pc, body, ctx, uploadID, parts, acked, object, store, faults>>

\* MUTANT: the failure of a part is not looked at.
BatchPassesFailed(c) == /\ pc[c] = "batch"
                        /\ \/ Missing(c) = {} /\ ctx[c] # "deadline"
                           \/ ctx[c] = "canceled"
                           \/ failed[c]
                        /\ Goto(c, "collect")
                        /\ UNCHANGED <<body, ctx, batchVars, service, store>>

\* Every worker has ended without an error and the deadline has not passed:
\* on to the results, which are all there unless ctx was cancelled.
BatchPasses(c) == /\ pc[c] = "batch"
                  /\ ~failed[c]
                  /\ \/ Missing(c) = {} /\ ctx[c] # "deadline"
                     \/ ctx[c] = "canceled"
                  /\ Goto(c, "collect")
                  /\ UNCHANGED <<body, ctx, batchVars, service, store>>

BatchFails(c) == /\ pc[c] = "batch"
                 /\ failed[c] \/ ctx[c] = "deadline"
                 /\ Goto(c, "abort")
                 /\ UNCHANGED <<body, ctx, batchVars, service, store>>

\* MUTANT: the payload is saved without its UploadID.
CollectForgetsID(c) == /\ pc[c] = "collect"
                       /\ \E p \in acked[c] :
                            /\ acked' = [acked EXCEPT ![c] = @ \ {p}]
                            /\ parts' = [parts EXCEPT ![c] = @ \cup {p}]
                       /\ store' = [id |-> None, parts |-> parts'[c]]
                       /\ UNCHANGED <<pc, body, ctx, uploadID, failed, service>>

\* One turn of the loop over resCh: the part joins the list, and the list so
\* far is saved.  An error of Save is ignored.
Collect(c) == /\ pc[c] = "collect"
              /\ \E p \in acked[c] :
                   /\ acked' = [acked EXCEPT ![c] = @ \ {p}]
                   /\ parts' = [parts EXCEPT ![c] = @ \cup {p}]
              /\ \/ store' = [id |-> uploadID[c], parts |-> parts'[c]]
                 \/ (ctx[c] # "live" \/ "save" \in faults) /\ UNCHANGED store
              /\ UNCHANGED <<pc, body, ctx, uploadID, failed, service>>

\* MUTANT: Complete is called before every result is collected.
CollectEndsEarly(c) == /\ pc[c] = "collect"
                       /\ Goto(c, "complete")
                       /\ UNCHANGED <<body, ctx, batchVars, service, store>>

CollectEnds(c) == /\ pc[c] = "collect"
                  /\ acked[c] = {}
                  /\ Goto(c, "complete")
                  /\ UNCHANGED <<body, ctx, batchVars, service, store>>

-----------------------------------------------------------------------------
(* Complete, and the paths to the return.                                  *)

\* What the service accepts: an open upload that holds every listed part.
\* The list may be short, and a context that is done may end the call or not:
\* no driver looks at it before the request is sent.
Acceptable(c) == /\ uploads[uploadID[c]].state = "open"
                 /\ parts[c] # {}
                 /\ parts[c] \subseteq uploads[uploadID[c]].held

Commit(c) == /\ Acceptable(c)
             /\ uploads' = [uploads EXCEPT ![uploadID[c]] = [state |-> "done", held |-> {}]]
             /\ object' = parts[c]

Complete(c) == /\ pc[c] = "complete"
               /\ Commit(c)
               /\ Goto(c, "cleanup")
               /\ UNCHANGED <<body, ctx, batchVars, store, faults>>

\* Complete returns an error; the service may have committed all the same.
CompleteFails(c) == /\ pc[c] = "complete"
                    /\ \/ /\ ~Acceptable(c) \/ ctx[c] # "live" \/ "complete" \in faults
                          /\ UNCHANGED <<uploads, object>>
                       \/ "lostReply" \in faults /\ Commit(c)
                    /\ Goto(c, "undo")
                    /\ UNCHANGED <<body, ctx, batchVars, store, faults>>

\* mp.Abort(context.Background(), ...), its error ignored.
AbortUpload(id) ==
    \/ /\ uploads[id].state = "open"
       /\ uploads' = [uploads EXCEPT ![id] = [state |-> "aborted", held |-> {}]]
    \/ /\ uploads[id].state # "open" \/ "abort" \in faults
       /\ UNCHANGED uploads

\* StateStore.Delete(context.Background(), ...), its error ignored.
DeleteState == \/ store' = None
               \/ "delete" \in faults /\ UNCHANGED store

\* After a failed batch: Abort, then Delete, then the error is returned.
AbortBatch(c) == /\ pc[c] = "abort"
                 /\ AbortUpload(uploadID[c])
                 /\ Goto(c, "forget")
                 /\ UNCHANGED <<body, ctx, batchVars, object, store, faults>>

ForgetBatch(c) == /\ pc[c] = "forget"
                  /\ DeleteState
                  /\ Leave(c)
                  /\ UNCHANGED service

\* MUTANT: a failed Complete is not followed by Abort.
UndoNothing(c) == /\ pc[c] = "undo"
                  /\ Leave(c)
                  /\ UNCHANGED <<service, store>>

\* After a failed Complete: Abort, and the error is returned.
UndoComplete(c) == /\ pc[c] = "undo"
                   /\ AbortUpload(uploadID[c])
                   /\ Leave(c)
                   /\ UNCHANGED <<object, store, faults>>

\* MUTANT: the payload of a completed upload is kept.
CleanupNothing(c) == /\ pc[c] = "cleanup"
                     /\ Leave(c)
                     /\ UNCHANGED <<service, store>>

\* After a successful Complete: Delete, and the result is returned.
Cleanup(c) == /\ pc[c] = "cleanup"
              /\ DeleteState
              /\ Leave(c)
              /\ UNCHANGED service

-----------------------------------------------------------------------------
(* The environment.                                                        *)

CtxDone(c, why) == /\ pc[c] # "idle"
                   /\ ctx[c] = "live"
                   /\ why \in faults
                   /\ ctx' = [ctx EXCEPT ![c] = why]
                   /\ UNCHANGED <<pc, body, batchVars, service, store>>

\* The process dies between two steps; the store and the service live on.
Crash(c) == /\ pc[c] # "idle"
            /\ "crash" \in faults
            /\ Leave(c)
            /\ UNCHANGED <<service, store>>

\* The outages end for good.
Recover == /\ faults # {}
           /\ faults' = {}
           /\ UNCHANGED <<local, uploads, object, store>>

Run(c) == \/ SinglePut(c) \/ SinglePutFails(c)
          \/ LoadResume(c) \/ LoadNothing(c)
          \/ Initiate(c) \/ InitiateFails(c)
          \/ Slice(c) \/ SliceFails(c)
          \/ \E n \in PartNumber : UploadPart(c, n) \/ UploadPartFails(c, n)
          \/ BatchPasses(c) \/ BatchFails(c)
          \/ Collect(c) \/ CollectEnds(c)
          \/ Complete(c) \/ CompleteFails(c)
          \/ AbortBatch(c) \/ ForgetBatch(c)
          \/ UndoComplete(c) \/ Cleanup(c)

Next == \/ \E c \in Callers :
              \/ \E b \in Bodies : Begin(c, b)
              \/ Run(c)
              \/ \E why \in {"canceled", "deadline"} : CtxDone(c, why)
              \/ Crash(c)
        \/ Recover

Spec == Init /\ [][Next]_vars

\* A caller runs until Upload returns and uploads every body again and again;
\* whatever went wrong stops going wrong.
FairSpec == /\ Spec
            /\ WF_vars(Recover)
            /\ \A c \in Callers : /\ WF_vars(Run(c))
                                  /\ \A b \in Bodies : SF_vars(Begin(c, b))

-----------------------------------------------------------------------------
(* Properties.                                                             *)

TypeOK == /\ pc \in [Callers -> Phase]
          /\ body \in [Callers -> Bodies]
          /\ ctx \in [Callers -> {"live", "canceled", "deadline"}]
          /\ uploadID \in [Callers -> UploadIDs \cup {None}]
          /\ parts \in [Callers -> SUBSET Part]
          /\ acked \in [Callers -> SUBSET Part]
          /\ failed \in [Callers -> BOOLEAN]
          /\ uploads \in [UploadIDs -> [state : {"unused", "open", "done", "aborted"},
                                        held : SUBSET Part]]
          /\ object = None \/ object \in SUBSET Part
          /\ store = None \/ store \in PayloadType
          /\ faults \subseteq Faults

\* What a call puts under the key is its body whole - never a prefix, never
\* parts of two bodies joined - unless its context was cancelled, when it may
\* be some of the parts (manager.go:340).  It holds as long as every caller
\* sends the same body; the payload has nothing to tell bodies apart.
WholeUnlessCanceled ==
    [][\A c \in Callers : object' # object /\ Run(c) =>
          /\ object' \subseteq Whole(body[c])
          /\ ctx[c] # "canceled" => object' = Whole(body[c])]_vars

\* The comment of runWorkers: it returns the full set of parts on success
\* (manager.go:274-277).  A call whose Complete was acknowledged had them all.
FullSetOnSuccess == \A c \in Callers : pc[c] = "cleanup" => Missing(c) = {}

\* A part that a caller counts as uploaded, or that the resume payload names,
\* is in the upload it counts for as long as that upload is open, whoever
\* else works on the same upload.
CountedIsHeld ==
    /\ \A c \in Callers :
          uploadID[c] # None /\ uploads[uploadID[c]].state = "open"
              => parts[c] \cup acked[c] \subseteq uploads[uploadID[c]].held
    /\ store # None /\ uploads[store.id].state = "open"
          => store.parts \subseteq uploads[store.id].held

\* No orphan: whichever way uploadMultipart goes, it leaves no open upload
\* behind, unless its own Abort fails.  Only the death of the process may.
NoOrphan ==
    [][\A c \in Callers :
          /\ uploadID[c] # None
          /\ pc[c] \notin {"idle", "forget"}
          /\ pc'[c] \in {"forget", "idle"}
          /\ Run(c)
          => uploads'[uploadID[c]].state # "open" \/ "abort" \in faults]_vars

\* Trying the multipart upload of the key again and again succeeds again and
\* again: no earlier failure has made it impossible for good.
RetrySucceeds == []<>(\E c \in Callers : pc[c] = "cleanup")

-----------------------------------------------------------------------------
(* Every call uses runWorkers as PartBatch describes it.                   *)

Outcome(c) == IF pc[c] \in BatchPhase THEN "running"
              ELSE IF pc[c] \in AfterParts THEN "ok"
              ELSE IF pc[c] \in AfterError THEN "err" ELSE "idle"

Batch(c) == INSTANCE PartBatch WITH
    Numbers <- PartNumber,
    plan <- Plan(body[c]),
    acked <- IF Outcome(c) = "idle" THEN {} ELSE NumbersOf(parts[c] \cup acked[c]),
    failed <- failed[c],
    parent <- ctx[c],
    outcome <- Outcome(c)

UsesBatch ==
    /\ \A c \in Callers : Batch(c)!Init
    /\ [][\A c \in Callers : UNCHANGED Batch(c)!vars \/ Batch(c)!Next]_vars
=============================================================================
