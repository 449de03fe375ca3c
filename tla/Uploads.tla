------------------------------- MODULE Uploads -------------------------------
(* Multipart uploads through the MultipartService of a driver: callers that  *)
(* send parts of uploads at the same time, parts that fail and are sent      *)
(* again, Completes and Aborts of one upload that overlap, answers that are  *)
(* lost, requests that arrive after their call has returned.  UploadPart,    *)
(* Complete and Abort are two steps each, cut where a driver that keeps a    *)
(* registry of uploads has the session and has not used it yet.              *)
EXTENDS Client

CONSTANTS Drivers,      \* the drivers under test
          Bucket,
          Callers,
          PartNumbers,
          MaxUploads,   \* bound: uploads
          MaxSends,     \* bound: uploads and UploadParts together
          MaxLate       \* bound: requests left behind in the network

ASSUME UploadsAssumption == /\ Drivers \subseteq AllDrivers
                            /\ PartNumbers \subseteq Nat \ {0}
                            /\ MaxUploads \in Nat /\ MaxSends \in Nat /\ MaxLate \in Nat

VARIABLES c,       \* the client
          store,   \* the service and the driver's registry
          ups,     \* id -> [key, state, abort]: state counts the Completes
                   \* (open, asked, again; done when one was acknowledged),
                   \* abort tells of the Aborts (no, tried, done)
          acked,   \* id -> part number -> etag, for the parts acknowledged
          doubt,   \* the uploads with a part whose sending came to no answer
          calls,   \* caller -> the call it is in the middle of
          late,    \* calls that have returned and whose request is under way
          sends    \* UploadParts so far

vars == <<c, store, ups, acked, doubt, calls, late, sends>>
Req == [Request EXCEPT !.bucket = Bucket]
At(id) == <<Bucket, ups[id].key>>

\* A call: an UploadPart (cut: its body is going to fail), a Complete of the
\* parts listed (after: an Abort had been acknowledged when it began) or an
\* Abort.
Idle == [op |-> "none", id |-> 0, pn |-> 0, cut |-> FALSE, parts |-> <<>>,
         after |-> FALSE]

Init == /\ c \in {Serving(d, Bucket) : d \in Drivers}
        /\ store = NewStore({Bucket})
        /\ ups = <<>> /\ acked = <<>> /\ doubt = {}
        /\ calls = [p \in Callers |-> Idle] /\ late = {} /\ sends = 0

HasRoom == Cardinality(DOMAIN ups) + sends < MaxSends

Initiate(k) ==
  /\ HasRoom /\ Cardinality(DOMAIN ups) < MaxUploads
  /\ \E o \in InitiateUpload(c, store, [Req EXCEPT !.key = k]) :
       /\ o.code = "ok"
       /\ store' = o.store
       /\ ups' = With(ups, o.out.id, [key |-> k, state |-> "open", abort |-> "no"])
       /\ acked' = With(acked, o.out.id, <<>>)
  /\ UNCHANGED <<c, doubt, calls, late, sends>>

\* Every part of an upload has bytes of its own; a retry sends them again.
PartBytes(id, pn) == <<id, pn>>
PartRequest(call) ==
  [Req EXCEPT !.id = call.id, !.key = ups[call.id].key, !.pn = call.pn, !.size = 2,
     !.body = [nil |-> FALSE, fails |-> call.cut,
               bytes |-> IF call.cut THEN <<call.id>> ELSE PartBytes(call.id, call.pn)]]
CompleteRequest(call) ==
  [Req EXCEPT !.id = call.id, !.key = ups[call.id].key, !.parts = call.parts]
AbortRequest(call) == [Req EXCEPT !.id = call.id, !.key = ups[call.id].key]

Begin(p, call) == calls[p] = Idle /\ calls' = [calls EXCEPT ![p] = call]
End(p) == calls' = [calls EXCEPT ![p] = Idle]

\* The answer o says nothing definite: the request may be carried out after
\* the call has returned.  A writer of gcs sends by itself, in order.
LeaveBehind(call, o) ==
  \/ late' = late
  \/ /\ o.code \in {"timeout", "internal"} /\ o.store = store
     /\ c.drv # "gcs" /\ ~call.cut /\ Cardinality(late) < MaxLate
     /\ late' = late \cup {call}

\* The parts acknowledged, in the order of their numbers.
Numbers(id) == Ascending(DOMAIN acked[id])
Manifest(id) == [i \in DOMAIN Numbers(id) |->
                   [pn |-> Numbers(id)[i], etag |-> acked[id][Numbers(id)[i]]]]

PartBegin(p, id, pn, cut) ==
  LET call == [Idle EXCEPT !.op = "part", !.id = id, !.pn = pn, !.cut = cut]
  IN /\ HasRoom /\ sends' = sends + 1
     /\ ups[id].state = "open" /\ ups[id].abort = "no" /\ pn \notin DOMAIN acked[id]
     /\ UploadPartGet(c, store, PartRequest(call)) = {}
     /\ Begin(p, call)
     /\ UNCHANGED <<c, store, ups, acked, doubt, late>>

Refused(o) == ~o.retry /\ o.code \in
  {"unsupported", "invalid_argument", "not_found", "already_exists", "conflict",
   "permission_denied", "unauthenticated", "precondition_failed", "length_required"}

PartEnd(p) ==
  /\ calls[p].op = "part"
  /\ LET id == calls[p].id
     IN \E o \in UploadPartRest(c, store, PartRequest(calls[p])) :
          /\ store' = o.store
          /\ acked' = IF o.code = "ok"
                      THEN [acked EXCEPT ![id] = With(@, calls[p].pn, o.out.etag)]
                      ELSE acked
          /\ doubt' = IF o.code = "ok" \/ Refused(o) THEN doubt ELSE doubt \cup {id}
          /\ LeaveBehind(calls[p], o)
  /\ End(p)
  /\ UNCHANGED <<c, ups, sends>>

\* A Complete of all parts acknowledged so far; one that is refused at once
\* changes nothing.
Completion(id) == [Idle EXCEPT !.op = "complete", !.id = id, !.parts = Manifest(id),
                               !.after = ups[id].abort = "done"]
CompleteBegin(p, id) ==
  /\ ups[id].state \in {"open", "asked"} /\ acked[id] # <<>>
  /\ CompleteUploadGet(c, store, CompleteRequest(Completion(id))) = {}
  /\ store' = TakeUpload(c, store, CompleteRequest(Completion(id)))
  /\ ups' = [ups EXCEPT ![id].state = IF @ = "open" THEN "asked" ELSE "again"]
  /\ Begin(p, Completion(id))
  /\ UNCHANGED <<c, acked, doubt, late, sends>>
CompleteEnd(p) ==
  /\ calls[p].op = "complete"
  /\ \E o \in CompleteUploadRest(c, store, CompleteRequest(calls[p])) :
       /\ store' = o.store
       /\ ups' = IF o.code = "ok" THEN [ups EXCEPT ![calls[p].id].state = "done"] ELSE ups
       /\ LeaveBehind(calls[p], o)
  /\ End(p)
  /\ UNCHANGED <<c, acked, doubt, sends>>

AbortBegin(p, id) ==
  LET call == [Idle EXCEPT !.op = "abort", !.id = id]
  IN /\ ups[id].state # "done" /\ ups[id].abort # "done"
     /\ IF AbortUploadGet(c, store, AbortRequest(call)) = {}
        THEN /\ store' = TakeUpload(c, store, AbortRequest(call))
             /\ ups' = [ups EXCEPT ![id].abort = "tried"]
             /\ Begin(p, call)
        ELSE /\ calls[p] = Idle
             /\ ups' = [ups EXCEPT ![id].abort = "done"]
             /\ UNCHANGED <<store, calls>>
  /\ UNCHANGED <<c, acked, doubt, late, sends>>
AbortEnd(p) ==
  /\ calls[p].op = "abort"
  /\ \E o \in AbortUploadRest(c, store, AbortRequest(calls[p])) :
       /\ store' = o.store
       /\ ups' = IF o.code = "ok" THEN [ups EXCEPT ![calls[p].id].abort = "done"] ELSE ups
  /\ End(p)
  /\ UNCHANGED <<c, acked, doubt, late, sends>>

\* A request left behind is carried out; nobody reads the answer.
LateArrives(call) ==
  /\ late' = late \ {call}
  /\ \E o \in IF call.op = "part" THEN UploadPartRest(c, store, PartRequest(call))
              ELSE CompleteUploadRest(c, store, CompleteRequest(call)) :
       store' = [o.store EXCEPT !.sess = store.sess]
  /\ UNCHANGED <<c, ups, acked, doubt, calls, sends>>

Next == \/ \E k \in Keys : Initiate(k)
        \/ \E p \in Callers, id \in DOMAIN ups :
             \/ \E pn \in PartNumbers, cut \in BOOLEAN : PartBegin(p, id, pn, cut)
             \/ CompleteBegin(p, id) \/ AbortBegin(p, id)
        \/ \E p \in Callers : PartEnd(p) \/ CompleteEnd(p) \/ AbortEnd(p)
        \/ \E call \in late : LateArrives(call)

Spec == Init /\ [][Next]_vars
-----------------------------------------------------------------------------
\* The Completes that have the session, or need none, and are not answered.
Completing == {calls[p] : p \in {q \in Callers : calls[q].op = "complete"}}
Answers(call) == CompleteUploadRest(c, store, CompleteRequest(call))

Bytes(id, parts) == Joined([i \in DOMAIN parts |-> PartBytes(id, parts[i].pn)])
Alone(id) == \A other \in DOMAIN ups \ {id} : ups[other].key # ups[id].key

\* An upload whose parts stay apart from those of others and of failed
\* attempts.  The blocks of azure are named after the part number alone; the
\* writer of gcs keeps what a failed part has written, and upyun completes
\* with every part the service has.
Clean(id) == /\ c.drv = "azure" => Alone(id)
             /\ c.drv \in {"gcs", "upyun"} => id \notin doubt

\* A Complete that is acknowledged publishes the bytes of the parts it lists,
\* in order, once each, nothing else - in gcs and upyun, of every part that was
\* acknowledged before the commit - and the first one of an upload nobody has
\* aborted is not refused for what it says: whatever else was in flight, was
\* retried, came late, or went on under another upload (client.go:125-127).
CompleteMatchesAcks ==
  /\ \A call \in Completing, id \in DOMAIN ups : call.id = id =>
       \A o \in Answers(call) :
         /\ o.code = "ok" /\ Clean(id) =>
              o.store.objs[At(id)].bytes =
                Bytes(id, IF c.drv \in {"gcs", "upyun"} THEN Manifest(id) ELSE call.parts)
         /\ /\ Refused(o) /\ ups[id].state = "asked" /\ ups[id].abort = "no"
            /\ c.drv = "azure" => Alone(id)
            => o.code \in {"permission_denied", "unauthenticated"}
  /\ \A id \in DOMAIN ups :
       ups[id].state = "open" /\ ups[id].abort = "no" /\ acked[id] # <<>> =>
         CompleteUploadGet(c, store, CompleteRequest(Completion(id))) = {}

\* A caller that lost the answer to Complete asks again, and nobody has called
\* Abort: "not found" then says that a Complete went through, and the object is
\* there.  The gcs driver drops the session before it closes the writer, so
\* there it says nothing.
NotFoundMeansPublished ==
  \A id \in DOMAIN ups : ups[id].abort = "no" /\ c.drv # "gcs" =>
    \A o \in CompleteUploadGet(c, store, CompleteRequest(Completion(id)))
             \cup UNION {Answers(call) : call \in {x \in Completing : x.id = id}} :
      o.code = "not_found" => Has(store, At(id))

\* The drivers that keep no registry: Abort is a request to the service.
Stateless == AllDrivers \ {"gcs", "azure", "qiniu", "upyun"}

\* Once an Abort is acknowledged, a Complete that begins afterwards publishes
\* nothing, and with a stateless driver no Complete does, not one that was
\* under way either, nor one whose request comes late.  With a registry Abort is
\* a matter of the process, and a Complete that has its session publishes.
AbortIsFinal ==
  \A call \in Completing \cup {x \in late : x.op = "complete"} :
    call.after \/ (c.drv \in Stateless /\ ups[call.id].abort = "done") =>
      \A o \in Answers(call) : o.code # "ok" /\ o.store.objs = store.objs
=============================================================================
