--------------------------- MODULE Uploads_proofs ----------------------------
(* What the callers of Uploads can rely on, for any number of callers,       *)
(* uploads and parts, for every driver and fault: an aborted upload stays    *)
(* aborted, and a Complete that finds nothing of an upload nobody has        *)
(* aborted has published the object.                                         *)
EXTENDS Uploads, Drivers_proofs

-----------------------------------------------------------------------------
(* The invariant *)

\* No session has the number that a request for a new upload gives.
Unnamed(d, s) == d \notin Services => 0 \notin DOMAIN s.sess

\* What the store s of the driver d still has of the upload id, which the
\* callers know as u: after an Abort that was answered nothing that a Complete
\* would reach; while nobody has asked for its end all that a Complete needs;
\* and while nobody has called Abort that, or the object.
Kept(d, s, id, u) ==
  LET at == <<Bucket, u.key>>
  IN /\ id \in Nat /\ 0 < id /\ id < s.next
     /\ {"key", "state", "abort"} \subseteq DOMAIN u
     /\ Placed(d, s, id, at)
     /\ u.abort = "done" => ~Reaches(d, s, id, at)
     /\ u.abort = "no" /\ u.state = "open" => Held(d, s, id, at)
     /\ u.abort = "no" /\ d # "gcs" => Held(d, s, id, at) \/ Has(s, at)

\* A call that has begun and is not answered, or whose request is under way
\* still.  The gcs driver has taken the session out by then; and a Complete that
\* began after an Abort got as far as that only where the service is asked.
InFlight(d, s, us, call) ==
  /\ call.id \in DOMAIN us
  /\ call.op = "complete" => us[call.id].state # "open"
  /\ call.op = "abort" => us[call.id].abort # "no"
  /\ call.op \in {"complete", "abort"} /\ d = "gcs" =>
       ~Reaches(d, s, call.id, <<Bucket, us[call.id].key>>)
  /\ call.op = "complete" /\ call.after => d \in Services /\ us[call.id].abort = "done"

UploadsInv ==
  /\ c.drv \in AllDrivers /\ c = Serving(c.drv, Bucket)
  /\ Sound(c.drv, store) /\ Bucket \in store.buckets /\ 0 < store.next
  /\ Unnamed(c.drv, store)
  /\ \A id \in DOMAIN ups : Kept(c.drv, store, id, ups[id])
  /\ DOMAIN calls = Callers
  /\ \A p \in Callers : calls[p] = Idle \/ InFlight(c.drv, store, ups, calls[p])
  /\ \A call \in late : /\ InFlight(c.drv, store, ups, call)
                        /\ call.op \in {"part", "complete"} /\ c.drv # "gcs"

\* An upload that a call is not about stays as it is.
LEMMA OtherKept ==
  ASSUME NEW d, NEW s, NEW t, KeepsObjects(s, t), NEW id, Same(d, s, t, id),
         s.next \in Nat, t.next \in Nat, s.next <= t.next, NEW u, Kept(d, s, id, u)
  PROVE  Kept(d, t, id, u)
<1> DEFINE at == <<Bucket, u.key>>
<1>1. /\ Reaches(d, t, id, at) <=> Reaches(d, s, id, at)
      /\ Held(d, t, id, at) <=> Held(d, s, id, at)
      /\ Placed(d, s, id, at) => Placed(d, t, id, at)
      /\ Has(s, at) => Has(t, at)
  BY DEF Same, KeepsObjects
<1> QED BY <1>1 DEF Kept

LEMMA StaysUnnamed ==
  ASSUME NEW d, NEW s, NEW t, Same(d, s, t, 0), Unnamed(d, s)
  PROVE  Unnamed(d, t)
<1> DEFINE x == 0  y == 1
<1>1. Unnamed(d, s) => Placed(d, s, 0, x) /\ Placed(d, s, 0, y)
  BY DEF Unnamed, Placed
<1>2. Placed(d, t, 0, x) /\ Placed(d, t, 0, y) => Unnamed(d, t)
  BY DEF Unnamed, Placed
<1> HIDE DEF x, y
<1> QED BY <1>1, <1>2 DEF Same

\* What the callers know of an upload goes on.
Onward(u, v) == /\ v.key = u.key /\ (u.state # "open" => v.state # "open")
                /\ (u.abort # "no" => v.abort # "no") /\ (u.abort = "done" => v.abort = "done")

\* A Complete leaves of its upload what the callers then may rely on; and so
\* does an Abort.
LEMMA CompletedKept ==
  ASSUME NEW d, NEW s, NEW t, NEW id, NEW u, Kept(d, s, id, u),
         Ends(d, s, t, id, <<Bucket, u.key>>),
         d # "gcs" /\ Held(d, s, id, <<Bucket, u.key>>) =>
           Held(d, t, id, <<Bucket, u.key>>) \/ Has(t, <<Bucket, u.key>>),
         NEW v, {"key", "state", "abort"} \subseteq DOMAIN v, v.key = u.key,
         v.state # "open", v.abort = u.abort
  PROVE  Kept(d, t, id, v)
<1> DEFINE at == <<Bucket, u.key>>
<1>1. /\ Placed(d, t, id, at) /\ t.next = s.next /\ (Has(s, at) => Has(t, at))
      /\ Reaches(d, t, id, at) => Reaches(d, s, id, at)
  BY DEF Ends, KeepsObjects
<1>2. /\ id \in Nat /\ 0 < id /\ id < s.next
      /\ u.abort = "done" => ~Reaches(d, s, id, at)
      /\ u.abort = "no" /\ d # "gcs" => Held(d, s, id, at) \/ Has(s, at)
  BY DEF Kept
<1>3. at = <<Bucket, v.key>>
  OBVIOUS
<1>4. d # "gcs" /\ Held(d, s, id, at) => Held(d, t, id, at) \/ Has(t, at)
  OBVIOUS
<1> HIDE DEF at
<1> QED BY <1>1, <1>2, <1>3, <1>4 DEF Kept

LEMMA AbortedKept ==
  ASSUME NEW d, NEW s, NEW t, NEW id, NEW u, Kept(d, s, id, u),
         Ends(d, s, t, id, <<Bucket, u.key>>),
         NEW v, {"key", "state", "abort"} \subseteq DOMAIN v, v.key = u.key, v.abort # "no",
         v.abort = "done" => ~Reaches(d, t, id, <<Bucket, u.key>>)
  PROVE  Kept(d, t, id, v)
<1> DEFINE at == <<Bucket, u.key>>
<1>1. Placed(d, t, id, at) /\ t.next = s.next
  BY DEF Ends
<1>2. id \in Nat /\ 0 < id /\ id < s.next
  BY DEF Kept
<1>3. at = <<Bucket, v.key>> /\ (v.abort = "done" => ~Reaches(d, t, id, at))
  OBVIOUS
<1> HIDE DEF at
<1> QED BY <1>1, <1>2, <1>3 DEF Kept

\* A call in flight is so after a step that moves its upload on.
LEMMA InFlightStays ==
  ASSUME NEW d, NEW s, NEW t, NEW us, NEW vs, DOMAIN us \subseteq DOMAIN vs,
         NEW call, InFlight(d, s, us, call), Onward(us[call.id], vs[call.id]),
         LET at == <<Bucket, us[call.id].key>>
         IN Reaches(d, t, call.id, at) => Reaches(d, s, call.id, at)
  PROVE  InFlight(d, t, vs, call)
BY DEF InFlight, Onward

\* A step of any kind: of the store and the uploads what the calls leave, and
\* calls that are as before, over, or newly in flight.
LEMMA StepInv ==
  ASSUME UploadsInv, c' = c, Sound(c.drv, store'), KeepsObjects(store, store'),
         store.next <= store'.next, Same(c.drv, store, store', 0),
         DOMAIN ups \subseteq DOMAIN ups',
         \A i \in DOMAIN ups : /\ Onward(ups[i], ups'[i])
                               /\ Reaches(c.drv, store', i, At(i)) => Reaches(c.drv, store, i, At(i)),
         \A i \in DOMAIN ups' : Kept(c.drv, store', i, ups'[i]),
         DOMAIN calls' = Callers,
         \A p \in Callers : \/ calls'[p] \in {calls[p], Idle}
                            \/ InFlight(c.drv, store', ups', calls'[p]),
         \A call \in late' : \/ call \in late
                             \/ /\ InFlight(c.drv, store', ups', call)
                                /\ call.op \in {"part", "complete"} /\ c.drv # "gcs"
  PROVE  UploadsInv'
<1> DEFINE d == c.drv
<1>1. /\ d \in AllDrivers /\ c' = Serving(d, Bucket) /\ d = c'.drv
      /\ Sound(d, store) /\ Unnamed(d, store) /\ Bucket \in store.buckets /\ 0 < store.next
  BY DEF UploadsInv
<1>2. ASSUME NEW call, InFlight(d, store, ups, call) PROVE InFlight(d, store', ups', call)
  <2>1. call.id \in DOMAIN ups
    BY <1>2 DEF InFlight
  <2>2. Reaches(d, store', call.id, <<Bucket, ups[call.id].key>>) =>
          Reaches(d, store, call.id, <<Bucket, ups[call.id].key>>)
    BY <2>1 DEF At
  <2>3. Onward(ups[call.id], ups'[call.id])
    BY <2>1
  <2> HIDE DEF d
  <2> QED BY <1>2, <2>2, <2>3, InFlightStays
<1>3. \A p \in Callers : calls'[p] = Idle \/ InFlight(d, store', ups', calls'[p])
  BY <1>2 DEF UploadsInv
<1>4. \A call \in late' : /\ InFlight(d, store', ups', call)
                          /\ call.op \in {"part", "complete"} /\ d # "gcs"
  BY <1>2 DEF UploadsInv
<1>5. Unnamed(d, store')
  BY <1>1, StaysUnnamed
<1>6. Bucket \in store'.buckets /\ 0 < store'.next
  <2>1. store.next \in Nat /\ store'.next \in Nat
    BY <1>1 DEF Sound, Shaped
  <2> QED BY <1>1, <2>1 DEF KeepsObjects
<1>7. /\ Sound(d, store') /\ \A i \in DOMAIN ups' : Kept(d, store', i, ups'[i])
      /\ DOMAIN calls' = Callers
  OBVIOUS
<1> HIDE DEF d
<1> QED BY <1>1, <1>3, <1>4, <1>5, <1>6, <1>7 DEF UploadsInv

\* The requests name the bucket, and the upload they are about.
LEMMA RequestsName ==
  /\ Req.bucket = Bucket /\ {"bucket", "key", "id", "parts"} \subseteq DOMAIN Req /\ Req.id = 0
  /\ \A k : LET r == [Req EXCEPT !.key = k] IN r.bucket = Bucket /\ r.key = k /\ r.id = 0
  /\ \A call : LET r == CompleteRequest(call)
               IN r.bucket = Bucket /\ r.key = ups[call.id].key /\ r.id = call.id
                  /\ r.parts = call.parts
  /\ \A call : LET r == AbortRequest(call)
               IN r.bucket = Bucket /\ r.key = ups[call.id].key /\ r.id = call.id
  /\ \A call : LET r == PartRequest(call)
               IN r.bucket = Bucket /\ r.key = ups[call.id].key /\ r.id = call.id
<1>1. Req.bucket = Bucket /\ Req.id = 0 /\ {"bucket", "key", "id", "parts"} \subseteq DOMAIN Req
  BY DEF Req, Request
<1>2. \A k : LET r == [Req EXCEPT !.key = k] IN r.bucket = Bucket /\ r.key = k /\ r.id = 0
  BY <1>1
<1>3. \A call : LET r == CompleteRequest(call)
                IN r.bucket = Bucket /\ r.key = ups[call.id].key /\ r.id = call.id
                   /\ r.parts = call.parts
  BY <1>1 DEF CompleteRequest
<1>4. \A call : LET r == AbortRequest(call)
                IN r.bucket = Bucket /\ r.key = ups[call.id].key /\ r.id = call.id
  BY <1>1 DEF AbortRequest
<1>5. \A call : LET r == PartRequest(call)
                IN r.bucket = Bucket /\ r.key = ups[call.id].key /\ r.id = call.id
  BY <1>1 DEF PartRequest
<1> QED BY <1>1, <1>2, <1>3, <1>4, <1>5

\* Under the invariant, the calls of the caller's requests do what the calls
\* of the driver do.
LEMMA Views ==
  ASSUME UploadsInv, NEW id, id \in DOMAIN ups \/ id = 0,
         NEW r, r.bucket = Bucket, r.id = id, id \in DOMAIN ups => r.key = ups[id].key
  PROVE  /\ c.drv \in AllDrivers /\ Sound(c.drv, store) /\ Bucket \in store.buckets
         /\ NamesView(c, r) /\ Placed(c.drv, store, id, <<Bucket, r.key>>)
<1>1. NamesView(c, r)
  BY DEF UploadsInv, NamesView, Serving, View
<1>2. Placed(c.drv, store, id, <<Bucket, r.key>>)
  BY DEF UploadsInv, Kept, Unnamed, Placed
<1> QED BY <1>1, <1>2 DEF UploadsInv

LEMMA CallsOf ==
  ASSUME UploadsInv, NEW id, id \in DOMAIN ups \/ id = 0,
         NEW r, r.bucket = Bucket, r.id = id, id \in DOMAIN ups => r.key = ups[id].key
  PROVE  UploadCalls(c.drv, store, <<Bucket, r.key>>, id,
           InitiateUpload(c, store, r), UploadPartRest(c, store, r),
           CompleteUploadRest(c, store, r), AbortUploadRest(c, store, r))
<1> DEFINE d == c.drv
<1>1. /\ NamesView(c, r) /\ Placed(d, store, id, <<Bucket, r.key>>)
      /\ d \in AllDrivers /\ Sound(d, store) /\ Bucket \in store.buckets /\ d = c.drv
  BY Views
<1> HIDE DEF d
<1> QED BY <1>1, ClientUploads

LEMMA InitInv == Init => UploadsInv
<1> SUFFICES ASSUME Init PROVE UploadsInv
  OBVIOUS
<1>1. PICK d \in Drivers : c = Serving(d, Bucket)
  BY DEF Init
<1>2. c.drv = d /\ d \in AllDrivers
  BY <1>1, UploadsAssumption DEF Serving, View
<1>3. /\ store.buckets = {Bucket} /\ store.ups = <<>> /\ store.sess = <<>> /\ store.next = 1
      /\ DOMAIN store = {"buckets", "objs", "ups", "sess", "next"}
  BY DEF Init, NewStore
<1>4. Sound(d, store) /\ Unnamed(d, store)
  BY <1>3 DEF Sound, Shaped, SessShaped, UpsShaped, Unnamed
<1>5. /\ ups = <<>> /\ DOMAIN calls = Callers /\ \A p \in Callers : calls[p] = Idle
      /\ late = {}
  BY DEF Init
<1> QED BY <1>1, <1>2, <1>3, <1>4, <1>5 DEF UploadsInv

\* What the caller's Initiate comes to.
LEMMA InitiateDoes ==
  ASSUME UploadsInv, NEW k, NEW o \in InitiateUpload(c, store, [Req EXCEPT !.key = k])
  PROVE  Initiates(c.drv, store, <<Bucket, k>>, o)
<1> DEFINE r == [Req EXCEPT !.key = k]
<1>1. r.bucket = Bucket /\ r.key = k /\ r.id = 0 /\ o \in InitiateUpload(c, store, r)
  BY RequestsName
<1> HIDE DEF r
<1>2. 0 \notin DOMAIN ups
  <2>1. \A i : Kept(c.drv, store, i, ups[i]) => i # 0
    BY DEF Kept
  <2> QED BY <2>1 DEF UploadsInv
<1>3. UploadCalls(c.drv, store, <<Bucket, r.key>>, 0,
           InitiateUpload(c, store, r), UploadPartRest(c, store, r),
           CompleteUploadRest(c, store, r), AbortUploadRest(c, store, r))
  BY <1>1, <1>2, CallsOf
<1>4. \A x \in InitiateUpload(c, store, r) : Initiates(c.drv, store, <<Bucket, r.key>>, x)
  BY Zenon, <1>3 DEF UploadCalls
<1> QED BY <1>1, <1>4

LEMMA InitiateInv ==
  ASSUME UploadsInv, NEW k, Initiate(k)
  PROVE  UploadsInv'
<1> DEFINE d == c.drv
           at == <<Bucket, k>>
<1>1. PICK o \in InitiateUpload(c, store, [Req EXCEPT !.key = k]) :
        o.code = "ok" /\ store' = o.store
        /\ ups' = With(ups, o.out.id, [key |-> k, state |-> "open", abort |-> "no"])
  BY DEF Initiate
<1>2. c' = c /\ calls' = calls /\ late' = late
  BY DEF Initiate
<1> DEFINE id == o.out.id
           u == [key |-> k, state |-> "open", abort |-> "no"]
<1>3. u.key = k /\ u.state = "open" /\ u.abort = "no" /\ {"key", "state", "abort"} \subseteq DOMAIN u
  OBVIOUS
<1>4. ups' = With(ups, id, u)
  BY <1>1
<1> HIDE DEF u
<1>5. Initiates(c.drv, store, at, o)
  BY InitiateDoes
<1>6. Begins(d, store, store', id, at)
  BY <1>1, <1>5 DEF Initiates
<1> HIDE DEF d, id
<1>7. DOMAIN ups' = DOMAIN ups \cup {id} /\ ups'[id] = u
      /\ \A i \in DOMAIN ups : i # id => ups'[i] = ups[i]
  BY <1>4 DEF With
<1>8. /\ Sound(d, store) /\ 0 < store.next
      /\ \A i \in DOMAIN ups : Kept(d, store, i, ups[i])
  BY DEF UploadsInv, d
<1>9. /\ Sound(d, store') /\ KeepsObjects(store, store') /\ id = store.next
       /\ store'.next = store.next + 1 /\ store.next \in Nat /\ store'.next \in Nat
       /\ Placed(d, store', id, at) /\ Held(d, store', id, at)
       /\ \A i : i # id => Same(d, store, store', i)
  BY <1>6, <1>8 DEF Begins, Sound, Shaped
<1>10. \A i \in DOMAIN ups : i # id /\ Kept(d, store', i, ups'[i])
  <2> TAKE i \in DOMAIN ups
  <2>1. i # id
    <3>1. i \in Nat /\ i < store.next
      BY <1>8 DEF Kept
    <3> QED BY <1>9, <3>1
  <2>2. Same(d, store, store', i) /\ Kept(d, store, i, ups[i]) /\ ups'[i] = ups[i]
    BY <1>7, <1>8, <1>9, <2>1
  <2>3. store.next <= store'.next
    BY <1>9
  <2>4. Kept(d, store', i, ups[i])
    BY <1>9, <2>2, <2>3, OtherKept
  <2> QED BY <2>1, <2>2, <2>4
<1>11. Kept(d, store', id, u)
  <2>1. id \in Nat /\ 0 < id /\ id < store'.next
    BY <1>8, <1>9
  <2> QED BY <1>3, <1>9, <2>1 DEF Kept
<1>12. Same(d, store, store', 0) /\ store.next <= store'.next
  BY <1>8, <1>9
<1>13. \A i \in DOMAIN ups' : Kept(d, store', i, ups'[i])
  BY <1>7, <1>10, <1>11
<1>14. \A i \in DOMAIN ups : /\ Onward(ups[i], ups'[i])
                             /\ Reaches(d, store', i, At(i)) => Reaches(d, store, i, At(i))
  BY <1>7, <1>9, <1>10 DEF Onward, Same
<1>15. DOMAIN calls' = Callers
  BY <1>2 DEF UploadsInv
<1> QED BY <1>2, <1>7, <1>9, <1>12, <1>13, <1>14, <1>15, StepInv DEF d

\* A step that sends a part, or begins to, leaves the uploads as they are.
LEMMA PartInv ==
  ASSUME UploadsInv, Continues(c.drv, store, store'), c' = c, ups' = ups,
         DOMAIN calls' = Callers,
         \A p \in Callers : \/ calls'[p] \in {calls[p], Idle}
                            \/ calls'[p].id \in DOMAIN ups /\ calls'[p].op = "part",
         \A call \in late' : call \in late
                               \/ (call.id \in DOMAIN ups /\ call.op = "part" /\ c.drv # "gcs")
  PROVE  UploadsInv'
<1> DEFINE d == c.drv
<1>1. Sound(d, store) /\ \A i \in DOMAIN ups : Kept(d, store, i, ups[i])
  BY DEF UploadsInv
<1>2. /\ Sound(d, store') /\ store'.buckets = store.buckets /\ store'.objs = store.objs
      /\ store'.next = store.next /\ \A i : Same(d, store, store', i)
  BY DEF Continues
<1> HIDE DEF d
<1>3. KeepsObjects(store, store') /\ store.next \in Nat /\ store'.next \in Nat
      /\ store.next <= store'.next
  BY <1>1, <1>2 DEF KeepsObjects, Has, Sound, Shaped
<1>4. \A i \in DOMAIN ups' : Kept(d, store', i, ups'[i])
  BY <1>1, <1>2, <1>3, OtherKept
<1>5. \A i \in DOMAIN ups : /\ Onward(ups[i], ups'[i])
                            /\ Reaches(d, store', i, At(i)) => Reaches(d, store, i, At(i))
  BY <1>2 DEF Same, Onward
<1>6. \A call : call.id \in DOMAIN ups /\ call.op = "part" => InFlight(d, store', ups', call)
  BY DEF InFlight
<1> QED BY <1>2, <1>3, <1>4, <1>5, <1>6, StepInv DEF d

LEMMA PartBeginInv ==
  ASSUME UploadsInv, NEW p \in Callers, NEW id \in DOMAIN ups, NEW pn, NEW cut,
         PartBegin(p, id, pn, cut)
  PROVE  UploadsInv'
<1> DEFINE call == [Idle EXCEPT !.op = "part", !.id = id, !.pn = pn, !.cut = cut]
<1>1. /\ c' = c /\ store' = store /\ ups' = ups /\ late' = late
      /\ calls' = [calls EXCEPT ![p] = call]
  BY DEF PartBegin, Begin
<1>2. call.id = id /\ call.op = "part"
  BY DEF Idle
<1> HIDE DEF call
<1>3. /\ DOMAIN calls' = Callers
      /\ \A q \in Callers : \/ calls'[q] \in {calls[q], Idle}
                            \/ calls'[q].id \in DOMAIN ups /\ calls'[q].op = "part"
  BY <1>1, <1>2 DEF UploadsInv
<1>4. Continues(c.drv, store, store')
  BY <1>1, NothingDone DEF UploadsInv
<1> QED BY <1>1, <1>3, <1>4, PartInv

\* What sending a part comes to.
LEMMA PartContinues ==
  ASSUME UploadsInv, NEW call, call.id \in DOMAIN ups,
         NEW o \in UploadPartRest(c, store, PartRequest(call))
  PROVE  Continues(c.drv, store, o.store)
<1> DEFINE r == PartRequest(call)
           id == call.id
<1>1. id \in DOMAIN ups /\ r.bucket = Bucket /\ r.key = ups[id].key /\ r.id = id
  BY RequestsName
<1>2. o \in UploadPartRest(c, store, r)
  OBVIOUS
<1> HIDE DEF r, id
<1>3. UploadCalls(c.drv, store, <<Bucket, r.key>>, id,
           InitiateUpload(c, store, r), UploadPartRest(c, store, r),
           CompleteUploadRest(c, store, r), AbortUploadRest(c, store, r))
  BY <1>1, CallsOf
<1> QED BY <1>2, <1>3 DEF UploadCalls

\* A call in the middle of which a caller is.
LEMMA UnderWay ==
  ASSUME UploadsInv, NEW p \in Callers, calls[p].op # "none"
  PROVE  InFlight(c.drv, store, ups, calls[p])
BY DEF UploadsInv, Idle

LEMMA EndsCall ==
  ASSUME UploadsInv, NEW p \in Callers, End(p)
  PROVE  DOMAIN calls' = Callers /\ \A q \in Callers : calls'[q] \in {calls[q], Idle}
BY DEF UploadsInv, End

LEMMA PartEndInv ==
  ASSUME UploadsInv, NEW p \in Callers, PartEnd(p)
  PROVE  UploadsInv'
<1>1. calls[p].op = "part" /\ c' = c /\ ups' = ups /\ End(p)
  BY DEF PartEnd
<1>2. PICK o \in UploadPartRest(c, store, PartRequest(calls[p])) :
        store' = o.store /\ LeaveBehind(calls[p], o)
  BY DEF PartEnd
<1>3. calls[p].id \in DOMAIN ups
  BY <1>1, UnderWay DEF InFlight
<1>4. Continues(c.drv, store, store')
  BY <1>2, <1>3, PartContinues
<1>5. \A call \in late' : call \in late
                            \/ (call.id \in DOMAIN ups /\ call.op = "part" /\ c.drv # "gcs")
  BY <1>1, <1>2, <1>3 DEF LeaveBehind
<1> QED BY <1>1, <1>4, <1>5, EndsCall, PartInv

\* Of the upload id the callers know v from now on.
Learns(id, v) == /\ DOMAIN ups' = DOMAIN ups /\ ups'[id] = v
                 /\ \A i \in DOMAIN ups : i # id => ups'[i] = ups[i]

\* A step of a Complete or an Abort leaves the other uploads as they are.
LEMMA EndInv ==
  ASSUME UploadsInv, NEW id \in DOMAIN ups, Ends(c.drv, store, store', id, At(id)),
         NEW v, Onward(ups[id], v), Kept(c.drv, store', id, v),
         c' = c, Learns(id, v), DOMAIN calls' = Callers,
         \A p \in Callers : \/ calls'[p] \in {calls[p], Idle}
                            \/ InFlight(c.drv, store', ups', calls'[p]),
         \A call \in late' : \/ call \in late
                             \/ /\ InFlight(c.drv, store', ups', call)
                                /\ call.op \in {"part", "complete"} /\ c.drv # "gcs"
  PROVE  UploadsInv'
<1> DEFINE d == c.drv
<1>1. Sound(d, store) /\ \A i \in DOMAIN ups : Kept(d, store, i, ups[i])
  BY DEF UploadsInv
<1>2. /\ Sound(d, store') /\ KeepsObjects(store, store')
      /\ store'.next = store.next /\ \A i : i # id => Same(d, store, store', i)
      /\ Reaches(d, store', id, At(id)) => Reaches(d, store, id, At(id))
  BY DEF Ends
<1>3. Kept(d, store', id, v) /\ 0 < id /\ id \in Nat
  BY DEF Kept
<1> HIDE DEF d
<1>4. store.next \in Nat /\ store'.next \in Nat /\ store.next <= store'.next
  BY <1>1, <1>2 DEF Sound, Shaped
<1>5. DOMAIN ups' = DOMAIN ups /\ ups'[id] = v /\ \A i \in DOMAIN ups : i # id => ups'[i] = ups[i]
  BY DEF Learns
<1>6. \A i \in DOMAIN ups : i # id => Kept(d, store', i, ups[i])
  BY <1>1, <1>2, <1>4, OtherKept
<1>7. \A i \in DOMAIN ups' : Kept(d, store', i, ups'[i])
  BY <1>3, <1>5, <1>6
<1>8. Same(d, store, store', 0)
  BY <1>2, <1>3
<1>9. \A i \in DOMAIN ups : /\ Onward(ups[i], ups'[i])
                            /\ Reaches(d, store', i, At(i)) => Reaches(d, store, i, At(i))
  BY <1>2, <1>5 DEF Onward, Same
<1> QED BY <1>2, <1>4, <1>5, <1>7, <1>8, <1>9, StepInv DEF d

\* What a Complete and an Abort that have their upload come to.
LEMMA CompleteDoes ==
  ASSUME UploadsInv, NEW call, call.id \in DOMAIN ups, NEW o \in Answers(call)
  PROVE  Completes(c.drv, store, call.id, At(call.id), o)
<1> DEFINE r == CompleteRequest(call)
           id == call.id
<1>1. /\ r.bucket = Bucket /\ r.key = ups[id].key /\ r.id = id /\ id \in DOMAIN ups
      /\ o \in CompleteUploadRest(c, store, r)
  BY RequestsName DEF Answers
<1> HIDE DEF r, id
<1>2. UploadCalls(c.drv, store, <<Bucket, r.key>>, id,
           InitiateUpload(c, store, r), UploadPartRest(c, store, r),
           CompleteUploadRest(c, store, r), AbortUploadRest(c, store, r))
  BY <1>1, CallsOf
<1> QED BY <1>1, <1>2 DEF UploadCalls, At, id

LEMMA AbortDoes ==
  ASSUME UploadsInv, NEW call, call.id \in DOMAIN ups,
         NEW o \in AbortUploadRest(c, store, AbortRequest(call))
  PROVE  Aborts(c.drv, store, call.id, At(call.id), o)
<1> DEFINE r == AbortRequest(call)
           id == call.id
<1>1. /\ r.bucket = Bucket /\ r.key = ups[id].key /\ r.id = id /\ id \in DOMAIN ups
      /\ o \in AbortUploadRest(c, store, r)
  BY RequestsName
<1> HIDE DEF r, id
<1>2. UploadCalls(c.drv, store, <<Bucket, r.key>>, id,
           InitiateUpload(c, store, r), UploadPartRest(c, store, r),
           CompleteUploadRest(c, store, r), AbortUploadRest(c, store, r))
  BY <1>1, CallsOf
<1> QED BY <1>1, <1>2 DEF UploadCalls, At, id

\* What getting the upload comes to, and taking it.
LEMMA CompleteGets ==
  ASSUME UploadsInv, NEW call, call.id \in DOMAIN ups
  PROVE  LET id == call.id
             got == CompleteUploadGet(c, store, CompleteRequest(call))
         IN /\ got = {} /\ c.drv \notin Services => Reaches(c.drv, store, id, At(id))
            /\ Held(c.drv, store, id, At(id)) /\ call.parts # <<>> => got = {}
            /\ \A o \in got : o.code = "not_found" => ~Held(c.drv, store, id, At(id))
<1> DEFINE r == CompleteRequest(call)
           d == c.drv
           id == call.id
<1>1. r.bucket = Bucket /\ r.key = ups[id].key /\ r.id = id /\ r.parts = call.parts
  BY RequestsName
<1> HIDE DEF r
<1>2. /\ NamesView(c, r) /\ Placed(d, store, r.id, <<r.bucket, r.key>>) /\ d \in AllDrivers
      /\ d = c.drv /\ At(id) = <<r.bucket, r.key>>
  BY <1>1, Views DEF At
<1> HIDE DEF d, id
<1>3. LET at == <<r.bucket, r.key>>
          got == CompleteUploadGet(c, store, r)
      IN /\ got = {} /\ d \notin Services => Reaches(d, store, r.id, at)
         /\ Held(d, store, r.id, at) /\ r.parts # <<>> => got = {}
         /\ \A o \in got : o.code = "not_found" => ~Held(d, store, r.id, at)
  BY <1>2, ClientGets
<1> QED BY <1>1, <1>2, <1>3 DEF r, d, id

LEMMA AbortGets ==
  ASSUME UploadsInv, NEW call, call.id \in DOMAIN ups,
         AbortUploadGet(c, store, AbortRequest(call)) # {}
  PROVE  ~Reaches(c.drv, store, call.id, At(call.id))
<1> DEFINE r == AbortRequest(call)
           d == c.drv
           id == call.id
<1>1. /\ r.bucket = Bucket /\ r.key = ups[id].key /\ r.id = id
      /\ AbortUploadGet(c, store, r) # {}
  BY RequestsName
<1> HIDE DEF r
<1>2. /\ NamesView(c, r) /\ Placed(d, store, r.id, <<r.bucket, r.key>>) /\ d \in AllDrivers
      /\ d = c.drv /\ At(id) = <<r.bucket, r.key>>
  BY <1>1, Views DEF At
<1> HIDE DEF d, id
<1>3. ~Reaches(d, store, r.id, <<r.bucket, r.key>>)
  BY <1>1, <1>2, ClientGets
<1> QED BY <1>1, <1>2, <1>3 DEF d, id

LEMMA Taken ==
  ASSUME UploadsInv, NEW id \in DOMAIN ups, NEW r, r.id = id, NEW t, t = TakeUpload(c, store, r)
  PROVE  /\ Ends(c.drv, store, t, id, At(id))
         /\ c.drv # "gcs" => t = store
         /\ c.drv = "gcs" => ~Reaches(c.drv, t, id, At(id))
<1> DEFINE d == c.drv
<1>1. /\ d \in AllDrivers /\ Sound(d, store) /\ Placed(d, store, r.id, At(id)) /\ d = c.drv
  BY DEF UploadsInv, Kept, At
<1> HIDE DEF d
<1>2. /\ d # "gcs" => t = store
      /\ d = "gcs" => Ends(d, store, t, r.id, At(id)) /\ ~Reaches(d, t, r.id, At(id))
  BY <1>1, ClientTakes
<1>3. d # "gcs" => Ends(d, store, t, id, At(id))
  BY <1>1, <1>2, NothingDone
<1> QED BY <1>2, <1>3 DEF d

LEMMA CompleteBeginInv ==
  ASSUME UploadsInv, NEW p \in Callers, NEW id \in DOMAIN ups, CompleteBegin(p, id)
  PROVE  UploadsInv'
<1> DEFINE call == Completion(id)
           r == CompleteRequest(call)
           u == ups[id]
           v == [u EXCEPT !.state = IF @ = "open" THEN "asked" ELSE "again"]
<1>1. /\ c' = c /\ late' = late /\ calls' = [calls EXCEPT ![p] = call]
      /\ store' = TakeUpload(c, store, r) /\ Learns(id, v)
      /\ CompleteUploadGet(c, store, r) = {}
  BY DEF CompleteBegin, Begin, Learns
<1>2. call.op = "complete" /\ call.id = id /\ call.after = (u.abort = "done")
  BY DEF Completion, Idle
<1>3. Kept(c.drv, store, id, u)
  BY DEF UploadsInv
<1>4. /\ {"key", "state", "abort"} \subseteq DOMAIN v /\ v.key = u.key /\ v.abort = u.abort
      /\ v.state # "open"
  BY <1>3 DEF Kept
<1>5. /\ Ends(c.drv, store, store', id, At(id))
      /\ c.drv # "gcs" => store' = store
      /\ c.drv = "gcs" => ~Reaches(c.drv, store', id, At(id))
  <2>1. r.id = id
    BY <1>2, RequestsName
  <2> QED BY <1>1, <2>1, Taken
<1>6. u.abort = "done" => c.drv \in Services
  BY <1>1, <1>2, <1>3, CompleteGets DEF Kept, At
<1>7. At(id) = <<Bucket, u.key>>
  BY DEF At
<1> HIDE DEF call, r, u, v
<1>8. Kept(c.drv, store', id, v)
  BY <1>3, <1>4, <1>5, <1>7, CompletedKept
<1>9. InFlight(c.drv, store', ups', call)
  <2>1. ups'[id] = v /\ id \in DOMAIN ups'
    BY <1>1 DEF Learns
  <2> QED BY <1>2, <1>4, <1>5, <1>6, <1>7, <2>1 DEF InFlight
<1>10. Onward(ups[id], v)
  BY <1>4 DEF Onward, u
<1>11. /\ DOMAIN calls' = Callers
       /\ \A q \in Callers : calls'[q] \in {calls[q], Idle}
                               \/ InFlight(c.drv, store', ups', calls'[q])
  BY <1>1, <1>9 DEF UploadsInv
<1> QED BY <1>1, <1>5, <1>8, <1>10, <1>11, EndInv

LEMMA CompleteEndInv ==
  ASSUME UploadsInv, NEW p \in Callers, CompleteEnd(p)
  PROVE  UploadsInv'
<1> DEFINE call == calls[p]
           id == call.id
           u == ups[id]
<1>1. call.op = "complete" /\ c' = c /\ End(p)
  BY DEF CompleteEnd
<1>2. PICK o \in Answers(call) :
        /\ store' = o.store /\ LeaveBehind(call, o)
        /\ ups' = IF o.code = "ok" THEN [ups EXCEPT ![id].state = "done"] ELSE ups
  BY DEF CompleteEnd, Answers
<1>3. InFlight(c.drv, store, ups, call) /\ id \in DOMAIN ups /\ u.state # "open"
  BY <1>1, UnderWay DEF InFlight
<1>4. Completes(c.drv, store, id, At(id), o)
  BY <1>2, <1>3, CompleteDoes
<1>5. Kept(c.drv, store, id, u) /\ {"key", "state", "abort"} \subseteq DOMAIN u
  BY <1>3 DEF UploadsInv, Kept
<1> DEFINE w == [u EXCEPT !.state = "done"]
           v == IF o.code = "ok" THEN w ELSE u
<1>6. Learns(id, v)
  BY <1>2, <1>3 DEF Learns
<1>7. /\ {"key", "state", "abort"} \subseteq DOMAIN v /\ v.key = u.key /\ v.abort = u.abort
      /\ v.state # "open"
  BY <1>3, <1>5
<1>8. At(id) = <<Bucket, u.key>>
  BY DEF At
<1> HIDE DEF v, w
<1>9. Ends(c.drv, store, store', id, At(id))
  BY <1>2, <1>4 DEF Completes
<1>10. Onward(u, v)
  BY <1>7 DEF Onward
<1>11. Kept(c.drv, store', id, v)
  <2>1. c.drv # "gcs" /\ Held(c.drv, store, id, At(id)) =>
          Held(c.drv, store', id, At(id)) \/ Has(store', At(id))
    BY <1>2, <1>4 DEF Completes
  <2> HIDE DEF u, id
  <2> QED BY <1>5, <1>7, <1>8, <1>9, <2>1, CompletedKept
<1>12. InFlight(c.drv, store', ups', call)
  <2>1. ups'[id] = v /\ DOMAIN ups' = DOMAIN ups
    BY <1>3, <1>6 DEF Learns
  <2>2. Reaches(c.drv, store', id, At(id)) => Reaches(c.drv, store, id, At(id))
    BY <1>9 DEF Ends
  <2> QED BY <1>3, <1>8, <1>10, <2>1, <2>2, InFlightStays
<1>13. \A x \in late' : x \in late \/ (x = call /\ c.drv # "gcs")
  BY <1>2 DEF LeaveBehind
<1>14. DOMAIN calls' = Callers /\ \A q \in Callers : calls'[q] \in {calls[q], Idle}
  BY <1>1, EndsCall
<1> HIDE DEF call, id
<1> QED BY <1>1, <1>3, <1>6, <1>9, <1>10, <1>11, <1>12, <1>13, <1>14, EndInv DEF u

LEMMA AbortBeginInv ==
  ASSUME UploadsInv, NEW p \in Callers, NEW id \in DOMAIN ups, AbortBegin(p, id)
  PROVE  UploadsInv'
<1> DEFINE call == [Idle EXCEPT !.op = "abort", !.id = id]
           r == AbortRequest(call)
           u == ups[id]
           tried == [u EXCEPT !.abort = "tried"]
           done == [u EXCEPT !.abort = "done"]
<1>1. c' = c /\ late' = late /\ u.abort # "done"
  BY DEF AbortBegin
<1>2. call.op = "abort" /\ call.id = id
  BY DEF Idle
<1>3. Kept(c.drv, store, id, u) /\ {"key", "state", "abort"} \subseteq DOMAIN u
  BY DEF UploadsInv, Kept
<1>4. \A v \in {tried, done} :
        /\ {"key", "state", "abort"} \subseteq DOMAIN v /\ v.key = u.key /\ v.abort # "no"
        /\ Onward(u, v)
  BY <1>1, <1>3 DEF Onward
<1>5. tried.abort = "tried" /\ r.id = id /\ At(id) = <<Bucket, u.key>>
  BY <1>2, <1>3, RequestsName DEF At
<1>6. CASE AbortUploadGet(c, store, r) = {}
  <2>1. /\ store' = TakeUpload(c, store, r) /\ Learns(id, tried)
        /\ calls' = [calls EXCEPT ![p] = call]
    BY <1>6 DEF AbortBegin, Begin, Learns
  <2> HIDE DEF call, r, u, tried, done
  <2>2. /\ Ends(c.drv, store, store', id, At(id))
        /\ c.drv = "gcs" => ~Reaches(c.drv, store', id, At(id))
    BY <1>5, <2>1, Taken
  <2>3. Kept(c.drv, store', id, tried)
    BY <1>3, <1>4, <1>5, <2>2, AbortedKept
  <2>4. InFlight(c.drv, store', ups', call)
    <3>1. ups'[id] = tried /\ id \in DOMAIN ups'
      BY <2>1 DEF Learns
    <3> QED BY <1>2, <1>4, <1>5, <2>2, <3>1 DEF InFlight
  <2>5. /\ DOMAIN calls' = Callers
        /\ \A q \in Callers : calls'[q] \in {calls[q], Idle}
                                \/ InFlight(c.drv, store', ups', calls'[q])
    BY <2>1, <2>4 DEF UploadsInv
  <2> QED BY <1>1, <1>4, <2>1, <2>2, <2>3, <2>5, EndInv DEF u
<1>7. CASE AbortUploadGet(c, store, r) # {}
  <2>1. store' = store /\ Learns(id, done) /\ calls' = calls
    BY <1>7 DEF AbortBegin, Learns
  <2>2. ~Reaches(c.drv, store, id, At(id))
    BY <1>2, <1>7, AbortGets
  <2> HIDE DEF call, r, u, tried, done
  <2>3. Ends(c.drv, store, store', id, At(id))
    BY <1>3, <1>5, <2>1, NothingDone DEF UploadsInv, Kept
  <2>4. Kept(c.drv, store', id, done)
    BY <1>3, <1>4, <1>5, <2>1, <2>2, <2>3, AbortedKept
  <2>5. DOMAIN calls' = Callers
    BY <2>1 DEF UploadsInv
  <2> QED BY <1>1, <1>4, <2>1, <2>3, <2>4, <2>5, EndInv DEF u
<1> QED BY <1>6, <1>7

LEMMA AbortEndInv ==
  ASSUME UploadsInv, NEW p \in Callers, AbortEnd(p)
  PROVE  UploadsInv'
<1> DEFINE call == calls[p]
           id == call.id
           u == ups[id]
<1>1. call.op = "abort" /\ c' = c /\ late' = late /\ End(p)
  BY DEF AbortEnd
<1>2. PICK o \in AbortUploadRest(c, store, AbortRequest(call)) :
        /\ store' = o.store
        /\ ups' = IF o.code = "ok" THEN [ups EXCEPT ![id].abort = "done"] ELSE ups
  BY DEF AbortEnd
<1>3. /\ id \in DOMAIN ups /\ u.abort # "no"
      /\ c.drv = "gcs" => ~Reaches(c.drv, store, id, At(id))
  BY <1>1, UnderWay DEF InFlight, At
<1>4. Aborts(c.drv, store, id, At(id), o)
  BY <1>2, <1>3, AbortDoes
<1>5. Kept(c.drv, store, id, u) /\ {"key", "state", "abort"} \subseteq DOMAIN u
  BY <1>3 DEF UploadsInv, Kept
<1> DEFINE w == [u EXCEPT !.abort = "done"]
           v == IF o.code = "ok" THEN w ELSE u
<1>6. Learns(id, v)
  BY <1>2, <1>3 DEF Learns
<1>7. /\ {"key", "state", "abort"} \subseteq DOMAIN v /\ v.key = u.key /\ v.abort # "no"
      /\ v.state = u.state /\ v.abort \in {u.abort, "done"}
      /\ v.abort # u.abort => o.code = "ok"
  BY <1>3, <1>5
<1>8. At(id) = <<Bucket, u.key>>
  BY DEF At
<1> HIDE DEF v, w
<1>9. Ends(c.drv, store, store', id, At(id))
  BY <1>2, <1>4 DEF Aborts
<1>10. Onward(u, v)
  BY <1>7 DEF Onward
<1>11. v.abort = "done" => ~Reaches(c.drv, store', id, At(id))
  <2>1. u.abort = "done" => ~Reaches(c.drv, store, id, At(id))
    BY <1>5, <1>8 DEF Kept
  <2>2. Reaches(c.drv, store', id, At(id)) => Reaches(c.drv, store, id, At(id))
    BY <1>9 DEF Ends
  <2>3. o.code = "ok" => ~Reaches(c.drv, store', id, At(id))
    BY <1>2, <1>3, <1>4 DEF Aborts
  <2> QED BY <1>7, <2>1, <2>2, <2>3
<1>12. Kept(c.drv, store', id, v)
  <2> HIDE DEF u, id
  <2> QED BY <1>5, <1>7, <1>8, <1>9, <1>11, AbortedKept
<1>13. DOMAIN calls' = Callers /\ \A q \in Callers : calls'[q] \in {calls[q], Idle}
  BY <1>1, EndsCall
<1> HIDE DEF call, id
<1> QED BY <1>1, <1>3, <1>6, <1>9, <1>10, <1>12, <1>13, EndInv DEF u

\* A request that is carried out late changes the service as a call does.
LEMMA LateInv ==
  ASSUME UploadsInv, NEW call \in late, LateArrives(call)
  PROVE  UploadsInv'
<1> DEFINE d == c.drv
           id == call.id
           u == ups[id]
<1>1. /\ c' = c /\ ups' = ups /\ calls' = calls /\ late' = late \ {call}
  BY DEF LateArrives
<1>2. /\ InFlight(d, store, ups, call) /\ call.op \in {"part", "complete"} /\ d # "gcs"
      /\ Sound(d, store) /\ DOMAIN calls = Callers
  BY DEF UploadsInv
<1>3. id \in DOMAIN ups /\ (call.op = "complete" => u.state # "open")
  BY <1>2 DEF InFlight
<1>4. CASE call.op = "part"
  <2>1. PICK o \in UploadPartRest(c, store, PartRequest(call)) :
          store' = LateStore(store, o.store)
    BY <1>4 DEF LateArrives, LateStore
  <2>2. Continues(d, store, o.store)
    BY <1>3, PartContinues
  <2> HIDE DEF d, id
  <2>3. Sound(d, o.store)
    BY <2>2 DEF Continues
  <2>4. /\ Sound(d, store') /\ store'.buckets = o.store.buckets /\ store'.objs = o.store.objs
        /\ store'.next = o.store.next
        /\ \A i : Same(d, store, o.store, i) => Same(d, store, store', i)
    BY <1>2, <2>1, <2>3, LateRegistry
  <2>5. Continues(d, store, store')
    BY <2>2, <2>4 DEF Continues
  <2> QED BY <1>1, <1>2, <2>5, PartInv DEF d
<1>5. CASE call.op = "complete"
  <2>1. PICK o \in Answers(call) : store' = LateStore(store, o.store)
    BY <1>5 DEF LateArrives, LateStore, Answers
  <2>2. Completes(d, store, id, At(id), o)
    BY <1>3, CompleteDoes
  <2>3. Kept(d, store, id, u) /\ {"key", "state", "abort"} \subseteq DOMAIN u
        /\ At(id) = <<Bucket, u.key>> /\ Learns(id, u)
    BY <1>1, <1>3 DEF UploadsInv, Kept, At, Learns
  <2> DEFINE t == o.store
             at == At(id)
  <2>4. /\ Sound(d, t) /\ KeepsObjects(store, t) /\ t.next = store.next
        /\ \A i : i # id => Same(d, store, t, i)
        /\ Reaches(d, t, id, at) => Reaches(d, store, id, at)
        /\ Held(d, store, id, at) => Held(d, t, id, at) \/ Has(t, at)
    BY <1>2, <2>2 DEF Completes, Ends
  <2> HIDE DEF d, id, u, t, at
  <2>5. store' = LateStore(store, t)
    BY <2>1 DEF t
  <2>6. /\ Sound(d, store') /\ store'.buckets = t.buckets /\ store'.objs = t.objs
        /\ store'.next = t.next
        /\ \A i : Same(d, store, t, i) => Same(d, store, store', i)
        /\ Placed(d, store, id, at) => Placed(d, store', id, at)
        /\ Reaches(d, store', id, at) => Reaches(d, store, id, at)
        /\ Held(d, store, id, at) /\ Held(d, t, id, at) => Held(d, store', id, at)
    BY <1>2, <2>4, <2>5, LateRegistry
  <2>7. KeepsObjects(store, store') /\ (Has(t, at) => Has(store', at))
    BY <2>4, <2>6 DEF KeepsObjects, Has
  <2>8. Placed(d, store, id, at)
    BY <2>3 DEF Kept, at
  <2>9. Ends(d, store, store', id, at)
    BY <2>4, <2>6, <2>7, <2>8 DEF Ends
  <2>10. Held(d, store, id, at) => Held(d, store', id, at) \/ Has(store', at)
    BY <2>4, <2>6, <2>7
  <2>11. Kept(d, store', id, u)
    BY <1>2, <1>3, <1>5, <2>3, <2>9, <2>10, CompletedKept DEF at, u
  <2>12. Onward(u, u)
    BY DEF Onward
  <2> QED BY <1>1, <1>2, <1>3, <2>3, <2>9, <2>11, <2>12, EndInv DEF d, u, at
<1> QED BY <1>2, <1>4, <1>5

\* A step that changes nothing the invariant speaks of.
LEMMA StutterInv ==
  ASSUME UploadsInv, UNCHANGED vars
  PROVE  UploadsInv'
BY DEF UploadsInv, vars

\* The registry of the driver and the uploads of the service go together with
\* what the callers know of each upload: none is named before the service has
\* named it, an open one can be completed, one that was asked to be completed
\* can be or is published, and an aborted one is out of reach (client.go:127-149).
THEOREM SpecUploadsInv == Spec => []UploadsInv
<1>1. UploadsInv /\ [Next]_vars => UploadsInv'
  <2> SUFFICES ASSUME UploadsInv, [Next]_vars PROVE UploadsInv'
    OBVIOUS
  <2>1. ASSUME NEW k \in Keys, Initiate(k) PROVE UploadsInv'
    BY <2>1, InitiateInv
  <2>2. ASSUME NEW p \in Callers, NEW id \in DOMAIN ups, NEW pn \in PartNumbers,
               NEW cut \in BOOLEAN, PartBegin(p, id, pn, cut)
        PROVE  UploadsInv'
    BY <2>2, PartBeginInv
  <2>3. ASSUME NEW p \in Callers, PartEnd(p) PROVE UploadsInv'
    BY <2>3, PartEndInv
  <2>4. ASSUME NEW p \in Callers, NEW id \in DOMAIN ups, CompleteBegin(p, id)
        PROVE  UploadsInv'
    BY <2>4, CompleteBeginInv
  <2>5. ASSUME NEW p \in Callers, CompleteEnd(p) PROVE UploadsInv'
    BY <2>5, CompleteEndInv
  <2>6. ASSUME NEW p \in Callers, NEW id \in DOMAIN ups, AbortBegin(p, id) PROVE UploadsInv'
    BY <2>6, AbortBeginInv
  <2>7. ASSUME NEW p \in Callers, AbortEnd(p) PROVE UploadsInv'
    BY <2>7, AbortEndInv
  <2>8. ASSUME NEW call \in late, LateArrives(call) PROVE UploadsInv'
    BY <2>8, LateInv
  <2>9. CASE UNCHANGED vars
    BY <2>9, StutterInv
  <2> QED BY <2>1, <2>2, <2>3, <2>4, <2>5, <2>6, <2>7, <2>8, <2>9 DEF Next
<1> QED BY <1>1, InitInv, PTL DEF Spec

\* A Complete that began after an Abort was answered publishes nothing, with
\* every driver; with the drivers that ask the service, no Complete does once an
\* Abort was answered, be it under way already or come late.  For any number of
\* callers and uploads and whatever faults.
THEOREM SpecAbortIsFinal == Spec => []AbortIsFinal
<1>1. UploadsInv => AbortIsFinal
  <2> SUFFICES ASSUME UploadsInv, NEW call \in Completing \cup {x \in late : x.op = "complete"},
                      call.after \/ (c.drv \in Stateless /\ ups[call.id].abort = "done"),
                      NEW o \in Answers(call)
               PROVE  o.code # "ok" /\ o.store.objs = store.objs
    BY DEF AbortIsFinal
  <2>1. InFlight(c.drv, store, ups, call) /\ call.op = "complete"
    <3>1. CASE call \in Completing
      <4>1. PICK p \in Callers : call = calls[p] /\ calls[p].op = "complete"
        BY <3>1 DEF Completing
      <4> QED BY <4>1, UnderWay
    <3>2. CASE call \in late /\ call.op = "complete"
      BY <3>2 DEF UploadsInv
    <3> QED BY <3>1, <3>2
  <2>2. call.id \in DOMAIN ups /\ c.drv \in Services /\ ups[call.id].abort = "done"
    BY <2>1 DEF InFlight, UploadsInv, Stateless, AllDrivers, Services
  <2>3. ~Reaches(c.drv, store, call.id, At(call.id))
    BY <2>2 DEF UploadsInv, Kept, At
  <2>4. Completes(c.drv, store, call.id, At(call.id), o)
    BY <2>2, CompleteDoes
  <2> QED BY <2>2, <2>3, <2>4 DEF Completes
<1> QED BY <1>1, SpecUploadsInv, PTL

\* Unless somebody has called Abort, a Complete that answers "not found" means
\* that the object is there, for every driver but gcs: nothing takes an upload
\* away without publishing it, whether answers are lost or requests come late.
THEOREM SpecNotFoundMeansPublished == Spec => []NotFoundMeansPublished
<1>1. UploadsInv => NotFoundMeansPublished
  <2> SUFFICES ASSUME UploadsInv, NEW id \in DOMAIN ups, ups[id].abort = "no", c.drv # "gcs",
                      NEW o, o.code = "not_found",
                      \/ o \in CompleteUploadGet(c, store, CompleteRequest(Completion(id)))
                      \/ \E call \in Completing : call.id = id /\ o \in Answers(call)
               PROVE  Has(store, At(id))
    BY DEF NotFoundMeansPublished
  <2>1. Held(c.drv, store, id, At(id)) \/ Has(store, At(id))
    BY DEF UploadsInv, Kept, At
  <2>2. ~Held(c.drv, store, id, At(id))
    <3>1. CASE o \in CompleteUploadGet(c, store, CompleteRequest(Completion(id)))
      <4>1. Completion(id).id = id
        BY DEF Completion, Idle
      <4> QED BY <3>1, <4>1, CompleteGets
    <3>2. ASSUME NEW call \in Completing, call.id = id, o \in Answers(call)
          PROVE  ~Held(c.drv, store, id, At(id))
      BY <3>2, CompleteDoes DEF Completes
    <3> QED BY <3>1, <3>2
  <2> QED BY <2>1, <2>2
<1> QED BY <1>1, SpecUploadsInv, PTL

=============================================================================
