------------------------ MODULE TransferManager_proofs ------------------------
(* Upload and uploadMultipart, for any number of callers, parts, upload ids  *)
(* and any set of faults: types, no orphaned upload, runWorkers used as      *)
(* PartBatch states it; and, when all callers send the same body, true       *)
(* payloads and a whole object.                                              *)
EXTENDS TransferManager, TLAPS

\* The phases before Initiate has answered or the payload was read.
NoUpload == {"idle", "put", "load", "initiate"}

\* Where the local variables of a call stand in each phase.
CallInv(c) ==
  /\ pc[c] \in NoUpload => uploadID[c] = None /\ parts[c] = {}
  /\ pc[c] \notin NoUpload => uploadID[c] # None
  /\ pc[c] \in NoUpload \cup {"slice", "complete"} => acked[c] = {}
  /\ pc[c] \in NoUpload \cup {"slice", "collect"} => ~failed[c]
  /\ pc[c] \in {"collect", "complete"} => Missing(c) = {} \/ ctx[c] = "canceled"
  /\ pc[c] = "cleanup" => uploads[uploadID[c]].state # "open"

IInv == TypeOK /\ \A c \in Callers : CallInv(c)

\* The condition under which a payload may be resumed by anybody.
SameBody == \A b, d \in Bodies : b = d

USE BodyAssumption, NoneAssumption

LEMMA PlanInNumbers ==
  ASSUME NEW b \in Bodies
  PROVE  /\ Plan(b) \subseteq PartNumber
         /\ \A n \in PartNumber : PartOf(b, n) \in Part
BY DEF Plan, PartNumber, PartOf, Part

LEMMA InitInv == Init => IInv
BY DEF Init, IInv, TypeOK, CallInv, NoUpload, Phase, PayloadType, BatchPhase,
   AfterParts, AfterError

LEMMA LeaveTypes ==
  ASSUME TypeOK, NEW c \in Callers, Leave(c)
  PROVE  /\ pc' \in [Callers -> Phase] /\ body' \in [Callers -> Bodies]
         /\ ctx' \in [Callers -> {"live", "canceled", "deadline"}]
         /\ uploadID' \in [Callers -> UploadIDs \cup {None}]
         /\ parts' \in [Callers -> SUBSET Part] /\ acked' \in [Callers -> SUBSET Part]
         /\ failed' \in [Callers -> BOOLEAN]
BY DEF Leave, Goto, TypeOK, Phase

UploadsType == [UploadIDs -> [state : {"unused", "open", "done", "aborted"},
                              held : SUBSET Part]]

\* What the requests of the service leave of it.
LEMMA ServiceTypes ==
  ASSUME TypeOK, NEW i \in UploadIDs
  PROVE  /\ Opens(i) => uploads' \in UploadsType
         /\ \A p \in Part : Stores(i, p) => uploads' \in UploadsType
         /\ AbortUpload(i) => uploads' \in UploadsType
<1>1. uploads[i].held \in SUBSET Part
  BY DEF TypeOK
<1>2. ASSUME NEW p \in Part, Stores(i, p) PROVE uploads' \in UploadsType
  <2>1. {q \in uploads[i].held : q.num # p.num} \cup {p} \in SUBSET Part
    BY <1>1
  <2> QED BY <1>2, <2>1 DEF TypeOK, UploadsType, Stores
<1>3. Opens(i) => uploads' \in UploadsType
  BY DEF TypeOK, UploadsType, Opens
<1>4. AbortUpload(i) => uploads' \in UploadsType
  BY DEF TypeOK, UploadsType, AbortUpload
<1> QED BY <1>2, <1>3, <1>4

LEMMA TypeStep == ASSUME IInv, [Next]_vars PROVE TypeOK'
<1> USE DEF IInv, TypeOK, Phase, BatchPhase, AfterParts, AfterError, PayloadType
<1>1. ASSUME NEW c \in Callers, NEW b \in Bodies, Begin(c, b) PROVE TypeOK'
  BY <1>1 DEF Begin, Goto, batchVars, service
<1>2. ASSUME NEW c \in Callers, Run(c) PROVE TypeOK'
  <2>1. CASE SinglePut(c)
    <3>1. body[c] \in Bodies
      OBVIOUS
    <3>2. Whole(body[c]) \subseteq Part
      BY <3>1, PlanInNumbers DEF Whole
    <3> QED BY <2>1, <3>2, LeaveTypes DEF SinglePut
  <2>2. CASE SinglePutFails(c)
    <3>1. Whole(body[c]) \subseteq Part
      BY PlanInNumbers DEF Whole
    <3> QED BY <2>2, <3>1, LeaveTypes DEF SinglePutFails
  <2>3. CASE LoadResume(c)
    BY <2>3 DEF LoadResume, Goto, service
  <2>4. CASE LoadNothing(c)
    BY <2>4 DEF LoadNothing, Goto, batchVars, service
  <2>5. CASE Initiate(c)
    BY <2>5 DEF Initiate, Goto, Opens, Free
  <2>6. CASE InitiateFails(c)
    <3>1. uploads' \in UploadsType
      BY <2>6, ServiceTypes DEF InitiateFails, Free, UploadsType
    <3> QED BY <2>6, <3>1, LeaveTypes DEF InitiateFails, UploadsType
  <2>7. CASE Slice(c)
    BY <2>7 DEF Slice, Goto, batchVars, service
  <2>8. CASE SliceFails(c)
    BY <2>8 DEF SliceFails, Goto, batchVars, service
  <2>9. ASSUME NEW n \in PartNumber, UploadPart(c, n) PROVE TypeOK'
    <3>1. uploadID[c] \in UploadIDs /\ PartOf(body[c], n) \in Part
      BY <2>9, PlanInNumbers DEF UploadPart, CallInv, NoUpload
    <3>2. uploads' \in UploadsType
      BY <2>9, <3>1, ServiceTypes DEF UploadPart
    <3> QED BY <2>9, <3>1, <3>2 DEF UploadPart, UploadsType
  <2>10. ASSUME NEW n \in PartNumber, UploadPartFails(c, n) PROVE TypeOK'
    BY <2>10, PlanInNumbers DEF UploadPartFails, Stores
  <2>11. CASE BatchPasses(c)
    BY <2>11 DEF BatchPasses, Goto, batchVars, service
  <2>12. CASE BatchFails(c)
    BY <2>12 DEF BatchFails, Goto, batchVars, service
  <2>13. CASE Collect(c)
    <3>1. uploadID[c] \in UploadIDs
      BY <2>13 DEF Collect, CallInv, NoUpload
    <3> QED BY <2>13, <3>1 DEF Collect, service
  <2>14. CASE CollectEnds(c)
    BY <2>14 DEF CollectEnds, Goto, batchVars, service
  <2>15. CASE Complete(c)
    BY <2>15 DEF Complete, Commit, Goto, batchVars
  <2>16. CASE CompleteFails(c)
    BY <2>16 DEF CompleteFails, Commit, Goto, batchVars
  <2>17. CASE AbortBatch(c)
    BY <2>17 DEF AbortBatch, AbortUpload, Goto, batchVars
  <2>18. CASE ForgetBatch(c)
    BY <2>18, LeaveTypes DEF ForgetBatch, DeleteState, service
  <2>19. CASE UndoComplete(c)
    <3>1. uploads' \in UploadsType
      BY <2>19, ServiceTypes DEF UndoComplete, CallInv, NoUpload
    <3> QED BY <2>19, <3>1, LeaveTypes DEF UndoComplete, UploadsType
  <2>20. CASE Cleanup(c)
    BY <2>20, LeaveTypes DEF Cleanup, DeleteState, service
  <2> QED
    BY <1>2, <2>1, <2>2, <2>3, <2>4, <2>5, <2>6, <2>7, <2>8, <2>9, <2>10, <2>11, <2>12,
       <2>13, <2>14, <2>15, <2>16, <2>17, <2>18, <2>19, <2>20 DEF Run
<1>3. ASSUME NEW c \in Callers, NEW why \in {"canceled", "deadline"}, CtxDone(c, why)
      PROVE TypeOK'
  BY <1>3 DEF CtxDone, batchVars, service
<1>4. ASSUME NEW c \in Callers, Crash(c) PROVE TypeOK'
  BY <1>4, LeaveTypes DEF Crash, service
<1>5. CASE Recover
  BY <1>5 DEF Recover, local
<1>6. CASE UNCHANGED vars
  BY <1>6 DEF vars, local
<1> QED BY <1>1, <1>2, <1>3, <1>4, <1>5, <1>6 DEF Next

\* One step of the call of c, its environment included.
CallStep(c) == \/ \E b \in Bodies : Begin(c, b)
               \/ Run(c)
               \/ \E why \in {"canceled", "deadline"} : CtxDone(c, why)
               \/ Crash(c)

\* The local variables of d.
Local(d) == <<pc[d], body[d], ctx[d], uploadID[d], parts[d], acked[d], failed[d]>>

LEMMA LeaveKeeps ==
  ASSUME TypeOK, NEW c \in Callers, NEW d \in Callers \ {c}, Leave(c)
  PROVE  Local(d)' = Local(d)
BY DEF Leave, Goto, TypeOK, Local

\* A step of one call leaves the others where they are.
LEMMA OthersKeep ==
  ASSUME TypeOK, NEW c \in Callers, NEW d \in Callers \ {c}, CallStep(c)
  PROVE  Local(d)' = Local(d)
<1> USE DEF TypeOK, Local
<1>1. ASSUME NEW b \in Bodies, Begin(c, b) PROVE Local(d)' = Local(d)
  BY <1>1 DEF Begin, Goto, batchVars
<1>2. CASE \/ SinglePut(c) \/ SinglePutFails(c) \/ InitiateFails(c) \/ ForgetBatch(c)
           \/ UndoComplete(c) \/ Cleanup(c) \/ Crash(c)
  BY <1>2, LeaveKeeps
     DEF SinglePut, SinglePutFails, InitiateFails, ForgetBatch, UndoComplete, Cleanup, Crash
<1>3. CASE LoadResume(c) \/ LoadNothing(c) \/ Initiate(c)
  BY <1>3 DEF LoadResume, LoadNothing, Initiate, Goto, batchVars
<1>4. CASE \/ Slice(c) \/ SliceFails(c) \/ BatchPasses(c) \/ BatchFails(c) \/ CollectEnds(c)
  BY <1>4 DEF Slice, SliceFails, BatchPasses, BatchFails, CollectEnds, Goto, batchVars
<1>5. CASE Complete(c) \/ CompleteFails(c) \/ AbortBatch(c)
  BY <1>5 DEF Complete, CompleteFails, AbortBatch, Goto, batchVars
<1>6. ASSUME NEW n \in PartNumber, UploadPart(c, n) \/ UploadPartFails(c, n)
      PROVE  Local(d)' = Local(d)
  BY <1>6 DEF UploadPart, UploadPartFails
<1>7. CASE Collect(c)
  BY <1>7 DEF Collect
<1>8. ASSUME NEW why \in {"canceled", "deadline"}, CtxDone(c, why) PROVE Local(d)' = Local(d)
  BY <1>8 DEF CtxDone, batchVars
<1> QED BY <1>1, <1>2, <1>3, <1>4, <1>5, <1>6, <1>7, <1>8 DEF CallStep, Run

\* An upload that somebody can name is not opened again.
LEMMA NamedStaysClosed ==
  ASSUME IInv, NEW c \in Callers, CallStep(c), NEW i \in Named \cap UploadIDs
  PROVE  uploads'[i].state = "open" => uploads[i].state = "open"
<1> USE DEF IInv, TypeOK
<1>1. CASE UNCHANGED uploads
  BY <1>1
<1>2. ASSUME NEW j \in Free, Opens(j)
      PROVE  uploads'[i].state = "open" => uploads[i].state = "open"
  BY <1>2 DEF Free, Opens
<1>3. ASSUME NEW j \in UploadIDs, NEW p, uploads[j].state = "open", Stores(j, p)
      PROVE  uploads'[i].state = "open" => uploads[i].state = "open"
  BY <1>3 DEF Stores
<1>4. CASE Commit(c)
  BY <1>4 DEF Commit, Acceptable
<1>5. CASE AbortUpload(uploadID[c])
  BY <1>5 DEF AbortUpload
<1>6. pc[c] = "batch" => uploadID[c] \in UploadIDs
  BY DEF CallInv, NoUpload
<1>7. CASE Initiate(c) \/ InitiateFails(c)
  BY <1>1, <1>2, <1>7 DEF Initiate, InitiateFails
<1>8. ASSUME NEW n \in PartNumber, UploadPart(c, n) \/ UploadPartFails(c, n)
      PROVE  uploads'[i].state = "open" => uploads[i].state = "open"
  BY <1>1, <1>3, <1>6, <1>8 DEF UploadPart, UploadPartFails
<1>9. CASE Complete(c) \/ CompleteFails(c) \/ AbortBatch(c) \/ UndoComplete(c)
  BY <1>1, <1>4, <1>5, <1>9 DEF Complete, CompleteFails, AbortBatch, UndoComplete
<1>10. ASSUME ~(Initiate(c) \/ InitiateFails(c)),
              ~\E n \in PartNumber : UploadPart(c, n) \/ UploadPartFails(c, n),
              ~(Complete(c) \/ CompleteFails(c) \/ AbortBatch(c) \/ UndoComplete(c))
       PROVE  UNCHANGED uploads
  BY <1>10 DEF CallStep, Run, Begin, SinglePut, SinglePutFails, LoadResume, LoadNothing,
       Slice, SliceFails, BatchPasses, BatchFails, Collect, CollectEnds, ForgetBatch,
       Cleanup, CtxDone, Crash, service
<1> QED BY <1>1, <1>7, <1>8, <1>9, <1>10

\* After Leave a caller is idle, with nothing in its hands.
LEMMA LeaveClears ==
  ASSUME TypeOK, NEW c \in Callers, Leave(c)
  PROVE  CallInv(c)'
BY DEF Leave, Goto, TypeOK, CallInv, NoUpload

LEMMA OwnStep ==
  ASSUME IInv, TypeOK', NEW c \in Callers, CallStep(c)
  PROVE  CallInv(c)'
<1> USE DEF IInv, TypeOK, CallInv, NoUpload
<1>1. ASSUME NEW b \in Bodies, Begin(c, b) PROVE CallInv(c)'
  BY <1>1 DEF Begin, Goto, batchVars
<1>2. CASE \/ SinglePut(c) \/ SinglePutFails(c) \/ InitiateFails(c) \/ ForgetBatch(c)
           \/ UndoComplete(c) \/ Cleanup(c) \/ Crash(c)
  BY <1>2, LeaveClears
     DEF SinglePut, SinglePutFails, InitiateFails, ForgetBatch, UndoComplete, Cleanup, Crash
<1>3. CASE LoadResume(c)
  BY <1>3 DEF LoadResume, Goto, PayloadType
<1>4. CASE LoadNothing(c)
  BY <1>4 DEF LoadNothing, Goto, batchVars
<1>5. CASE Initiate(c)
  BY <1>5 DEF Initiate, Goto, Free
<1>6. CASE Slice(c)
  BY <1>6 DEF Slice, Goto, batchVars, Missing
<1>7. CASE SliceFails(c) \/ BatchFails(c)
  BY <1>7 DEF SliceFails, BatchFails, Goto, batchVars
<1>8. ASSUME NEW n \in PartNumber, UploadPart(c, n) \/ UploadPartFails(c, n)
      PROVE  CallInv(c)'
  BY <1>8 DEF UploadPart, UploadPartFails
<1>9. CASE BatchPasses(c)
  BY <1>9 DEF BatchPasses, Goto, batchVars, Missing
<1>10. CASE Collect(c)
  <2>1. (parts[c] \cup acked[c])' = parts[c] \cup acked[c]
    BY <1>10 DEF Collect
  <2> QED BY <1>10, <2>1 DEF Collect, Missing
<1>11. CASE CollectEnds(c)
  BY <1>11 DEF CollectEnds, Goto, batchVars, Missing
<1>12. CASE Complete(c)
  BY <1>12 DEF Complete, Commit, Goto, batchVars
<1>13. CASE CompleteFails(c) \/ AbortBatch(c)
  BY <1>13 DEF CompleteFails, AbortBatch, Goto, batchVars
<1>14. ASSUME NEW why \in {"canceled", "deadline"}, CtxDone(c, why) PROVE CallInv(c)'
  BY <1>14 DEF CtxDone, batchVars, Missing, service
<1> QED BY <1>1, <1>2, <1>3, <1>4, <1>5, <1>6, <1>7, <1>8, <1>9, <1>10, <1>11, <1>12,
           <1>13, <1>14 DEF CallStep, Run

LEMMA OtherStep ==
  ASSUME IInv, TypeOK', NEW c \in Callers, CallStep(c), NEW d \in Callers \ {c}
  PROVE  CallInv(d)'
<1>1. Local(d)' = Local(d)
  BY OthersKeep DEF IInv
<1>2. pc[d] = "cleanup" => uploadID[d] \in Named \cap UploadIDs
  BY DEF IInv, TypeOK, CallInv, NoUpload, Named
<1>3. pc[d] = "cleanup" => uploads'[uploadID[d]].state # "open"
  BY <1>2, NamedStaysClosed DEF IInv, CallInv
<1> QED BY <1>1, <1>3 DEF Local, IInv, CallInv, Missing

LEMMA IInvStep == ASSUME IInv, [Next]_vars PROVE IInv'
<1>1. TypeOK'
  BY TypeStep
<1>2. ASSUME NEW c \in Callers, CallStep(c) PROVE IInv'
  BY <1>1, <1>2, OwnStep, OtherStep DEF IInv
<1>3. CASE Recover
  BY <1>1, <1>3 DEF Recover, local, IInv, CallInv, Missing
<1>4. CASE UNCHANGED vars
  BY <1>1, <1>4 DEF vars, local, IInv, CallInv, Missing
<1> QED BY <1>2, <1>3, <1>4 DEF Next, CallStep

\* The inductive invariant of uploadMultipart, whatever the faults.
THEOREM Invariance == Spec => []IInv
<1>1. IInv /\ [Next]_vars => IInv'
  BY IInvStep
<1> QED BY InitInv, <1>1, PTL DEF Spec

\* For any callers, bodies, identifiers and faults a call has an upload from
\* Initiate on, and the payload names parts and an upload.
THEOREM TypeCorrect == Spec => []TypeOK
<1>1. IInv => TypeOK
  BY DEF IInv
<1> QED BY <1>1, Invariance, PTL

-----------------------------------------------------------------------------
(* No orphan.                                                              *)

\* A call that leaves its upload has seen it closed, or its Abort fail.
LEMMA LeavesClosed ==
  ASSUME IInv, NEW c \in Callers, Run(c), pc[c] \notin {"idle", "forget"},
         pc'[c] \in {"forget", "idle"}, uploadID[c] # None
  PROVE  uploads'[uploadID[c]].state # "open" \/ "abort" \in faults
<1> USE DEF IInv, TypeOK, CallInv, NoUpload
<1>1. pc[c] \notin NoUpload /\ uploadID[c] \in UploadIDs
  OBVIOUS
<1>2. CASE AbortBatch(c) \/ UndoComplete(c)
  BY <1>1, <1>2 DEF AbortBatch, UndoComplete, AbortUpload
<1>3. CASE Cleanup(c)
  BY <1>1, <1>3 DEF Cleanup, service
<1>4. ASSUME NEW n \in PartNumber PROVE ~UploadPart(c, n) /\ ~UploadPartFails(c, n)
  BY DEF UploadPart, UploadPartFails
<1>5. ~(Slice(c) \/ SliceFails(c) \/ BatchPasses(c) \/ BatchFails(c))
  BY DEF Slice, SliceFails, BatchPasses, BatchFails, Goto
<1>6. ~(Collect(c) \/ CollectEnds(c) \/ Complete(c) \/ CompleteFails(c))
  BY DEF Collect, CollectEnds, Complete, CompleteFails, Goto
<1> QED
  BY <1>1, <1>2, <1>3, <1>4, <1>5, <1>6
     DEF Run, SinglePut, SinglePutFails, LoadResume, LoadNothing, Initiate, InitiateFails,
         ForgetBatch

\* Whatever fails, a call that returns leaves no open upload behind unless
\* the service refused its Abort: uploadMultipart on every path out of it.
THEOREM OrphanFree == Spec => NoOrphan
<1>1. IInv /\ [Next]_vars =>
        [\A c \in Callers :
          /\ uploadID[c] # None
          /\ pc[c] \notin {"idle", "forget"}
          /\ pc'[c] \in {"forget", "idle"}
          /\ Run(c)
          => uploads'[uploadID[c]].state # "open" \/ "abort" \in faults]_vars
  BY LeavesClosed
<1> QED BY <1>1, Invariance, PTL DEF Spec, NoOrphan

-----------------------------------------------------------------------------
(* The payload and the object, when every caller sends the same body.      *)

LEMMA OneWhole ==
  ASSUME SameBody, NEW b \in Bodies
  PROVE  /\ PartNumber = Plan(b) /\ Part = [num : Plan(b), tag : {b}]
         /\ \A p, q \in Part : p.num = q.num => p = q
<1>1. Bodies = {b}
  BY DEF SameBody
<1>2. PartNumber = Plan(b)
  BY <1>1 DEF PartNumber, Plan
<1>3. Part = [num : Plan(b), tag : {b}]
  BY <1>1, <1>2 DEF Part
<1> QED BY <1>2, <1>3

LEMMA AllNumbersWhole ==
  ASSUME SameBody, NEW b \in Bodies, NEW ps \in SUBSET Part, Plan(b) \subseteq NumbersOf(ps)
  PROVE  ps = Whole(b)
<1>1. \A p \in Part : p = PartOf(b, p.num) /\ p.num \in Plan(b)
  <2>1. Part = [num : Plan(b), tag : {b}]
    BY OneWhole
  <2> QED BY <2>1 DEF PartOf
<1>2. ps \subseteq Whole(b)
  BY <1>1 DEF Whole
<1>3. ASSUME NEW n \in Plan(b) PROVE PartOf(b, n) \in ps
  <2>1. PICK p \in ps : p.num = n
    BY DEF NumbersOf
  <2> QED BY <2>1, <1>1
<1> QED BY <1>2, <1>3 DEF Whole

\* The parts an upload holds only grow while it is open, as a part can only
\* be replaced by itself.
LEMMA HeldGrows ==
  ASSUME SameBody, IInv, NEW c \in Callers, CallStep(c), NEW i \in Named \cap UploadIDs,
         uploads'[i].state = "open"
  PROVE  uploads[i].state = "open" /\ uploads[i].held \subseteq uploads'[i].held
<1> USE DEF IInv, TypeOK
<1>0. uploads[i].state = "open" /\ uploads[i].held \subseteq Part
  BY NamedStaysClosed
<1>1. CASE UNCHANGED uploads
  BY <1>0, <1>1
<1>2. ASSUME NEW j \in Free, Opens(j) PROVE uploads[i].held \subseteq uploads'[i].held
  BY <1>0, <1>2 DEF Free, Opens
<1>3. ASSUME NEW j \in UploadIDs, NEW p \in Part, Stores(j, p)
      PROVE  uploads[i].held \subseteq uploads'[i].held
  <2>1. uploads[i].held \subseteq {q \in uploads[i].held : q.num # p.num} \cup {p}
    BY <1>0, OneWhole DEF Part
  <2> QED BY <1>3, <2>1 DEF Stores
<1>4. CASE Commit(c)
  BY <1>0, <1>4 DEF Commit, Acceptable
<1>5. CASE AbortUpload(uploadID[c])
  BY <1>0, <1>5 DEF AbortUpload
<1>6. \A n \in PartNumber : PartOf(body[c], n) \in Part
  BY PlanInNumbers
<1>7. CASE Initiate(c) \/ InitiateFails(c)
  BY <1>0, <1>1, <1>2, <1>7 DEF Initiate, InitiateFails
<1>8. ASSUME NEW n \in PartNumber, UploadPart(c, n) \/ UploadPartFails(c, n)
      PROVE  uploads[i].held \subseteq uploads'[i].held
  <2>1. uploadID[c] \in UploadIDs
    BY <1>8 DEF UploadPart, UploadPartFails, CallInv, NoUpload
  <2> QED BY <1>1, <1>3, <1>6, <1>8, <2>1 DEF UploadPart, UploadPartFails
<1>9. CASE Complete(c) \/ CompleteFails(c) \/ AbortBatch(c) \/ UndoComplete(c)
  BY <1>1, <1>4, <1>5, <1>9 DEF Complete, CompleteFails, AbortBatch, UndoComplete
<1>10. ASSUME ~(Initiate(c) \/ InitiateFails(c)),
              ~\E n \in PartNumber : UploadPart(c, n) \/ UploadPartFails(c, n),
              ~(Complete(c) \/ CompleteFails(c) \/ AbortBatch(c) \/ UndoComplete(c))
       PROVE  UNCHANGED uploads
  BY <1>10 DEF CallStep, Run, Begin, SinglePut, SinglePutFails, LoadResume, LoadNothing,
       Slice, SliceFails, BatchPasses, BatchFails, Collect, CollectEnds, ForgetBatch,
       Cleanup, CtxDone, Crash, service
<1> QED BY <1>0, <1>1, <1>7, <1>8, <1>9, <1>10

\* What a caller counts, and what the payload names.
CountedAt(c) ==
  uploadID[c] # None /\ uploads[uploadID[c]].state = "open"
    => parts[c] \cup acked[c] \subseteq uploads[uploadID[c]].held
SavedHeld ==
  store # None /\ uploads[store.id].state = "open"
    => store.parts \subseteq uploads[store.id].held

LEMMA CountedSplit == CountedIsHeld <=> (\A c \in Callers : CountedAt(c)) /\ SavedHeld
BY DEF CountedIsHeld, CountedAt, SavedHeld

LEMMA NamedIDs ==
  ASSUME IInv
  PROVE  /\ \A c \in Callers : uploadID[c] # None => uploadID[c] \in Named \cap UploadIDs
         /\ store # None => store.id \in Named \cap UploadIDs
BY DEF IInv, TypeOK, PayloadType, Named

LEMMA OthersCounted ==
  ASSUME SameBody, IInv, NEW c \in Callers, CallStep(c), NEW d \in Callers,
         CountedAt(d), uploadID'[d] = uploadID[d],
         parts'[d] \cup acked'[d] \subseteq parts[d] \cup acked[d]
  PROVE  CountedAt(d)'
BY HeldGrows, NamedIDs DEF CountedAt

LEMMA OwnCounted ==
  ASSUME SameBody, IInv, IInv', CountedIsHeld, NEW c \in Callers, CallStep(c)
  PROVE  CountedAt(c)'
<1> USE DEF IInv, TypeOK
<1>1. CASE uploadID'[c] = None
  BY <1>1 DEF CountedAt
<1>2. CASE LoadResume(c)
  BY <1>2, CountedSplit
     DEF LoadResume, CountedAt, SavedHeld, CallInv, NoUpload, service, PayloadType
<1>3. CASE Initiate(c)
  BY <1>3 DEF Initiate, Opens, CountedAt, CallInv, NoUpload, Free
<1>4. ASSUME NEW n \in PartNumber, UploadPart(c, n)
      PROVE  CountedAt(c)'
  <2>1. uploadID[c] \in Named \cap UploadIDs /\ uploadID'[c] = uploadID[c]
    BY <1>4, NamedIDs DEF UploadPart, CallInv, NoUpload
  <2>2. PartOf(body[c], n) \in uploads'[uploadID[c]].held
    BY <1>4, <2>1 DEF UploadPart, Stores
  <2>3. parts[c] \cup acked[c] \subseteq uploads[uploadID[c]].held
    BY <1>4, <2>1, CountedSplit DEF UploadPart, CountedAt
  <2>4. uploads'[uploadID[c]].state = "open"
    BY <1>4, <2>1 DEF UploadPart, Stores
  <2>5. uploads[uploadID[c]].held \subseteq uploads'[uploadID[c]].held
    BY <2>1, <2>4, HeldGrows
  <2> QED BY <1>4, <2>1, <2>2, <2>3, <2>5 DEF UploadPart, CountedAt
<1>5. CASE uploadID'[c] = uploadID[c] /\ parts'[c] \cup acked'[c] = parts[c] \cup acked[c]
  BY <1>5, OthersCounted, CountedSplit
<1>6. CASE \/ SinglePut(c) \/ SinglePutFails(c) \/ InitiateFails(c) \/ ForgetBatch(c)
           \/ UndoComplete(c) \/ Cleanup(c) \/ Crash(c)
  BY <1>1, <1>6 DEF SinglePut, SinglePutFails, InitiateFails, ForgetBatch, UndoComplete,
       Cleanup, Crash, Leave
<1>7. CASE Collect(c)
  BY <1>5, <1>7 DEF Collect
<1>8. ASSUME NEW n \in PartNumber, UploadPartFails(c, n) PROVE CountedAt(c)'
  BY <1>5, <1>8 DEF UploadPartFails
<1>9. CASE (\E b \in Bodies : Begin(c, b)) \/ LoadNothing(c) \/ Slice(c) \/ SliceFails(c)
           \/ BatchPasses(c) \/ BatchFails(c) \/ CollectEnds(c)
           \/ (\E why \in {"canceled", "deadline"} : CtxDone(c, why))
  BY <1>5, <1>9 DEF Begin, LoadNothing, Slice, SliceFails, BatchPasses, BatchFails,
       CollectEnds, CtxDone, batchVars
<1>10. CASE Complete(c) \/ CompleteFails(c) \/ AbortBatch(c)
  BY <1>5, <1>10 DEF Complete, CompleteFails, AbortBatch, batchVars
<1> QED BY <1>2, <1>3, <1>4, <1>6, <1>7, <1>8, <1>9, <1>10 DEF CallStep, Run

LEMMA SavedStep ==
  ASSUME SameBody, IInv, CountedIsHeld, NEW c \in Callers, CallStep(c), CountedAt(c)'
  PROVE  SavedHeld'
<1> USE DEF IInv, TypeOK
<1>1. CASE store' = store
  BY <1>1, HeldGrows, NamedIDs, CountedSplit DEF SavedHeld
<1>2. CASE store' = None
  BY <1>2 DEF SavedHeld
<1>3. CASE Collect(c)
  <2>1. CASE store' = [id |-> uploadID[c], parts |-> parts'[c]]
    BY <1>3, <2>1 DEF Collect, CountedAt, SavedHeld, CallInv, NoUpload
  <2> QED BY <1>1, <1>3, <2>1 DEF Collect
<1>4. CASE ForgetBatch(c) \/ Cleanup(c)
  BY <1>1, <1>2, <1>4 DEF ForgetBatch, Cleanup, DeleteState
<1>5. ASSUME ~(Collect(c) \/ ForgetBatch(c) \/ Cleanup(c)) PROVE store' = store
  BY <1>5 DEF CallStep, Run, Begin, SinglePut, SinglePutFails, LoadResume, LoadNothing,
       Initiate, InitiateFails, Slice, SliceFails, UploadPart, UploadPartFails, BatchPasses,
       BatchFails, CollectEnds, Complete, CompleteFails, AbortBatch, UndoComplete, CtxDone,
       Crash
<1> QED BY <1>1, <1>3, <1>4, <1>5

LEMMA CountedStep ==
  ASSUME SameBody, IInv, IInv', CountedIsHeld, [Next]_vars
  PROVE  CountedIsHeld'
<1>1. ASSUME NEW c \in Callers, CallStep(c) PROVE CountedIsHeld'
  <2>1. CountedAt(c)'
    BY <1>1, OwnCounted
  <2>2. ASSUME NEW d \in Callers \ {c} PROVE CountedAt(d)'
    BY <1>1, OthersKeep, OthersCounted, CountedSplit DEF Local, IInv
  <2>3. SavedHeld'
    BY <1>1, <2>1, SavedStep
  <2> QED BY <2>1, <2>2, <2>3 DEF CountedIsHeld, CountedAt, SavedHeld
<1>2. CASE Recover
  BY <1>2 DEF Recover, local, CountedIsHeld
<1>3. CASE UNCHANGED vars
  BY <1>3 DEF vars, local, CountedIsHeld
<1> QED BY <1>1, <1>2, <1>3 DEF Next, CallStep

\* When all callers send the same body, a part that a caller counts or the
\* payload names is in its upload for as long as that is open, whoever else
\* resumes, completes or aborts it: loadResume and the Save after each part.
THEOREM PayloadTrue == ASSUME SameBody PROVE Spec => []CountedIsHeld
<1>1. Init => CountedIsHeld
  BY DEF Init, CountedIsHeld
<1>2. IInv /\ IInv' /\ CountedIsHeld /\ [Next]_vars => CountedIsHeld'
  BY CountedStep
<1> QED BY <1>1, <1>2, Invariance, PTL DEF Spec

\* What one call may put under the key.
PutsWhole(c) == object' # object /\ Run(c) =>
                  /\ object' \subseteq Whole(body[c])
                  /\ ctx[c] # "canceled" => object' = Whole(body[c])

LEMMA PartsOfBody ==
  ASSUME SameBody, NEW b \in Bodies, NEW ps \in SUBSET Part
  PROVE  ps \subseteq Whole(b)
<1>1. Part = [num : Plan(b), tag : {b}]
  BY OneWhole
<1>2. \A p \in Part : p = PartOf(b, p.num) /\ p.num \in Plan(b)
  BY <1>1 DEF PartOf
<1> QED BY <1>2 DEF Whole

LEMMA WholeStep ==
  ASSUME SameBody, IInv, NEW c \in Callers
  PROVE  PutsWhole(c)
<1> USE DEF IInv, TypeOK
<1>1. CASE object' = object
  BY <1>1 DEF PutsWhole
<1>2. CASE object' = Whole(body[c])
  BY <1>2 DEF PutsWhole
<1>3. ASSUME pc[c] = "complete", Commit(c) PROVE PutsWhole(c)
  <2>1. parts[c] \in SUBSET Part /\ body[c] \in Bodies
    OBVIOUS
  <2>2. ctx[c] # "canceled" => Plan(body[c]) \subseteq NumbersOf(parts[c])
    BY <1>3 DEF CallInv, Missing
  <2>3. object' = parts[c]
    BY <1>3 DEF Commit
  <2> HIDE DEF IInv, TypeOK
  <2>4. object' \subseteq Whole(body[c])
    BY <2>1, <2>3, PartsOfBody
  <2>5. ctx[c] # "canceled" => object' = Whole(body[c])
    BY <2>1, <2>2, <2>3, AllNumbersWhole
  <2> QED BY <2>4, <2>5 DEF PutsWhole
<1>4. CASE SinglePut(c) \/ SinglePutFails(c)
  BY <1>1, <1>2, <1>4 DEF SinglePut, SinglePutFails
<1>5. CASE Complete(c) \/ CompleteFails(c)
  BY <1>1, <1>3, <1>5 DEF Complete, CompleteFails
<1>6. ASSUME Run(c), ~(SinglePut(c) \/ SinglePutFails(c) \/ Complete(c) \/ CompleteFails(c))
      PROVE  object' = object
  BY <1>6 DEF Run, LoadResume, LoadNothing, Initiate, InitiateFails, Slice, SliceFails,
       UploadPart, UploadPartFails, BatchPasses, BatchFails, Collect, CollectEnds,
       AbortBatch, ForgetBatch, UndoComplete, Cleanup, service
<1> QED BY <1>1, <1>4, <1>5, <1>6 DEF PutsWhole

\* When all callers send the same body, what a call puts under the key is that
\* body whole, whatever was resumed, lost or committed twice, unless its
\* context was cancelled, when it may be some of the parts.
THEOREM WholeObject == ASSUME SameBody PROVE Spec => WholeUnlessCanceled
<1>1. IInv => [\A c \in Callers : PutsWhole(c)]_vars
  BY WholeStep
<1>2. WholeUnlessCanceled <=> [][\A c \in Callers : PutsWhole(c)]_vars
  BY DEF WholeUnlessCanceled, PutsWhole
<1> QED BY <1>1, <1>2, Invariance, PTL DEF Spec

-----------------------------------------------------------------------------
(* runWorkers is used as PartBatch states it.                              *)

BatchStep(c) == UNCHANGED Batch(c)!vars \/ Batch(c)!Next

LEMMA BatchStarts ==
  ASSUME IInv, Init, NEW c \in Callers
  PROVE  Batch(c)!Init
BY PlanInNumbers DEF Init, IInv, TypeOK, Batch!Init, Batch!Fresh, Outcome, BatchPhase,
   AfterParts, AfterError

\* Between two calls of runWorkers a batch is as good as new.
LEMMA BatchIdle ==
  ASSUME IInv', NEW c \in Callers, pc'[c] \in NoUpload
  PROVE  BatchStep(c)
<1>1. Outcome(c)' = "idle" /\ ~failed'[c] /\ Plan(body[c])' \subseteq PartNumber
  BY PlanInNumbers
     DEF IInv, TypeOK, CallInv, NoUpload, Outcome, BatchPhase, AfterParts, AfterError
<1> QED BY <1>1 DEF BatchStep, Batch!Next, Batch!Renew, Batch!Fresh, IInv, TypeOK

\* A step that changes nothing the batch is about.
LEMMA BatchStutter ==
  ASSUME NEW c \in Callers, body'[c] = body[c], ctx'[c] = ctx[c], failed'[c] = failed[c],
         Outcome(c)' = Outcome(c), parts'[c] \cup acked'[c] = parts[c] \cup acked[c]
  PROVE  BatchStep(c)
BY DEF BatchStep, Batch!vars, Outcome

LEMMA OneMoreNumber ==
  ASSUME NEW ps, NEW p
  PROVE  NumbersOf(ps \cup {p}) = NumbersOf(ps) \cup {p.num}
BY DEF NumbersOf

LEMMA BatchSteps ==
  ASSUME IInv, IInv', NEW c \in Callers, CallStep(c)
  PROVE  BatchStep(c)
<1> USE DEF IInv, TypeOK
<1> DEFINE counted == NumbersOf(parts[c] \cup acked[c])
<1>1. counted \in SUBSET PartNumber /\ Plan(body[c]) \subseteq PartNumber
  BY PlanInNumbers DEF NumbersOf, Part
<1>2. CASE pc'[c] \in NoUpload
  BY <1>2, BatchIdle
<1>3. CASE LoadResume(c)
  BY <1>3 DEF LoadResume, Goto, BatchStep, Batch!vars, Outcome, BatchPhase, AfterParts,
       AfterError
<1>4. CASE Initiate(c)
  BY <1>4, BatchStutter DEF Initiate, Goto, Outcome, BatchPhase, AfterParts, AfterError
<1>5. CASE Slice(c)
  <2>1. Batch(c)!Begin(counted)
    BY <1>5 DEF Slice, Goto, batchVars, Batch!Begin, Outcome, BatchPhase, AfterParts,
         AfterError, Missing
  <2> QED BY <1>1, <2>1 DEF BatchStep, Batch!Next
<1>6. CASE SliceFails(c)
  <2>1. Batch(c)!Reject(counted)
    BY <1>6 DEF SliceFails, Goto, batchVars, Batch!Reject, Outcome, BatchPhase, AfterParts,
         AfterError
  <2> QED BY <1>1, <2>1 DEF BatchStep, Batch!Next
<1>7. ASSUME NEW n \in PartNumber, UploadPart(c, n) PROVE BatchStep(c)
  <2>1. (parts[c] \cup acked[c])' = parts[c] \cup acked[c] \cup {PartOf(body[c], n)}
    BY <1>7 DEF UploadPart
  <2>2. NumbersOf(parts[c] \cup acked[c])' = counted \cup {n}
    <3>1. NumbersOf(parts[c] \cup acked[c] \cup {PartOf(body[c], n)})
            = counted \cup {PartOf(body[c], n).num}
      BY OneMoreNumber
    <3>2. NumbersOf(parts[c] \cup acked[c])' = NumbersOf((parts[c] \cup acked[c])')
      BY DEF NumbersOf
    <3> QED BY <2>1, <3>1, <3>2 DEF PartOf
  <2>3. Batch(c)!Ack(n)
    BY <1>7, <2>2
       DEF UploadPart, Batch!Ack, Outcome, BatchPhase, AfterParts, AfterError, Missing
  <2> QED BY <2>3 DEF BatchStep, Batch!Next
<1>8. ASSUME NEW n \in PartNumber, UploadPartFails(c, n) PROVE BatchStep(c)
  <2>1. Batch(c)!Fail
    BY <1>8 DEF UploadPartFails, Batch!Fail, Outcome, BatchPhase
  <2> QED BY <2>1 DEF BatchStep, Batch!Next
<1>9. CASE BatchPasses(c)
  BY <1>9, BatchStutter DEF BatchPasses, Goto, batchVars, Outcome, BatchPhase
<1>10. CASE BatchFails(c)
  <2>1. Batch(c)!ReturnError
    BY <1>10 DEF BatchFails, Goto, batchVars, Batch!ReturnError, Outcome, BatchPhase,
         AfterParts, AfterError
  <2> QED BY <2>1 DEF BatchStep, Batch!Next
<1>11. CASE Collect(c)
  BY <1>11, BatchStutter DEF Collect, Outcome
<1>12. CASE CollectEnds(c)
  <2>1. Batch(c)!ReturnParts
    BY <1>12 DEF CollectEnds, Goto, batchVars, Batch!ReturnParts, Outcome, BatchPhase,
         AfterParts, AfterError, CallInv, Missing
  <2> QED BY <2>1 DEF BatchStep, Batch!Next
<1>13. CASE Complete(c) \/ CompleteFails(c)
  BY <1>13, BatchStutter
     DEF Complete, CompleteFails, Goto, batchVars, Outcome, BatchPhase, AfterParts
<1>14. CASE AbortBatch(c)
  BY <1>14, BatchStutter
     DEF AbortBatch, Goto, batchVars, Outcome, BatchPhase, AfterParts, AfterError
<1>15. ASSUME NEW why \in {"canceled", "deadline"}, CtxDone(c, why) PROVE BatchStep(c)
  <2>1. Batch(c)!Expire(why)
    BY <1>15 DEF CtxDone, batchVars, Batch!Expire, Outcome
  <2> QED BY <2>1 DEF BatchStep, Batch!Next
<1>16. CASE (\E b \in Bodies : Begin(c, b)) \/ LoadNothing(c)
  BY <1>2, <1>16 DEF Begin, LoadNothing, Goto, NoUpload
<1>17. CASE \/ SinglePut(c) \/ SinglePutFails(c) \/ InitiateFails(c) \/ ForgetBatch(c)
            \/ UndoComplete(c) \/ Cleanup(c) \/ Crash(c)
  BY <1>2, <1>17 DEF SinglePut, SinglePutFails, InitiateFails, ForgetBatch, UndoComplete,
       Cleanup, Crash, Leave, Goto, NoUpload
<1> QED BY <1>3, <1>4, <1>5, <1>6, <1>7, <1>8, <1>9, <1>10, <1>11, <1>12, <1>13, <1>14,
           <1>15, <1>16, <1>17 DEF CallStep, Run

\* Every call uses runWorkers within what PartBatch promises, which is what
\* WorkerPool implements: uploadMultipart from its slices to Complete.
THEOREM BatchUse == Spec => UsesBatch
<1>1. IInv /\ IInv' /\ [Next]_vars => [\A c \in Callers : BatchStep(c)]_vars
  <2> SUFFICES ASSUME IInv, IInv', Next, NEW d \in Callers PROVE BatchStep(d)
    OBVIOUS
  <2>1. ASSUME NEW c \in Callers, CallStep(c) PROVE BatchStep(d)
    <3>1. CASE d = c
      BY <2>1, <3>1, BatchSteps
    <3>2. CASE d # c
      BY <2>1, <3>2, OthersKeep, BatchStutter DEF Local, Outcome, IInv
    <3> QED BY <3>1, <3>2
  <2>2. CASE Recover
    BY <2>2, BatchStutter DEF Recover, local, Outcome
  <2> QED BY <2>1, <2>2 DEF Next, CallStep
<1>2. Init => \A c \in Callers : Batch(c)!Init
  BY InitInv, BatchStarts
<1>3. UsesBatch <=> /\ \A c \in Callers : Batch(c)!Init
                    /\ [][\A c \in Callers : BatchStep(c)]_vars
  BY DEF UsesBatch, BatchStep
<1> QED BY <1>1, <1>2, <1>3, Invariance, PTL DEF Spec

=============================================================================
