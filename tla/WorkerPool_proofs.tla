-------------------------- MODULE WorkerPool_proofs --------------------------
(***************************************************************************)
(* Proofs about WorkerPool for every number of workers, every body and     *)
(* part size and every resume payload.                                     *)
(***************************************************************************)
EXTENDS WorkerPool, TLAPS, FiniteSetTheorems, SequenceTheorems,
        WellFoundedInduction

-----------------------------------------------------------------------------
(* Lemmas about the operators.                                             *)

\* A non-empty set of naturals has a least element, the one the dispatcher
\* sends next.
LEMMA LeastNat ==
    ASSUME NEW S \in SUBSET Nat, S # {}
    PROVE  \E m \in S : \A q \in S : m <= q
<1> DEFINE Below(m) == {q \in S : q <= m}
<1> DEFINE Segments == {Below(m) : m \in S}
<1>1. \A m \in S : Below(m) \in FiniteSubsetsOf(S)
    BY FS_BoundedSetOfNaturals DEF FiniteSubsetsOf
<1>2. PICK T \in Segments :
          \A U \in Segments : ~ (<<U, T>> \in StrictSubsetOrdering(S))
    <2>1. Segments \subseteq FiniteSubsetsOf(S) /\ Segments # {}
        BY <1>1
    <2> HIDE DEF Segments
    <2> QED BY <2>1, FS_StrictSubsetOrderingWellFounded, WFMin
<1>3. PICK m \in S : T = Below(m)
    BY <1>2
<1>4. ASSUME NEW q \in S PROVE m <= q
    <2>1. ~ (<<Below(q), Below(m)>> \in StrictSubsetOrdering(S))
        BY <1>2, <1>3
    <2>2. Below(q) \subseteq S /\ Below(m) \subseteq S
        OBVIOUS
    <2>3. ~ (Below(q) \subseteq Below(m) /\ Below(q) # Below(m))
        BY <2>1, <2>2 DEF StrictSubsetOrdering
    <2>4. SUFFICES ASSUME q < m PROVE FALSE
        BY <1>4, <1>3
    <2>5. m \in Nat /\ q \in Nat /\ \A k \in S : k \in Nat
        OBVIOUS
    <2>6. m \in Below(m) /\ m \notin Below(q)
        BY <2>4, <2>5
    <2>7. ASSUME NEW k \in Below(q) PROVE k \in Below(m)
        BY <2>4, <2>5, <2>7
    <2> QED BY <2>3, <2>6, <2>7
<1> QED BY <1>4

\* The part numbers of a plan are positive naturals.
LEMMA PlanNumbers == AllParts \subseteq Nat \ {0}
BY DEF AllParts, PartNumbers

\* The dispatcher's next part is one of those it has still to send.
LEMMA NextSpecInTodo ==
    ASSUME todo \subseteq AllParts, todo # {}
    PROVE  NextSpec \in todo
BY LeastNat, PlanNumbers DEF NextSpec

\* What appending to, and taking the head of, a channel does to its elements.
LEMMA AppendElements ==
    ASSUME NEW S, NEW seq \in Seq(S), NEW e \in S
    PROVE  /\ Append(seq, e) \in Seq(S)
           /\ Elements(Append(seq, e)) = Elements(seq) \cup {e}
<1>1. /\ Append(seq, e) \in Seq(S)
      /\ Len(Append(seq, e)) = Len(seq) + 1
      /\ \A i \in 1 .. Len(seq) : Append(seq, e)[i] = seq[i]
      /\ Append(seq, e)[Len(seq) + 1] = e
    BY AppendProperties
<1>2. DOMAIN seq = 1 .. Len(seq) /\ DOMAIN Append(seq, e) = 1 .. (Len(seq) + 1)
    BY <1>1, LenProperties
<1>3. Len(seq) \in Nat
    BY LenProperties
<1>4. ASSUME NEW i \in DOMAIN Append(seq, e)
      PROVE  Append(seq, e)[i] \in Elements(seq) \cup {e}
    BY <1>1, <1>2, <1>3 DEF Elements
<1>5. Elements(seq) \cup {e} \subseteq Elements(Append(seq, e))
    <2>1. ASSUME NEW i \in DOMAIN seq PROVE seq[i] \in Elements(Append(seq, e))
        <3>1. i \in DOMAIN Append(seq, e) /\ seq[i] = Append(seq, e)[i]
            BY <1>1, <1>2, <1>3
        <3> QED BY <3>1 DEF Elements
    <2>2. e \in Elements(Append(seq, e))
        BY <1>1, <1>2, <1>3 DEF Elements
    <2> QED BY <2>1, <2>2 DEF Elements
<1> QED BY <1>1, <1>4, <1>5, <1>3 DEF Elements

\* A channel holds its head and what is left when the head is taken.
LEMMA TailElements ==
    ASSUME NEW S, NEW seq \in Seq(S), seq # <<>>
    PROVE  /\ Tail(seq) \in Seq(S)
           /\ Head(seq) \in S
           /\ Head(seq) \in Elements(seq)
           /\ Elements(seq) = Elements(Tail(seq)) \cup {Head(seq)}
<1>1. Head(seq) = seq[1] /\ 1 \in DOMAIN seq /\ Tail(seq) \in Seq(S)
    OBVIOUS
<1>2. ASSUME NEW i \in DOMAIN seq PROVE seq[i] \in Elements(Tail(seq)) \cup {Head(seq)}
    <2>1. CASE i = 1 BY <2>1, <1>1
    <2>2. CASE i # 1
        <3>1. i - 1 \in DOMAIN Tail(seq) /\ Tail(seq)[i - 1] = seq[i]
            BY <2>2, <1>2
        <3> QED BY <3>1 DEF Elements
    <2> QED BY <2>1, <2>2
<1>3. ASSUME NEW i \in DOMAIN Tail(seq) PROVE Tail(seq)[i] \in Elements(seq)
    <2>1. i + 1 \in DOMAIN seq /\ Tail(seq)[i] = seq[i + 1] BY <1>3
    <2> QED BY <2>1 DEF Elements
<1> QED BY <1>1, <1>2, <1>3 DEF Elements

\* errCh is made with room for one error per worker, and there is a worker:
\* an offered error leaves it non-empty, with an older error still in front.
LEMMA ReportedError ==
    ASSUME errCh \in Seq(ErrCause), NEW cause \in ErrCause
    PROVE  /\ Report(cause) \in Seq(ErrCause)
           /\ Report(cause) # <<>>
           /\ errCh = <<>> => Head(Report(cause)) = cause
           /\ errCh # <<>> => Head(Report(cause)) = Head(errCh)
<1>1. MaxConcurrency \in Nat /\ MaxConcurrency # 0
    BY WorkersAssumption, FS_CardinalityType, FS_EmptySet DEF MaxConcurrency
<1>2. Append(errCh, cause) \in Seq(ErrCause) /\ Append(errCh, cause) # <<>>
    OBVIOUS
<1>3. errCh = <<>> => Len(errCh) < MaxConcurrency
    BY <1>1
<1>4. errCh = <<>> => Head(Append(errCh, cause)) = cause
    OBVIOUS
<1>5. errCh # <<>> => Head(Append(errCh, cause)) = Head(errCh)
    OBVIOUS
<1> QED BY <1>2, <1>3, <1>4, <1>5 DEF Report

-----------------------------------------------------------------------------
(* The inductive invariant.                                                *)

\* Type correctness is preserved.
LEMMA TypeStep ==
    ASSUME IInv, [Next]_vars
    PROVE  TypeOK'
<1> USE DEF IInv, TypeOK, CtxState, ErrCause, AnyPart, Busy, Broken, Specs, AllParts
<1>1. CASE SliceFails
    BY <1>1 DEF SliceFails, Return, Cancelled, ctxVars, workerVars, mainVars
<1>2. CASE NothingToDo
    BY <1>2 DEF NothingToDo, Return, Cancelled, ctxVars, workerVars, mainVars
<1>3. CASE StartWorkers
    BY <1>3 DEF StartWorkers, ctxVars, workerVars, mainVars
<1>4. ASSUME NEW why \in {"canceled", "deadline"}, ParentDone(why) PROVE TypeOK'
    BY <1>4 DEF ParentDone, ctxVars, workerVars, mainVars
<1>5. CASE DispatchStops
    BY <1>5 DEF DispatchStops, ctxVars, workerVars, mainVars
<1>6. CASE DispatchEnds
    BY <1>6 DEF DispatchEnds, ctxVars, workerVars, mainVars
<1>7. ASSUME NEW w \in Workers, Dispatch(w) PROVE TypeOK'
    BY <1>7, NextSpecInTodo DEF Dispatch, ctxVars, workerVars, mainVars
<1>8. ASSUME NEW w \in Workers, ServiceStores(w) PROVE TypeOK'
    BY <1>8 DEF ServiceStores, PhaseInv, Held, ctxVars, workerVars, mainVars
<1>9. ASSUME NEW w \in Workers, UploadOk(w) PROVE TypeOK'
    BY <1>9 DEF UploadOk, PhaseInv, Held, ctxVars, workerVars, mainVars
<1>10. ASSUME NEW w \in Workers, NEW cause \in ErrCause, UploadFails(w, cause) PROVE TypeOK'
    BY <1>10, ReportedError DEF UploadFails, ctxVars, workerVars, mainVars
<1>11. ASSUME NEW w \in Workers, WorkerCancels(w) PROVE TypeOK'
    BY <1>11 DEF WorkerCancels, Cancelled, ctxVars, workerVars, mainVars
<1>12. ASSUME NEW w \in Workers, WorkerExits(w) PROVE TypeOK'
    BY <1>12 DEF WorkerExits, ctxVars, workerVars, mainVars
<1>13. CASE WaitFails
    BY <1>13, TailElements DEF WaitFails, Return, Cancelled, ctxVars, workerVars, mainVars
<1>14. CASE WaitPasses
    BY <1>14 DEF WaitPasses, ctxVars, workerVars, mainVars
<1>15. CASE Collect
    BY <1>15, TailElements, SizeAssumption DEF Collect, ctxVars, workerVars, mainVars
<1>16. CASE CollectEnds
    BY <1>16 DEF CollectEnds, Return, Cancelled, ctxVars, workerVars, mainVars
<1>17. CASE UNCHANGED vars
    BY <1>17 DEF vars
<1> QED BY <1>1, <1>2, <1>3, <1>4, <1>5, <1>6, <1>7, <1>8, <1>9, <1>10, <1>11, <1>12, <1>13, <1>14, <1>15, <1>16, <1>17 DEF Next, Dispatcher, Worker, Caller, Finished

\* So is the relation between the phases and the goroutines.
LEMMA PhaseStep ==
    ASSUME IInv, [Next]_vars
    PROVE  PhaseInv'
<1> USE DEF IInv, PhaseInv, TypeOK, AllGone, Gone, Busy, Broken, Held
<1>1. CASE SliceFails
    BY <1>1, TypeStep DEF SliceFails, Return, Cancelled, ctxVars, workerVars, mainVars
<1>2. CASE NothingToDo
    BY <1>2, TypeStep DEF NothingToDo, Return, Cancelled, ctxVars, workerVars, mainVars
<1>3. CASE StartWorkers
    BY <1>3, TypeStep DEF StartWorkers, ctxVars, workerVars, mainVars
<1>4. ASSUME NEW why \in {"canceled", "deadline"}, ParentDone(why) PROVE PhaseInv'
    BY <1>4, TypeStep DEF ParentDone, ctxVars, workerVars, mainVars
<1>5. CASE DispatchStops
    BY <1>5, TypeStep DEF DispatchStops, ctxVars, workerVars, mainVars
<1>6. CASE DispatchEnds
    BY <1>6, TypeStep DEF DispatchEnds, ctxVars, workerVars, mainVars
<1>7. ASSUME NEW w \in Workers, Dispatch(w) PROVE PhaseInv'
    BY <1>7, TypeStep, NextSpecInTodo, PlanNumbers DEF Dispatch, ctxVars, workerVars, mainVars
<1>8. ASSUME NEW w \in Workers, ServiceStores(w) PROVE PhaseInv'
    BY <1>8, TypeStep DEF ServiceStores, ctxVars, workerVars, mainVars
<1>9. ASSUME NEW w \in Workers, UploadOk(w) PROVE PhaseInv'
    BY <1>9, TypeStep DEF UploadOk, ctxVars, workerVars, mainVars
<1>10. ASSUME NEW w \in Workers, NEW cause \in ErrCause, UploadFails(w, cause) PROVE PhaseInv'
    BY <1>10, TypeStep, ReportedError DEF UploadFails, ctxVars, workerVars, mainVars
<1>11. ASSUME NEW w \in Workers, WorkerCancels(w) PROVE PhaseInv'
    BY <1>11, TypeStep DEF WorkerCancels, Cancelled, ctxVars, workerVars, mainVars
<1>12. ASSUME NEW w \in Workers, WorkerExits(w) PROVE PhaseInv'
    BY <1>12, TypeStep DEF WorkerExits, ctxVars, workerVars, mainVars
<1>13. CASE WaitFails
    BY <1>13, TailElements DEF WaitFails, Return, Cancelled, ErrCause, ctxVars, workerVars, mainVars
<1>14. CASE WaitPasses
    BY <1>14, WorkersAssumption DEF WaitPasses, ErrorInv, ctxVars, workerVars, mainVars
<1>15. CASE Collect
    BY <1>15, TypeStep DEF Collect, ctxVars, workerVars, mainVars
<1>16. CASE CollectEnds
    BY <1>16, TypeStep DEF CollectEnds, Return, Cancelled, ctxVars, workerVars, mainVars
<1>17. CASE UNCHANGED vars
    BY <1>17 DEF vars
<1> QED BY <1>1, <1>2, <1>3, <1>4, <1>5, <1>6, <1>7, <1>8, <1>9, <1>10, <1>11, <1>12, <1>13, <1>14, <1>15, <1>16, <1>17 DEF Next, Dispatcher, Worker, Caller, Finished

\* So is what errCh and workCtx say about the workers.
LEMMA ErrorStep ==
    ASSUME IInv, [Next]_vars
    PROVE  ErrorInv'
<1> USE DEF IInv, ErrorInv, PhaseInv, TypeOK, AllGone, Gone, Busy, Broken, RootCauseReported, ErrCause, CtxState
<1>1. CASE SliceFails
    BY <1>1 DEF SliceFails, Return, Cancelled, ctxVars, workerVars, mainVars
<1>2. CASE NothingToDo
    BY <1>2 DEF NothingToDo, Return, Cancelled, ctxVars, workerVars, mainVars
<1>3. CASE StartWorkers
    BY <1>3 DEF StartWorkers, ctxVars, workerVars, mainVars
<1>4. ASSUME NEW why \in {"canceled", "deadline"}, ParentDone(why) PROVE ErrorInv'
    BY <1>4 DEF ParentDone, ctxVars, workerVars, mainVars
<1>5. CASE DispatchStops
    BY <1>5 DEF DispatchStops, ctxVars, workerVars, mainVars
<1>6. CASE DispatchEnds
    BY <1>6 DEF DispatchEnds, ctxVars, workerVars, mainVars
<1>7. ASSUME NEW w \in Workers, Dispatch(w) PROVE ErrorInv'
    BY <1>7 DEF Dispatch, ctxVars, workerVars, mainVars
<1>8. ASSUME NEW w \in Workers, ServiceStores(w) PROVE ErrorInv'
    BY <1>8 DEF ServiceStores, ctxVars, workerVars, mainVars
<1>9. ASSUME NEW w \in Workers, UploadOk(w) PROVE ErrorInv'
    BY <1>9 DEF UploadOk, ctxVars, workerVars, mainVars
<1>10. ASSUME NEW w \in Workers, NEW cause \in ErrCause, UploadFails(w, cause) PROVE ErrorInv'
    BY <1>10, ReportedError DEF UploadFails, ctxVars, workerVars, mainVars
<1>11. ASSUME NEW w \in Workers, WorkerCancels(w) PROVE ErrorInv'
    BY <1>11 DEF WorkerCancels, Cancelled, ctxVars, workerVars, mainVars
<1>12. ASSUME NEW w \in Workers, WorkerExits(w) PROVE ErrorInv'
    BY <1>12 DEF WorkerExits, ctxVars, workerVars, mainVars
<1>13. CASE WaitFails
    BY <1>13, TailElements DEF WaitFails, Return, Cancelled, ctxVars, workerVars, mainVars
<1>14. CASE WaitPasses
    BY <1>14 DEF WaitPasses, ctxVars, workerVars, mainVars
<1>15. CASE Collect
    BY <1>15 DEF Collect, ctxVars, workerVars, mainVars
<1>16. CASE CollectEnds
    BY <1>16 DEF CollectEnds, Return, Cancelled, ctxVars, workerVars, mainVars
<1>17. CASE UNCHANGED vars
    BY <1>17 DEF vars
<1> QED BY <1>1, <1>2, <1>3, <1>4, <1>5, <1>6, <1>7, <1>8, <1>9, <1>10, <1>11, <1>12, <1>13, <1>14, <1>15, <1>16, <1>17 DEF Next, Dispatcher, Worker, Caller, Finished

\* So is the account of the parts of the plan.
LEMMA PlanStep ==
    ASSUME IInv, [Next]_vars
    PROVE  PlanInv'
<1> USE DEF IInv, PlanInv, TypeOK, PhaseInv, ErrorInv, Acked, HeldParts, Held, OkMeansAllParts, AllGone, Gone, Busy, Broken, CtxState
<1>1. CASE SliceFails
    BY <1>1 DEF SliceFails, Return, Cancelled, ctxVars, workerVars, mainVars
<1>2. CASE NothingToDo
    BY <1>2 DEF NothingToDo, Return, Cancelled, Specs, AllParts, ctxVars, workerVars, mainVars
<1>3. CASE StartWorkers
    BY <1>3, TypeStep DEF StartWorkers, Specs, AllParts, ctxVars, workerVars, mainVars
<1>4. ASSUME NEW why \in {"canceled", "deadline"}, ParentDone(why) PROVE PlanInv'
    BY <1>4 DEF ParentDone, ctxVars, workerVars, mainVars
<1>5. CASE DispatchStops
    BY <1>5 DEF DispatchStops, ctxVars, workerVars, mainVars
<1>6. CASE DispatchEnds
    BY <1>6 DEF DispatchEnds, ctxVars, workerVars, mainVars
<1>7. ASSUME NEW w \in Workers, Dispatch(w) PROVE PlanInv'
    BY <1>7, NextSpecInTodo DEF Dispatch, ctxVars, workerVars, mainVars
<1>8. ASSUME NEW w \in Workers, ServiceStores(w) PROVE PlanInv'
    BY <1>8 DEF ServiceStores, ctxVars, workerVars, mainVars
<1>9. ASSUME NEW w \in Workers, UploadOk(w) PROVE PlanInv'
    <2>1. Elements(resCh') = Elements(resCh) \cup {job[w]}
        <3>1. job[w] \in AllParts
            BY <1>9 DEF UploadOk
        <3> QED BY <1>9, <3>1, AppendElements DEF UploadOk
    <2>2. Acked' = Acked \cup {job[w]}
        BY <1>9, <2>1 DEF UploadOk, mainVars
    <2>3. HeldParts \subseteq HeldParts' \cup {job[w]}
        <3>1. \A v \in Workers : v # w => (Held(v))' = Held(v) /\ job'[v] = job[v]
            BY <1>9 DEF UploadOk
        <3> QED BY <3>1
    <2>4. UNCHANGED <<completed, todo, dispatcher, workCtx, parent, main, outcome, parts>>
        BY <1>9 DEF UploadOk, ctxVars, mainVars
    <2>5. main # "collecting"
        BY <1>9 DEF UploadOk
    <2> HIDE DEF Acked, HeldParts
    <2> QED BY <2>2, <2>3, <2>4, <2>5 DEF AllParts
<1>10. ASSUME NEW w \in Workers, NEW cause \in ErrCause, UploadFails(w, cause) PROVE PlanInv'
    BY <1>10 DEF UploadFails, ctxVars, workerVars, mainVars
<1>11. ASSUME NEW w \in Workers, WorkerCancels(w) PROVE PlanInv'
    BY <1>11 DEF WorkerCancels, Cancelled, ctxVars, workerVars, mainVars
<1>12. ASSUME NEW w \in Workers, WorkerExits(w) PROVE PlanInv'
    BY <1>12 DEF WorkerExits, ctxVars, workerVars, mainVars
<1>13. CASE WaitFails
    BY <1>13 DEF WaitFails, Return, Cancelled, ctxVars, workerVars, mainVars
<1>14. CASE WaitPasses
    <2>1. \A v \in Workers : ~Held(v)
        BY <1>14 DEF WaitPasses
    <2>2. HeldParts = {} /\ dispatcher = "closed"
        BY <1>14, <2>1, WorkersAssumption DEF WaitPasses
    <2>3. UNCHANGED <<Acked, HeldParts>>
        BY <1>14 DEF WaitPasses, workerVars, Elements
    <2> HIDE DEF Acked, HeldParts
    <2> QED
        BY <1>14, <2>2, <2>3 DEF WaitPasses, ctxVars
<1>15. CASE Collect
    <2>1. Elements(resCh) = Elements(resCh') \cup {Head(resCh)}
        BY <1>15, TailElements DEF Collect
    <2>2. Acked' = Acked
        BY <1>15, <2>1 DEF Collect
    <2>3. HeldParts' = HeldParts
        BY <1>15 DEF Collect, workerVars
    <2> HIDE DEF Acked, HeldParts
    <2> QED
        BY <1>15, <2>2, <2>3 DEF Collect, ctxVars
<1>16. CASE CollectEnds
    <2>1. Elements(resCh) = {}
        BY <1>16 DEF CollectEnds, Elements
    <2> QED
        BY <1>16, <2>1 DEF CollectEnds, Return, Cancelled, ctxVars, workerVars
<1>17. CASE UNCHANGED vars
    BY <1>17 DEF vars
<1> QED BY <1>1, <1>2, <1>3, <1>4, <1>5, <1>6, <1>7, <1>8, <1>9, <1>10, <1>11, <1>12, <1>13, <1>14, <1>15, <1>16, <1>17 DEF Next, Dispatcher, Worker, Caller, Finished

\* So is what the service holds.
LEMMA StoreStep ==
    ASSUME IInv, [Next]_vars
    PROVE  StoreInv'
<1> USE DEF IInv, StoreInv, TypeOK, PhaseInv, Acked, Busy, Broken, SnapshotIsStored, Elements
<1>1. CASE SliceFails
    BY <1>1 DEF SliceFails, Return, Cancelled, ctxVars, workerVars, mainVars
<1>2. CASE NothingToDo
    BY <1>2 DEF NothingToDo, Return, Cancelled, ctxVars, workerVars, mainVars
<1>3. CASE StartWorkers
    BY <1>3 DEF StartWorkers, ctxVars, workerVars, mainVars
<1>4. ASSUME NEW why \in {"canceled", "deadline"}, ParentDone(why) PROVE StoreInv'
    BY <1>4 DEF ParentDone, ctxVars, workerVars, mainVars
<1>5. CASE DispatchStops
    BY <1>5 DEF DispatchStops, ctxVars, workerVars, mainVars
<1>6. CASE DispatchEnds
    BY <1>6 DEF DispatchEnds, ctxVars, workerVars, mainVars
<1>7. ASSUME NEW w \in Workers, Dispatch(w) PROVE StoreInv'
    BY <1>7 DEF Dispatch, ctxVars, workerVars, mainVars
<1>8. ASSUME NEW w \in Workers, ServiceStores(w) PROVE StoreInv'
    BY <1>8 DEF ServiceStores, ctxVars, workerVars, mainVars
<1>9. ASSUME NEW w \in Workers, UploadOk(w) PROVE StoreInv'
    BY <1>9, AppendElements DEF UploadOk, ctxVars, workerVars, mainVars
<1>10. ASSUME NEW w \in Workers, NEW cause \in ErrCause, UploadFails(w, cause) PROVE StoreInv'
    BY <1>10 DEF UploadFails, ctxVars, workerVars, mainVars
<1>11. ASSUME NEW w \in Workers, WorkerCancels(w) PROVE StoreInv'
    BY <1>11 DEF WorkerCancels, Cancelled, ctxVars, workerVars, mainVars
<1>12. ASSUME NEW w \in Workers, WorkerExits(w) PROVE StoreInv'
    BY <1>12 DEF WorkerExits, ctxVars, workerVars, mainVars
<1>13. CASE WaitFails
    BY <1>13 DEF WaitFails, Return, Cancelled, ctxVars, workerVars, mainVars
<1>14. CASE WaitPasses
    BY <1>14 DEF WaitPasses, ctxVars, workerVars, mainVars
<1>15. CASE Collect
    BY <1>15, TailElements DEF Collect, ctxVars, workerVars, mainVars
<1>16. CASE CollectEnds
    BY <1>16 DEF CollectEnds, Return, Cancelled, ctxVars, workerVars, mainVars
<1>17. CASE UNCHANGED vars
    BY <1>17 DEF vars
<1> QED BY <1>1, <1>2, <1>3, <1>4, <1>5, <1>6, <1>7, <1>8, <1>9, <1>10, <1>11, <1>12, <1>13, <1>14, <1>15, <1>16, <1>17 DEF Next, Dispatcher, Worker, Caller, Finished

\* So is the rule that no part is uploaded twice.
LEMMA OnceStep ==
    ASSUME IInv, [Next]_vars
    PROVE  EachPartOnce'
<1> USE DEF IInv, EachPartOnce, TypeOK, PhaseInv, Acked, Busy, Broken, Held, Elements, Specs
<1>1. CASE SliceFails
    BY <1>1 DEF SliceFails, Return, Cancelled, ctxVars, workerVars, mainVars
<1>2. CASE NothingToDo
    BY <1>2 DEF NothingToDo, Return, Cancelled, ctxVars, workerVars, mainVars
<1>3. CASE StartWorkers
    BY <1>3 DEF StartWorkers, ctxVars, workerVars, mainVars
<1>4. ASSUME NEW why \in {"canceled", "deadline"}, ParentDone(why) PROVE EachPartOnce'
    BY <1>4 DEF ParentDone, ctxVars, workerVars, mainVars
<1>5. CASE DispatchStops
    BY <1>5 DEF DispatchStops, ctxVars, workerVars, mainVars
<1>6. CASE DispatchEnds
    BY <1>6 DEF DispatchEnds, ctxVars, workerVars, mainVars
<1>7. ASSUME NEW w \in Workers, Dispatch(w) PROVE EachPartOnce'
    BY <1>7, NextSpecInTodo DEF Dispatch, ctxVars, workerVars, mainVars
<1>8. ASSUME NEW w \in Workers, ServiceStores(w) PROVE EachPartOnce'
    BY <1>8 DEF ServiceStores, ctxVars, workerVars, mainVars
<1>9. ASSUME NEW w \in Workers, UploadOk(w) PROVE EachPartOnce'
    BY <1>9, AppendElements DEF UploadOk, ctxVars, workerVars, mainVars
<1>10. ASSUME NEW w \in Workers, NEW cause \in ErrCause, UploadFails(w, cause) PROVE EachPartOnce'
    BY <1>10 DEF UploadFails, ctxVars, workerVars, mainVars
<1>11. ASSUME NEW w \in Workers, WorkerCancels(w) PROVE EachPartOnce'
    BY <1>11 DEF WorkerCancels, Cancelled, ctxVars, workerVars, mainVars
<1>12. ASSUME NEW w \in Workers, WorkerExits(w) PROVE EachPartOnce'
    BY <1>12 DEF WorkerExits, ctxVars, workerVars, mainVars
<1>13. CASE WaitFails
    BY <1>13 DEF WaitFails, Return, Cancelled, ctxVars, workerVars, mainVars
<1>14. CASE WaitPasses
    BY <1>14 DEF WaitPasses, ctxVars, workerVars, mainVars
<1>15. CASE Collect
    BY <1>15, TailElements DEF Collect, ctxVars, workerVars, mainVars
<1>16. CASE CollectEnds
    BY <1>16 DEF CollectEnds, Return, Cancelled, ctxVars, workerVars, mainVars
<1>17. CASE UNCHANGED vars
    BY <1>17 DEF vars
<1> QED BY <1>1, <1>2, <1>3, <1>4, <1>5, <1>6, <1>7, <1>8, <1>9, <1>10, <1>11, <1>12, <1>13, <1>14, <1>15, <1>16, <1>17 DEF Next, Dispatcher, Worker, Caller, Finished

-----------------------------------------------------------------------------
(* The invariant and what follows from it.                                 *)

\* A call starts in a state of the inductive invariant.
LEMMA InitInv == Init => IInv
<1> SUFFICES ASSUME Init PROVE IInv
    OBVIOUS
<1> USE DEF Init, Busy, Broken, Gone, CtxState, ErrCause, AnyPart
<1>1. TypeOK
    BY DEF TypeOK
<1>2. Acked = completed /\ HeldParts = {}
    BY DEF Acked, HeldParts, Elements, Held
<1>3. PhaseInv /\ ErrorInv
    BY DEF PhaseInv, ErrorInv, RootCauseReported, Held
<1>4. PlanInv /\ StoreInv
    BY <1>2 DEF PlanInv, StoreInv, OkMeansAllParts, SnapshotIsStored
<1>5. EachPartOnce
    BY <1>2 DEF EachPartOnce, Held
<1> QED BY <1>1, <1>3, <1>4, <1>5 DEF IInv

\* Every step keeps the inductive invariant, and so does a stutter.
LEMMA StepInv == IInv /\ [Next]_vars => IInv'
BY TypeStep, PhaseStep, ErrorStep, PlanStep, StoreStep, OnceStep DEF IInv

\* Every reachable state of runWorkers satisfies the inductive invariant.
THEOREM Invariance == Spec => []IInv
BY InitInv, StepInv, PTL DEF Spec

\* The variables keep their types: in particular the channels carry part
\* numbers of the plan and error causes only.
THEOREM TypeCorrect == Spec => []TypeOK
<1>1. IInv => TypeOK
    BY DEF IInv
<1> QED BY <1>1, Invariance, PTL

\* A nil error comes with every part of the plan, unless the caller's context
\* was cancelled.
THEOREM OkComplete == Spec => []OkMeansAllParts
<1>1. IInv => OkMeansAllParts
    BY DEF IInv, PlanInv
<1> QED BY <1>1, Invariance, PTL

\* The reported error is the one that stopped the batch, not the echo of the
\* cancel() it caused.
THEOREM RootCause == Spec => []RootCauseReported
<1>1. IInv => RootCauseReported
    BY DEF IInv, ErrorInv
<1> QED BY <1>1, Invariance, PTL

\* An error of UploadPart always reaches the caller.
THEOREM NoErrorLost == Spec => []FailureReported
<1>1. IInv => FailureReported
    BY DEF IInv, ErrorInv, PhaseInv, TypeOK, FailureReported, ErrCause
<1> QED BY <1>1, Invariance, PTL

\* No part is uploaded twice.
THEOREM PartsOnce == Spec => []EachPartOnce
<1>1. IInv => EachPartOnce
    BY DEF IInv
<1> QED BY <1>1, Invariance, PTL

\* No UploadPart is running when runWorkers has returned.
THEOREM Quiescent == Spec => []QuiescentReturn
<1>1. IInv => QuiescentReturn
    BY DEF IInv, PhaseInv, QuiescentReturn, AllGone
<1> QED BY <1>1, Invariance, PTL

\* What the StateStore says is uploaded is uploaded.
THEOREM SnapshotTruthful == Spec => []SnapshotIsStored
<1>1. IInv => SnapshotIsStored
    BY DEF IInv, StoreInv
<1> QED BY <1>1, Invariance, PTL

-----------------------------------------------------------------------------
(* The pool implements the abstract batch.                                 *)

\* A call that has not begun is a fresh batch.
LEMMA InitBatch == Init => Batch!Init
BY DEF Init, Batch!Init, Batch!Fresh, AnyPart, BatchAcked, BatchFailed,
       BatchOutcome, Broken, CtxState

\* Steps of the goroutines that leave the acknowledged parts, the failures and
\* the phase of the caller alone are invisible in the batch.
LEMMA SilentStep ==
    ASSUME UNCHANGED <<Acked, BatchFailed, BatchOutcome, parent>>,
           main = "start" <=> main' = "start"
    PROVE  UNCHANGED Batch!vars
BY DEF Batch!vars, BatchAcked

\* Every step of the pool is a step of the batch, or changes nothing of it.
LEMMA StepBatch ==
    ASSUME IInv, [Next]_vars
    PROVE  [Batch!Next]_(Batch!vars)
<1> USE DEF IInv, TypeOK, PhaseInv, ctxVars, workerVars, mainVars, Return
<1>1. CASE SliceFails
    <2>1. Batch!Reject(completed)
        BY <1>1 DEF SliceFails, Batch!Reject, BatchAcked, BatchFailed,
                    BatchOutcome, Acked, Elements
    <2> QED BY <2>1 DEF Batch!Next, AnyPart
<1>2. CASE NothingToDo
    <2>1. Batch!Begin(completed)
        BY <1>2 DEF NothingToDo, Batch!Begin, BatchAcked, BatchFailed,
                    BatchOutcome, Acked, Elements, Specs, AllParts
    <2> QED BY <2>1 DEF Batch!Next, AnyPart
<1>3. CASE StartWorkers
    <2>1. Batch!Begin(completed)
        BY <1>3 DEF StartWorkers, Batch!Begin, BatchAcked, BatchFailed,
                    BatchOutcome, Acked, Elements, Specs, AllParts, Broken
    <2> QED BY <2>1 DEF Batch!Next, AnyPart
<1>4. ASSUME NEW why \in {"canceled", "deadline"}, ParentDone(why)
      PROVE  Batch!Next
    <2>1. Batch!Expire(why)
        BY <1>4 DEF ParentDone, Batch!Expire, BatchAcked, BatchFailed,
                    BatchOutcome, Acked, Elements
    <2> QED BY <2>1 DEF Batch!Next, AnyPart
<1>5. CASE Dispatcher
    BY <1>5, SilentStep DEF Dispatcher, DispatchStops, DispatchEnds, Acked,
                            Elements, BatchFailed, BatchOutcome
<1>6. ASSUME NEW w \in Workers, Dispatch(w) \/ WorkerExits(w)
      PROVE  UNCHANGED Batch!vars
    BY <1>6, SilentStep DEF Dispatch, WorkerExits, Acked, Elements,
                            BatchFailed, BatchOutcome, Broken
<1>7. ASSUME NEW w \in Workers, ServiceStores(w) \/ WorkerCancels(w)
      PROVE  UNCHANGED Batch!vars
    BY <1>7, SilentStep DEF ServiceStores, WorkerCancels, Acked, Elements,
                            BatchFailed, BatchOutcome, Broken
<1>8. ASSUME NEW w \in Workers, UploadOk(w)
      PROVE  Batch!Next
    <2>1. job[w] \in AllParts /\ job[w] \notin Acked
        BY <1>8 DEF UploadOk, EachPartOnce, Held, Busy
    <2>2. Acked' = Acked \cup {job[w]}
        BY <1>8, <2>1, AppendElements DEF UploadOk, Acked
    <2>3. main \notin {"start", "returned"} /\ main' = main
        BY <1>8 DEF UploadOk, AllGone, Gone
    <2>4. BatchFailed' = BatchFailed
        BY <1>8 DEF UploadOk, BatchFailed, Broken
    <2>5. Batch!Ack(job[w])
        BY <1>8, <2>1, <2>2, <2>3, <2>4 DEF UploadOk, Batch!Ack, BatchAcked, BatchOutcome
    <2> QED BY <2>1, <2>5 DEF Batch!Next, AnyPart
<1>9. ASSUME NEW w \in Workers, NEW cause \in ErrCause, UploadFails(w, cause)
      PROVE  Batch!Next
    <2>1. main \notin {"start", "returned"} /\ main' = main
        BY <1>9 DEF UploadFails, AllGone, Gone, Busy
    <2>2. BatchFailed' = TRUE
        BY <1>9 DEF UploadFails, BatchFailed, Broken
    <2>3. Acked' = Acked
        BY <1>9 DEF UploadFails, Acked, Elements
    <2>4. Batch!Fail
        BY <1>9, <2>1, <2>2, <2>3 DEF UploadFails, Batch!Fail, BatchAcked, BatchOutcome
    <2> QED BY <2>4 DEF Batch!Next
<1>10. CASE WaitFails
    <2>1. BatchFailed \/ parent = "deadline"
        BY <1>10 DEF WaitFails, ErrorInv, BatchFailed
    <2>2. outcome' \in ErrCause /\ main' = "returned"
        BY <1>10, TailElements DEF WaitFails, ErrCause
    <2>3. UNCHANGED <<Acked, BatchFailed, parent>>
        BY <1>10 DEF WaitFails, Acked, Elements, BatchFailed
    <2>4. Batch!ReturnError
        BY <1>10, <2>1, <2>2, <2>3 DEF WaitFails, Batch!ReturnError,
           BatchAcked, BatchOutcome, ErrCause
    <2> QED BY <2>4 DEF Batch!Next
<1>11. CASE WaitPasses
    BY <1>11, SilentStep DEF WaitPasses, Acked, Elements, BatchFailed, BatchOutcome
<1>12. CASE Collect
    <2>1. Acked' = Acked
        BY <1>12, TailElements DEF Collect, Acked
    <2> QED
        BY <1>12, <2>1, SilentStep DEF Collect, BatchFailed, BatchOutcome
<1>13. CASE CollectEnds
    <2>1. ~BatchFailed
        BY <1>13 DEF CollectEnds, ErrorInv, BatchFailed
    <2>2. AllParts \subseteq Acked \/ parent = "canceled"
        BY <1>13 DEF CollectEnds, PlanInv
    <2>3. UNCHANGED <<Acked, BatchFailed, parent>>
        BY <1>13 DEF CollectEnds, Acked, Elements, BatchFailed
    <2>4. Batch!ReturnParts
        BY <1>13, <2>1, <2>2, <2>3 DEF CollectEnds, Batch!ReturnParts,
           BatchAcked, BatchOutcome
    <2> QED BY <2>4 DEF Batch!Next
<1>14. CASE UNCHANGED vars
    BY <1>14, SilentStep DEF vars, Acked, Elements, BatchFailed, BatchOutcome
<1> QED
    BY <1>1, <1>2, <1>3, <1>4, <1>5, <1>6, <1>7, <1>8, <1>9, <1>10, <1>11,
       <1>12, <1>13, <1>14 DEF Next, Worker, Caller, Finished

\* runWorkers refines the abstract batch: seen through the mapping, each of
\* its steps is a step of the batch or changes nothing of it.
THEOREM Refinement == Spec => ImplementsBatch
BY InitBatch, StepBatch, Invariance, PTL DEF Spec, ImplementsBatch, Batch!Spec

=============================================================================
