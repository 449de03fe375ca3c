----------------------------- MODULE WorkerPool -----------------------------
(***************************************************************************)
(* One call of Manager.runWorkers (src/pkg/uos/transfer/manager.go): the   *)
(* dispatcher goroutine, MaxConcurrency worker goroutines, the unbuffered  *)
(* jobCh, the buffered resCh and errCh, workCtx with its cancel, wg.Wait   *)
(* and the loop that collects the results, reports progress and saves the  *)
(* resume payload.                                                         *)
(***************************************************************************)
EXTENDS PartPlan, Sequences, FiniteSets

CONSTANTS Workers,            \* the worker goroutines: MaxConcurrency of them
          Size,               \* req.Size
          PartSize,           \* cfg.PartSize
          PayloadParts        \* the part numbers a resume payload may name

ASSUME WorkersAssumption == IsFiniteSet(Workers) /\ Workers # {}
ASSUME SizeAssumption == Size \in Nat \ {0} /\ PartSize \in Nat \ {0}
ASSUME PayloadAssumption == PayloadParts \subseteq Nat \ {0}

AllParts == PartNumbers(Size, PartSize)
AnyPart == AllParts \cup PayloadParts
MaxConcurrency == Cardinality(Workers)
CtxState == {"live", "canceled", "deadline"}
ErrCause == {"service", "canceled", "deadline"}

VARIABLES
    parent,        \* the caller's ctx: ctx.Err() is nil, Canceled or DeadlineExceeded
    workCtx,       \* the same of workCtx, derived from parent by WithCancel
    completed,     \* parts of the resume payload
    todo,          \* specs the dispatcher has still to send
    dispatcher,    \* "off" | "sending" | "closed": jobCh is closed
    pc,            \* where each worker goroutine is
    job,           \* the part each worker holds (0: none yet)
    stored,        \* parts the service holds for this upload
    resCh,         \* buffered channel of uploaded parts
    errCh,         \* buffered channel of errors, by cause
    main,          \* "start" | "waiting" | "collecting" | "returned"
    parts,         \* the slice that is returned
    transferred,   \* bytes last reported to Progress
    saved,         \* parts of the payload the StateStore holds
    outcome        \* "none" | "ok" | the cause of the returned error

ctxVars == <<parent, workCtx>>
workerVars == <<pc, job, stored>>
mainVars == <<main, parts, transferred, saved, outcome>>
vars == <<parent, workCtx, completed, todo, dispatcher, pc, job, stored,
          resCh, errCh, main, parts, transferred, saved, outcome>>

Busy == {"put", "stored"}               \* inside mp.UploadPart
Broken == {"cancel", "failed"}          \* UploadPart returned an error
Gone == {"failed", "exited"}            \* deferred wg.Done() has run

Elements(seq) == {seq[i] : i \in DOMAIN seq}

-----------------------------------------------------------------------------
Init == /\ parent \in CtxState
        /\ workCtx = parent
        /\ completed \in SUBSET PayloadParts
        /\ stored = completed
        /\ saved = completed
        /\ todo = {}
        /\ dispatcher = "off"
        /\ pc = [w \in Workers |-> "off"]
        /\ job = [w \in Workers |-> 0]
        /\ resCh = <<>>
        /\ errCh = <<>>
        /\ main = "start"
        /\ parts = {}
        /\ transferred = 0
        /\ outcome = "none"

\* Leaving the function runs the deferred cancel().
Cancelled == IF workCtx = "live" THEN "canceled" ELSE workCtx

Return(result) == /\ main' = "returned"
                  /\ outcome' = result
                  /\ workCtx' = Cancelled

\* sliceParts fails: the body ends before req.Size bytes.
SliceFails == /\ main = "start"
              /\ Return("service")
              /\ UNCHANGED <<parent, completed, todo, dispatcher, workerVars,
                             resCh, errCh, parts, transferred, saved>>

\* Every part of the plan is in completed: nothing to dispatch.
NothingToDo == /\ main = "start"
               /\ Specs(Size, PartSize, completed) = {}
               /\ parts' = completed
               /\ Return("ok")
               /\ UNCHANGED <<parent, completed, todo, dispatcher, workerVars,
                              resCh, errCh, transferred, saved>>

\* The goroutines are started and the caller waits in wg.Wait().
StartWorkers == /\ main = "start"
                /\ Specs(Size, PartSize, completed) # {}
                /\ main' = "waiting"
                /\ todo' = Specs(Size, PartSize, completed)
                /\ parts' = completed
                /\ dispatcher' = "sending"
                /\ pc' = [w \in Workers |-> "idle"]
                /\ UNCHANGED <<ctxVars, completed, job, stored, resCh, errCh,
                               transferred, saved, outcome>>

\* The caller's context ends while runWorkers is active; workCtx follows it.
ParentDone(why) == /\ main # "returned"
                   /\ parent = "live"
                   /\ parent' = why
                   /\ workCtx' = IF workCtx = "live" THEN why ELSE workCtx
                   /\ UNCHANGED <<completed, todo, dispatcher, workerVars,
                                  resCh, errCh, mainVars>>

-----------------------------------------------------------------------------
(* The dispatcher goroutine.                                               *)

\* MUTANT: the zero-based index is sent as the part number.
NextIndex == (CHOOSE p \in todo : \A q \in todo : p <= q) - 1

NextSpec == CHOOSE p \in todo : \A q \in todo : p <= q

\* MUTANT: a spec that was sent is sent again.
DispatchTwice(w) == /\ dispatcher = "sending"
                    /\ todo # {}
                    /\ pc[w] = "idle"
                    /\ pc' = [pc EXCEPT ![w] = "put"]
                    /\ job' = [job EXCEPT ![w] = NextSpec]
                    /\ UNCHANGED <<ctxVars, completed, todo, dispatcher, stored, resCh,
                                   errCh, mainVars>>

\* case jobCh <- s: a rendezvous with a worker that waits in range jobCh.
\* select picks any ready case, so this may happen with workCtx done.
Dispatch(w) == /\ dispatcher = "sending"
               /\ todo # {}
               /\ pc[w] = "idle"
               /\ pc' = [pc EXCEPT ![w] = "put"]
               /\ job' = [job EXCEPT ![w] = NextSpec]
               /\ todo' = todo \ {NextSpec}
               /\ UNCHANGED <<ctxVars, completed, dispatcher, stored, resCh,
                              errCh, mainVars>>

\* case <-workCtx.Done(): return; the deferred close(jobCh) runs.
DispatchStops == /\ dispatcher = "sending"
                 /\ todo # {}
                 /\ workCtx # "live"
                 /\ dispatcher' = "closed"
                 /\ UNCHANGED <<ctxVars, completed, todo, workerVars, resCh,
                                errCh, mainVars>>

\* MUTANT: the channel is closed on the way out of the select only.
DispatchForgetsClose == /\ dispatcher = "sending"
                        /\ todo = {}
                        /\ workCtx # "live"
                        /\ dispatcher' = "closed"
                        /\ UNCHANGED <<ctxVars, completed, todo, workerVars, resCh,
                                       errCh, mainVars>>

DispatchEnds == /\ dispatcher = "sending"
                /\ todo = {}
                /\ dispatcher' = "closed"
                /\ UNCHANGED <<ctxVars, completed, todo, workerVars, resCh,
                               errCh, mainVars>>

-----------------------------------------------------------------------------
(* A worker goroutine.                                                     *)

\* The service stores the part; its answer is still under way.
ServiceStores(w) == /\ pc[w] = "put"
                    /\ pc' = [pc EXCEPT ![w] = "stored"]
                    /\ stored' = stored \cup {job[w]}
                    /\ UNCHANGED <<ctxVars, completed, todo, dispatcher, job,
                                   resCh, errCh, mainVars>>

\* make(chan UploadedPart, len(specs))
ResCap == Cardinality(Specs(Size, PartSize, completed))

\* MUTANT: the result is recorded before UploadPart has returned.
UploadOkEarly(w) == /\ pc[w] \in Busy
                    /\ Len(resCh) < ResCap
                    /\ resCh' = Append(resCh, job[w])
                    /\ pc' = [pc EXCEPT ![w] = "idle"]
                    /\ UNCHANGED <<ctxVars, completed, todo, dispatcher, job,
                                   stored, errCh, mainVars>>

\* UploadPart succeeds: resCh <- up.
UploadOk(w) == /\ pc[w] = "stored"
               /\ Len(resCh) < ResCap
               /\ resCh' = Append(resCh, job[w])
               /\ pc' = [pc EXCEPT ![w] = "idle"]
               /\ UNCHANGED <<ctxVars, completed, todo, dispatcher, job,
                              stored, errCh, mainVars>>

\* MUTANT: the error is not sent.
ReportNothing(cause) == errCh

\* UploadPart fails by itself, or because workCtx is done; the part may have
\* been stored all the same.  The worker offers the error to errCh; select
\* with a default drops it when the buffer (MaxConcurrency) is full.
Report(cause) == IF Len(errCh) < MaxConcurrency
                 THEN Append(errCh, cause) ELSE errCh

\* MUTANT: the worker tries the part again instead of returning.
UploadRetries(w, cause) == /\ pc[w] \in Busy
                           /\ cause \in {"service", workCtx} \ {"live"}
                           /\ pc' = [pc EXCEPT ![w] = "put"]
                           /\ errCh' = Report(cause)
                           /\ UNCHANGED <<ctxVars, completed, todo, dispatcher,
                                          job, stored, resCh, mainVars>>

UploadFails(w, cause) == /\ pc[w] \in Busy
                         /\ cause \in {"service", workCtx} \ {"live"}
                         /\ pc' = [pc EXCEPT ![w] = "cancel"]
                         /\ errCh' = Report(cause)
                         /\ UNCHANGED <<ctxVars, completed, todo, dispatcher,
                                        job, stored, resCh, mainVars>>

\* cancel(); return
WorkerCancels(w) == /\ pc[w] = "cancel"
                    /\ pc' = [pc EXCEPT ![w] = "failed"]
                    /\ workCtx' = Cancelled
                    /\ UNCHANGED <<parent, completed, todo, dispatcher, job,
                                   stored, resCh, errCh, mainVars>>

\* range jobCh ends when the channel is closed.
WorkerExits(w) == /\ pc[w] = "idle"
                  /\ dispatcher = "closed"
                  /\ pc' = [pc EXCEPT ![w] = "exited"]
                  /\ UNCHANGED <<ctxVars, completed, todo, dispatcher, job,
                                 stored, resCh, errCh, mainVars>>

-----------------------------------------------------------------------------
(* The calling goroutine after the workers.                                *)

\* MUTANT: wg.Add(1) once for all workers.
OneGone == \E w \in Workers : pc[w] \in Gone

AllGone == \A w \in Workers : pc[w] \in Gone

\* MUTANT: the context is looked at before the errors.
WaitFailsCtxFirst ==
    /\ main = "waiting"
    /\ AllGone
    /\ \/ workCtx # "live" /\ Return(workCtx)
       \/ workCtx = "live" /\ errCh # <<>> /\ Return(Head(errCh))
    /\ UNCHANGED <<parent, completed, todo, dispatcher, workerVars,
                   resCh, errCh, parts, transferred, saved>>

\* wg.Wait() returns; an error in errCh, or an expired deadline, is returned.
WaitFails == /\ main = "waiting"
             /\ AllGone
             /\ \/ errCh # <<>> /\ Return(Head(errCh))
                \/ errCh = <<>> /\ workCtx = "deadline" /\ Return("deadline")
             /\ UNCHANGED <<parent, completed, todo, dispatcher, workerVars,
                            resCh, errCh, parts, transferred, saved>>

\* MUTANT: the errors are not looked at.
WaitPassesErrors == /\ main = "waiting"
                    /\ AllGone
                    /\ workCtx # "deadline"
                    /\ main' = "collecting"
                    /\ UNCHANGED <<ctxVars, completed, todo, dispatcher, workerVars,
                                   resCh, errCh, parts, transferred, saved, outcome>>

\* Neither test returns: a cancelled context passes here as well.
WaitPasses == /\ main = "waiting"
              /\ AllGone
              /\ errCh = <<>>
              /\ workCtx # "deadline"
              /\ main' = "collecting"
              /\ UNCHANGED <<ctxVars, completed, todo, dispatcher, workerVars,
                             resCh, errCh, parts, transferred, saved, outcome>>

\* One turn of for up := range resCh: append, report progress, save.  The
\* error of Save is ignored, so the store may keep its older payload.
Collect == /\ main = "collecting"
           /\ resCh # <<>>
           /\ resCh' = Tail(resCh)
           /\ parts' = parts \cup {Head(resCh)}
           /\ transferred' = transferred + PartSize
           /\ saved' \in {saved, parts'}
           /\ UNCHANGED <<ctxVars, completed, todo, dispatcher, workerVars,
                          errCh, main, outcome>>

CollectEnds == /\ main = "collecting"
               /\ resCh = <<>>
               /\ Return("ok")
               /\ UNCHANGED <<parent, completed, todo, dispatcher, workerVars,
                              resCh, errCh, parts, transferred, saved>>

\* The call is over and the goroutines it started have ended.
Finished == /\ main = "returned"
            /\ dispatcher \in {"off", "closed"}
            /\ UNCHANGED vars

-----------------------------------------------------------------------------
Worker(w) == \/ Dispatch(w) \/ ServiceStores(w) \/ UploadOk(w)
             \/ \E cause \in ErrCause : UploadFails(w, cause)
             \/ WorkerCancels(w) \/ WorkerExits(w)

Dispatcher == DispatchStops \/ DispatchEnds

Caller == \/ SliceFails \/ NothingToDo \/ StartWorkers
          \/ WaitFails \/ WaitPasses \/ Collect \/ CollectEnds

Next == \/ \E why \in {"canceled", "deadline"} : ParentDone(why)
        \/ Dispatcher
        \/ \E w \in Workers : Worker(w)
        \/ Caller
        \/ Finished

Spec == Init /\ [][Next]_vars

-----------------------------------------------------------------------------
(* Fairness: the Go scheduler runs every goroutine that can run, and every *)
(* UploadPart returns.                                                     *)

FairSpec == /\ Spec
            /\ WF_vars(Dispatcher)
            /\ WF_vars(Caller)
            /\ \A w \in Workers : WF_vars(Worker(w))

-----------------------------------------------------------------------------
(* Properties.                                                             *)

TypeOK == /\ parent \in CtxState
          /\ workCtx \in CtxState
          /\ completed \subseteq PayloadParts
          /\ todo \subseteq AllParts
          /\ dispatcher \in {"off", "sending", "closed"}
          /\ pc \in [Workers -> {"off", "idle", "exited"} \cup Busy \cup Broken]
          /\ job \in [Workers -> AllParts \cup {0}]
          /\ stored \subseteq AnyPart
          /\ resCh \in Seq(AllParts)
          /\ errCh \in Seq(ErrCause)
          /\ main \in {"start", "waiting", "collecting", "returned"}
          /\ parts \subseteq AnyPart
          /\ transferred \in Nat
          /\ saved \subseteq AnyPart
          /\ outcome \in {"none", "ok"} \cup ErrCause

Acked == completed \cup parts \cup Elements(resCh)
Held(w) == pc[w] \in Busy \cup Broken

\* A list of parts handed back without an error names every part of the plan,
\* unless the caller cancelled its context meanwhile.
OkMeansAllParts ==
    outcome = "ok" /\ ~(AllParts \subseteq parts) => parent = "canceled"

\* The error handed back is the one that stopped the batch: never the
\* "context canceled" of a sibling that cancel() interrupted, nor an expired
\* deadline when the caller's context did not expire.
RootCauseReported == outcome \in {"canceled", "deadline"} => parent = outcome

\* A failed UploadPart is never swallowed: the call that saw one returns it.
FailureReported ==
    (\E w \in Workers : pc[w] \in Broken) /\ main = "returned"
        => outcome \in ErrCause

\* No part is uploaded twice: the parts still to send, the parts the workers
\* hold and the parts acknowledged never overlap, and no result is repeated.
EachPartOnce ==
    /\ \A v, w \in Workers : Held(v) /\ Held(w) /\ job[v] = job[w] => v = w
    /\ \A w \in Workers : Held(w) => job[w] \notin Acked \cup todo
    /\ todo \cap Acked = {}
    /\ \A i, j \in DOMAIN resCh : resCh[i] = resCh[j] => i = j
    /\ \A i \in DOMAIN resCh : resCh[i] \notin parts

\* When the call returns, no worker is inside UploadPart: the Complete or
\* Abort that follows never races a part of this batch.
QuiescentReturn ==
    main = "returned" => \A w \in Workers : pc[w] \in Gone \cup {"off"}

\* A resume payload never names a part the service does not hold.
SnapshotIsStored == saved \subseteq stored

\* runWorkers always returns, and the dispatcher goroutine always ends: no
\* full channel, closed channel or cancelled context blocks them for ever.
PoolReturns == <>(main = "returned")
DispatcherEnds == dispatcher = "sending" ~> dispatcher = "closed"

-----------------------------------------------------------------------------
(* The inductive invariant behind the safety properties.                   *)

HeldParts == {job[w] : w \in {v \in Workers : Held(v)}}

\* Which goroutines exist, and what the channels hold, in each phase of the
\* calling goroutine.
PhaseInv ==
    /\ main = "start" => dispatcher = "off" /\ parts = {}
    /\ main = "waiting" => dispatcher # "off"
    /\ main = "collecting" => dispatcher = "closed" /\ errCh = <<>> /\ AllGone
    /\ main = "returned" => dispatcher = "off" \/ AllGone
    /\ main # "returned" <=> outcome = "none"
    /\ dispatcher = "off" => /\ todo = {} /\ resCh = <<>> /\ errCh = <<>>
                            /\ \A w \in Workers : pc[w] = "off"
    /\ dispatcher # "off" => /\ completed \subseteq parts
                            /\ \A w \in Workers : pc[w] # "off"
    /\ (\E w \in Workers : pc[w] = "exited") => dispatcher = "closed"
    /\ \A w \in Workers : Held(w) => job[w] # 0

\* errCh holds an error exactly when a worker failed; until then nobody has
\* called cancel(), so workCtx is done only if the caller's context is.
ErrorInv ==
    /\ errCh # <<>> <=> \E w \in Workers : pc[w] \in Broken
    /\ main # "returned" /\ errCh = <<>> => workCtx = parent
    /\ errCh # <<>> /\ Head(errCh) # "service" => parent = Head(errCh)
    /\ outcome = "ok" => errCh = <<>>
    /\ RootCauseReported

\* Every part of the plan is still to send, held by a worker or acknowledged;
\* the dispatcher gives parts up only when workCtx is done.
PlanInv ==
    /\ dispatcher # "off" => AllParts \subseteq todo \cup HeldParts \cup Acked
    /\ dispatcher = "closed" => todo = {} \/ workCtx # "live"
    /\ main = "collecting" => AllParts \subseteq Acked \/ parent = "canceled"
    /\ OkMeansAllParts

\* The service holds what was acknowledged, saved, or is about to be.
StoreInv == /\ Acked \subseteq stored
            /\ SnapshotIsStored
            /\ \A w \in Workers : pc[w] = "stored" => job[w] \in stored

IInv == TypeOK /\ PhaseInv /\ ErrorInv /\ PlanInv /\ StoreInv /\ EachPartOnce

-----------------------------------------------------------------------------
(* The pool keeps the promise of PartBatch.                                *)

BatchAcked == IF main = "start" THEN {} ELSE Acked
BatchFailed == \E w \in Workers : pc[w] \in Broken
BatchOutcome == IF main = "start" THEN "idle"
                ELSE IF main # "returned" THEN "running"
                ELSE IF outcome = "ok" THEN "ok" ELSE "err"

Batch == INSTANCE PartBatch WITH
    Numbers <- AnyPart,
    plan <- AllParts,
    acked <- BatchAcked,
    failed <- BatchFailed,
    outcome <- BatchOutcome

\* Every behaviour of the pool is one of the abstract batch: its errors and
\* partial lists have no other causes than those PartBatch names.
ImplementsBatch == Batch!Spec
=============================================================================
