------------------------------ MODULE PartBatch ------------------------------
(***************************************************************************)
(* What Manager.runWorkers promises its caller, uploadMultipart, without   *)
(* the goroutines and channels: a batch of parts is acknowledged one by    *)
(* one until the call returns a list of parts or an error.  WorkerPool     *)
(* implements it, TransferManager relies on it.                            *)
(*                                                                         *)
(* The two returns are the ones the code has.  An error needs a failed     *)
(* UploadPart or an expired deadline.  A list of parts is complete unless  *)
(* the caller's context was cancelled: then the code falls through its     *)
(* error tests and hands back what it has.                                 *)
(***************************************************************************)
EXTENDS Integers

CONSTANT Numbers              \* the part numbers a plan or payload may name

VARIABLES plan,               \* the part numbers of the body
          acked,              \* parts known to be uploaded, resumed ones included
          failed,             \* some UploadPart of this batch returned an error
          parent,             \* the caller's context
          outcome             \* what runWorkers returned, or how far it is

vars == <<plan, acked, failed, parent, outcome>>

Fresh == /\ plan \in SUBSET Numbers
         /\ acked = {}
         /\ failed = FALSE
         /\ parent \in {"live", "canceled", "deadline"}
         /\ outcome = "idle"

Init == Fresh

\* The body is sliced; the parts in done come from the resume payload.  When
\* the whole plan is there the call returns at once.
Begin(done) == /\ outcome = "idle"
               /\ outcome' = IF plan \subseteq done THEN "ok" ELSE "running"
               /\ acked' = done
               /\ UNCHANGED <<plan, failed, parent>>

\* The body cannot be read: the call ends before any part is sent.
Reject(done) == /\ outcome = "idle"
                /\ outcome' = "err"
                /\ acked' = done
                /\ UNCHANGED <<plan, failed, parent>>

Ack(p) == /\ outcome = "running"
          /\ p \in plan \ acked
          /\ acked' = acked \cup {p}
          /\ UNCHANGED <<plan, failed, parent, outcome>>

Fail == /\ outcome = "running"
        /\ failed' = TRUE
        /\ UNCHANGED <<plan, acked, parent, outcome>>

Expire(why) == /\ parent = "live"
               /\ parent' = why
               /\ UNCHANGED <<plan, acked, failed, outcome>>

ReturnParts == /\ outcome = "running"
               /\ ~failed
               /\ plan \subseteq acked \/ parent = "canceled"
               /\ outcome' = "ok"
               /\ UNCHANGED <<plan, acked, failed, parent>>

ReturnError == /\ outcome = "running"
               /\ failed \/ parent = "deadline"
               /\ outcome' = "err"
               /\ UNCHANGED <<plan, acked, failed, parent>>

\* The caller is through with this batch, or its process has died, and it
\* may start another one.
Renew == Fresh'

Next == \/ \E done \in SUBSET Numbers : Begin(done) \/ Reject(done)
        \/ \E p \in Numbers : Ack(p)
        \/ Fail
        \/ \E why \in {"canceled", "deadline"} : Expire(why)
        \/ ReturnParts
        \/ ReturnError
        \/ Renew

Spec == Init /\ [][Next]_vars
=============================================================================
