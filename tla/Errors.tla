------------------------------- MODULE Errors -------------------------------
(* The error model of pkg/uos/error.go as the drivers use it: what a client  *)
(* call gives back.  An outcome of a call is the state it leaves behind, the *)
(* code of its *uos.Error ("ok" for nil), the Retryable hint, the Capability *)
(* of an ErrUnsupported, and the result value.  Messages, request ids and    *)
(* the wrapped cause are wording and are left out.                           *)
EXTENDS Naturals

\* The closed enumeration of AllCodes.
Codes == {"unsupported", "invalid_argument", "not_found", "already_exists",
          "permission_denied", "unauthenticated", "precondition_failed",
          "conflict", "rate_limited", "timeout", "temporary",
          "checksum_mismatch", "length_required", "internal"}

NoCap == "none"
Nothing == [none |-> TRUE]                \* the zero value of a result

\* A call's outcome; Error is the record of error.go without its wording.
Error(s, code, retry, cap) ==
  [store |-> s, code |-> code, retry |-> retry, cap |-> cap, out |-> Nothing]

Ok(s, out) ==
  [store |-> s, code |-> "ok", retry |-> FALSE, cap |-> NoCap, out |-> out]

\* An error a driver builds itself, before or without asking the service.
Refuse(s, code) == Error(s, code, FALSE, NoCap)

NewUnsupported(s, cap) == Error(s, "unsupported", FALSE, cap)

\* e is a target of errors.Is: a zero field of the target is a wildcard.
Is(e, code, cap) == /\ code \in {"", e.code}
                    /\ cap \in {"", e.cap}
=============================================================================
