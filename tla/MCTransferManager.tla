-------------------------- MODULE MCTransferManager --------------------------
(***************************************************************************)
(* Uploads to one key: a body of two parts, and one that is sent in a      *)
(* single Put.                                                             *)
(***************************************************************************)
EXTENDS TransferManager, TLC

CONSTANTS a, b, two, tiny, u1, u2

OneCaller == {a}
TwoCallers == {a, b}
OneBody == {two}
MixedBodies == {two, tiny}
TinyOnly == {tiny}
NoBody == {}
PartCount == two :> 2 @@ tiny :> 1
PartsOfOne == [x \in OneBody |-> PartCount[x]]
PartsOfMixed == [x \in MixedBodies |-> PartCount[x]]
TwoUploads == {u1, u2}
Symmetry == Permutations(TwoCallers) \cup Permutations(TwoUploads)

\* Bounds of a run in which nothing has to happen in the end: once the outages
\* are over one caller is at work, and contexts end for one reason in a behaviour.
CalmAfterRecovery == faults = {} => Cardinality({c \in Callers : pc[c] # "idle"}) <= 1
OneReason == Cardinality({ctx[c] : c \in Callers} \ {"live"}) <= 1
=============================================================================
