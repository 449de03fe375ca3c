------------------------------ MODULE MCUploads ------------------------------
(* Two callers and two part numbers: one upload with three UploadParts, or    *)
(* two of one key or of two keys with two.                                   *)
EXTENDS Uploads, TLC
MCKeys == {1, 2}
MCParts == {1, 2}
Symmetry == Permutations(Callers)
\* Nothing here depends on the order of the keys: the first upload has the first.
FirstKeyFirst == \A id \in DOMAIN ups : (\A i \in DOMAIN ups : id <= i) => ups[id].key = 1
=============================================================================
