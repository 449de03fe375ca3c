--------------------------- MODULE MCStreamWriter ---------------------------
(***************************************************************************)
(* A Writer with parts of three bytes, Writes shorter than, equal to and   *)
(* more than twice as long as a part, up to eight bytes in all (two parts  *)
(* and a rest), and every kind of SmallObjectThreshold: default, forced    *)
(* multipart (negative, and below PartSize), and above PartSize.           *)
(***************************************************************************)
EXTENDS StreamWriter

MCLengths == {1, 2, 3, 7}
MCThresholds == {-1, 0, 1, 5}
=============================================================================
