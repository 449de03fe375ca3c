---------------------------- MODULE MCSliceParts ----------------------------
(***************************************************************************)
(* sliceParts on every size up to three parts and a rest, every part size  *)
(* from 1 to beyond the body, readers shorter and longer than the claimed  *)
(* size, and every resume payload, part 4 being one of a longer body.      *)
(***************************************************************************)
EXTENDS SliceParts

MCSizes == 1 .. 7
MCPartSizes == {1, 2, 3, 9}
MCLengths == {0, 1, 5, 6, 7, 8}
MCPayloadParts == 1 .. 4
=============================================================================
