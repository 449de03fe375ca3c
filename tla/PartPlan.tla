------------------------------ MODULE PartPlan ------------------------------
(***************************************************************************)
(* How Manager.sliceParts (src/pkg/uos/transfer/manager.go) cuts a body of *)
(* Size bytes into parts: totalParts is the rounded-up quotient, part n    *)
(* starts at (n-1)*PartSize, and the last part takes what remains.         *)
(* Sizes are small naturals; 64-bit wrap-around is out of reach of any     *)
(* body the program can hold and is not modelled.                          *)
(***************************************************************************)
EXTENDS Integers

\* MUTANT: the quotient is rounded down.
TotalPartsFloor(size, partSize) == size \div partSize

\* int((req.Size + partSize - 1) / partSize)
TotalParts(size, partSize) == (size + partSize - 1) \div partSize

PartNumbers(size, partSize) == 1 .. TotalParts(size, partSize)

\* MUTANT: the part number is taken for the zero-based index.
OffsetByNumber(n, partSize) == n * partSize

\* offset := int64(i) * partSize, with i = partNumber - 1
Offset(n, partSize) == (n - 1) * partSize

\* size := partSize, cut to the remaining bytes in the last part
PartLength(n, size, partSize) ==
    LET remaining == size - Offset(n, partSize)
    IN  IF remaining < partSize THEN remaining ELSE partSize

\* The specs sliceParts builds: the planned parts that are not in completed.
Specs(size, partSize, completed) == PartNumbers(size, partSize) \ completed
=============================================================================
