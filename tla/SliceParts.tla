----------------------------- MODULE SliceParts -----------------------------
(***************************************************************************)
(* Manager.sliceParts (src/pkg/uos/transfer/manager.go): one forward pass  *)
(* over req.Body that cuts it into the parts to upload.  The body is a     *)
(* stream: a part of the resume payload must be read past, or every later  *)
(* part is made of the wrong bytes.                                        *)
(*                                                                         *)
(* A byte is its position in the body.  req.Size is what the caller        *)
(* claims; the reader may hold fewer bytes, or more.  It is positive here:  *)
(* only a body of at least MultipartThreshold bytes gets this far.         *)
(***************************************************************************)
EXTENDS PartPlan, Sequences

CONSTANTS Sizes,              \* values of req.Size
          PartSizes,          \* values of cfg.PartSize
          Lengths,            \* bytes the reader really holds
          PayloadParts        \* part numbers a resume payload may name

ASSUME SizesAssumption == Sizes \subseteq Nat \ {0} /\ PartSizes \subseteq Nat \ {0}
ASSUME LengthsAssumption == Lengths \subseteq Nat
ASSUME PayloadAssumption == PayloadParts \subseteq Nat \ {0}

VARIABLES size, partSize, length, completed,    \* what the call is given
          i,                                    \* the loop counter
          pos,                                  \* bytes taken off req.Body
          specs,                                \* the slice that is returned
          result                                \* "running", "ok" or "err"

given == <<size, partSize, length, completed>>
vars == <<given, i, pos, specs, result>>

Init == /\ size \in Sizes
        /\ partSize \in PartSizes
        /\ length \in Lengths
        /\ completed \in SUBSET PayloadParts
        /\ i = 0
        /\ pos = 0
        /\ specs = <<>>
        /\ result = "running"

InLoop == /\ result = "running"
          /\ i < TotalParts(size, partSize)

partNumber == i + 1
Take == PartLength(partNumber, size, partSize)
Enough == pos + Take <= length

\* MUTANT: a skipped part is not read past.
SkipPartKeepsBody == /\ InLoop
                     /\ partNumber \in completed
                     /\ i' = i + 1
                     /\ UNCHANGED <<given, pos, specs, result>>

\* MUTANT: a skipped part is seeked past, which no end of the body stops.
SkipPartSeeks == /\ InLoop
                 /\ partNumber \in completed
                 /\ pos' = pos + Take
                 /\ i' = i + 1
                 /\ UNCHANGED <<given, specs, result>>

\* io.CopyN(io.Discard, req.Body, size); continue
SkipPart == /\ InLoop
            /\ partNumber \in completed
            /\ Enough
            /\ pos' = pos + Take
            /\ i' = i + 1
            /\ UNCHANGED <<given, specs, result>>

\* io.ReadFull(req.Body, buf); specs = append(specs, PartSpec{...})
ReadPart == /\ InLoop
            /\ partNumber \notin completed
            /\ Enough
            /\ specs' = Append(specs, [num |-> partNumber, from |-> pos, len |-> Take])
            /\ pos' = pos + Take
            /\ i' = i + 1
            /\ UNCHANGED <<given, result>>

\* MUTANT: a short read is tried again instead of reported.
ShortBodyRetries == /\ InLoop
                    /\ ~Enough
                    /\ pos' = length
                    /\ UNCHANGED <<given, i, specs, result>>

\* The body ends before the claimed size, in either call.
ShortBody == /\ InLoop
             /\ ~Enough
             /\ pos' = length
             /\ result' = "err"
             /\ UNCHANGED <<given, i, specs>>

Done == /\ result = "running"
        /\ i >= TotalParts(size, partSize)
        /\ result' = "ok"
        /\ UNCHANGED <<given, i, pos, specs>>

Next == SkipPart \/ ReadPart \/ ShortBody \/ Done

Spec == Init /\ [][Next]_vars /\ WF_vars(Next)

-----------------------------------------------------------------------------
(* Properties.                                                             *)

SpecType == [num : Nat, from : Nat, len : Nat]

TypeOK == /\ size \in Sizes
          /\ partSize \in PartSizes
          /\ length \in Lengths
          /\ completed \subseteq PayloadParts
          /\ i \in Nat
          /\ pos \in Nat
          /\ specs \in Seq(SpecType)
          /\ result \in {"running", "ok", "err"}

\* The part byte k of the body belongs to, counted from the front.
PartOfByte(k) == k \div partSize + 1
BytesOf(s) == {k \in 0 .. size - 1 : s.from <= k /\ k < s.from + s.len}

\* Part n is made of exactly the bytes that belong to part n, wherever parts
\* before it were skipped.
RightBytes ==
    \A j \in DOMAIN specs :
        BytesOf(specs[j]) = {k \in 0 .. size - 1 : PartOfByte(k) = specs[j].num}

\* What is returned without an error is every part that is not in the resume
\* payload, once, in order, each within the size limits of a service: full
\* parts, and only the last one short but not empty.
ExactParts ==
    result = "ok" =>
        /\ {specs[j].num : j \in DOMAIN specs} =
               {n \in {PartOfByte(k) : k \in 0 .. size - 1} : n \notin completed}
        /\ \A j, k \in DOMAIN specs : j < k => specs[j].num < specs[k].num
        /\ \A j \in DOMAIN specs :
               /\ specs[j].len \in 1 .. partSize
               /\ specs[j].from + specs[j].len # size => specs[j].len = partSize

\* A body shorter than its claimed size is refused, even when every part that
\* is missing from it is in the payload.
ShortBodyRefused == result = "ok" => pos = size /\ size <= length

\* The pass ends.
SliceEnds == <>(result # "running")

-----------------------------------------------------------------------------
(* The inductive invariant behind the safety properties.                   *)

\* The body has been read up to the end of part i, or up to its own end.
ReadInv ==
    /\ i <= TotalParts(size, partSize)
    /\ result = "ok" => i = TotalParts(size, partSize)
    /\ pos <= length
    /\ result # "err" => pos = IF i * partSize < size THEN i * partSize ELSE size

\* The specs are those of the parts up to i that are not in completed, each
\* where it belongs.
SpecsInv ==
    /\ \A j \in DOMAIN specs :
          /\ specs[j].num \in 1 .. i \ completed
          /\ specs[j].from = Offset(specs[j].num, partSize)
          /\ specs[j].len = PartLength(specs[j].num, size, partSize)
    /\ \A j, k \in DOMAIN specs : j < k => specs[j].num < specs[k].num
    /\ \A n \in 1 .. i \ completed : \E j \in DOMAIN specs : specs[j].num = n

IInv == TypeOK /\ ReadInv /\ SpecsInv
=============================================================================
