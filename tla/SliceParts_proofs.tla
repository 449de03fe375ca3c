-------------------------- MODULE SliceParts_proofs --------------------------
(***************************************************************************)
(* Proofs about PartPlan and SliceParts for every size, part size, payload *)
(* and body.                                                               *)
(***************************************************************************)
EXTENDS SliceParts, TLAPS

-----------------------------------------------------------------------------
(* Lemmas about the arithmetic of the plan.                                *)

\* Multiplication by a part size keeps the order, and shows it.
LEMMA TimesOrder ==
    ASSUME NEW a \in Int, NEW b \in Int, NEW p \in Nat \ {0}
    PROVE  /\ a * p \in Int
           /\ (a + 1) * p = a * p + p
           /\ a <= b => a * p <= b * p
           /\ a * p < b * p => a < b
OBVIOUS

\* The parts of the plan cover the body, and the last one is needed.
LEMMA TotalBounds ==
    ASSUME NEW s \in Nat \ {0}, NEW p \in Nat \ {0}
    PROVE  /\ TotalParts(s, p) \in Nat
           /\ s <= TotalParts(s, p) * p
           /\ (TotalParts(s, p) - 1) * p < s
<1> DEFINE x == s + p - 1
<1> DEFINE T == x \div p
<1>1. x \in Nat
    OBVIOUS
<1>2. T \in Nat
    BY <1>1
<1>3. T * p <= x /\ x < (T + 1) * p
    BY <1>1
<1>4. (T + 1) * p = T * p + p /\ T * p = (T - 1) * p + p /\ T * p \in Int /\ (T - 1) * p \in Int
    BY <1>2
<1>5. s <= T * p /\ (T - 1) * p < s
    <2> HIDE DEF T
    <2> QED BY <1>3, <1>4
<1> QED BY <1>2, <1>5 DEF TotalParts

\* Every part of the plan starts inside the body, is neither empty nor longer
\* than the part size, and ends where the next one starts or at the end.
LEMMA PartFits ==
    ASSUME NEW s \in Nat \ {0}, NEW p \in Nat \ {0}, NEW n \in 1 .. TotalParts(s, p)
    PROVE  /\ Offset(n, p) \in Nat
           /\ Offset(n, p) < s
           /\ PartLength(n, s, p) \in 1 .. p
           /\ Offset(n, p) + PartLength(n, s, p) = IF n * p < s THEN n * p ELSE s
<1> DEFINE T == TotalParts(s, p)
<1>1. T \in Nat /\ (T - 1) * p < s
    BY TotalBounds
<1>2. n - 1 \in Nat /\ n - 1 <= T - 1 /\ T - 1 \in Int /\ n \in Int
    BY <1>1
<1>3. (n - 1) * p <= (T - 1) * p
    BY <1>2, TimesOrder
<1>4. n * p = (n - 1) * p + p /\ (n - 1) * p \in Nat /\ (T - 1) * p \in Int
    BY <1>2
<1>5. (n - 1) * p < s
    BY <1>1, <1>3, <1>4
<1> DEFINE o == (n - 1) * p
<1>6. o \in Nat /\ o < s /\ n * p = o + p
    BY <1>4, <1>5
<1> HIDE DEF o
<1>7. /\ (IF s - o < p THEN s - o ELSE p) \in 1 .. p
      /\ o + (IF s - o < p THEN s - o ELSE p) = IF n * p < s THEN n * p ELSE s
    BY <1>6
<1> QED BY <1>6, <1>7 DEF o, Offset, PartLength

\* A byte belongs to part n when it lies between the offsets of n and n + 1.
LEMMA ByteInPart ==
    ASSUME NEW k \in Nat, NEW n \in Nat \ {0}, partSize \in Nat \ {0}
    PROVE  /\ PartOfByte(k) \in Nat \ {0}
           /\ PartOfByte(k) = n <=> (n - 1) * partSize <= k /\ k < n * partSize
<1> DEFINE q == k \div partSize
<1>1. q \in Nat
    OBVIOUS
<1>2. q * partSize <= k /\ k < (q + 1) * partSize
    OBVIOUS
<1> HIDE DEF q
<1>3. PartOfByte(k) = q + 1
    BY DEF PartOfByte, q
<1>4. ASSUME (n - 1) * partSize <= k, k < n * partSize PROVE n = q + 1
    <2>1. n - 1 \in Int /\ q + 1 \in Int
        BY <1>1
    <2>2. (n - 1) * partSize \in Int /\ (q + 1) * partSize \in Int /\ q * partSize \in Int
          /\ n * partSize \in Int
        BY <1>1
    <2>3. (n - 1) * partSize < (q + 1) * partSize /\ q * partSize < n * partSize
        BY <1>2, <1>4, <2>2
    <2>4. n - 1 < q + 1 /\ q < n
        BY <1>1, <2>1, <2>3, TimesOrder
    <2> QED BY <1>1, <2>4
<1>5. ASSUME n = q + 1 PROVE (n - 1) * partSize <= k /\ k < n * partSize
    <2>1. n - 1 = q
        BY <1>1, <1>5
    <2> QED BY <1>2, <1>5, <2>1
<1> QED BY <1>1, <1>3, <1>4, <1>5

-----------------------------------------------------------------------------
(* The inductive invariant.                                                *)

\* What the call is given, as numbers.
LEMMA Given ==
    ASSUME TypeOK
    PROVE  /\ size \in Nat \ {0}
           /\ partSize \in Nat \ {0}
           /\ length \in Nat
           /\ i \in Nat
           /\ pos \in Nat
           /\ TotalParts(size, partSize) \in Nat
<1>1. size \in Nat \ {0} /\ partSize \in Nat \ {0} /\ length \in Nat /\ i \in Nat /\ pos \in Nat
    BY SizesAssumption, LengthsAssumption DEF TypeOK
<1> QED BY <1>1, TotalBounds

\* Inside the loop the reader stands where the part it looks at starts, and
\* behind that part once it has been taken.
LEMMA LoopHead ==
    ASSUME TypeOK, ReadInv, InLoop
    PROVE  /\ partNumber \in 1 .. TotalParts(size, partSize)
           /\ pos = Offset(partNumber, partSize)
           /\ Take \in 1 .. partSize
           /\ pos + Take = IF partNumber * partSize < size
                          THEN partNumber * partSize ELSE size
<1> USE Given
<1>1. partNumber \in 1 .. TotalParts(size, partSize) /\ partNumber - 1 = i
    BY DEF InLoop, partNumber
<1>2. /\ Offset(partNumber, partSize) < size
      /\ Take \in 1 .. partSize
      /\ Offset(partNumber, partSize) + Take =
             IF partNumber * partSize < size THEN partNumber * partSize ELSE size
    BY <1>1, PartFits DEF Take
<1>3. Offset(partNumber, partSize) = i * partSize
    BY <1>1 DEF Offset
<1>4. pos = i * partSize
    BY <1>2, <1>3 DEF ReadInv, InLoop
<1> QED BY <1>1, <1>2, <1>3, <1>4

\* The pass starts with nothing read and nothing planned.
LEMMA InitInv == Init => IInv
<1> SUFFICES ASSUME Init PROVE IInv
    OBVIOUS
<1>1. TypeOK
    BY DEF Init, TypeOK
<1>2. ReadInv
    BY <1>1, Given DEF Init, ReadInv
<1>3. SpecsInv
    BY DEF Init, SpecsInv
<1> QED BY <1>1, <1>2, <1>3 DEF IInv

\* Every step keeps the types: what is appended is a spec.
LEMMA TypeStep == IInv /\ Next => TypeOK'
<1> SUFFICES ASSUME TypeOK, ReadInv, Next PROVE TypeOK'
    BY DEF IInv
<1> USE Given
<1>1. CASE SkipPart
    <2>1. pos + Take \in Nat
        BY <1>1, LoopHead DEF SkipPart
    <2> QED BY <1>1, <2>1 DEF SkipPart, TypeOK, given
<1>2. CASE ReadPart
    <2>1. pos + Take \in Nat /\ Take \in Nat /\ partNumber \in Nat
        BY <1>2, LoopHead DEF ReadPart
    <2>2. [num |-> partNumber, from |-> pos, len |-> Take] \in SpecType
        BY <2>1 DEF SpecType
    <2>3. specs' \in Seq(SpecType)
        BY <1>2, <2>2 DEF ReadPart, TypeOK
    <2> QED BY <1>2, <2>1, <2>3 DEF ReadPart, TypeOK, given
<1>3. CASE ShortBody
    BY <1>3 DEF ShortBody, TypeOK, given
<1>4. CASE Done
    BY <1>4 DEF Done, TypeOK, given
<1> QED BY <1>1, <1>2, <1>3, <1>4 DEF Next

\* Every step leaves the reader at the end of a part or of the body.
LEMMA ReadStep == IInv /\ Next => ReadInv'
<1> SUFFICES ASSUME TypeOK, ReadInv, Next PROVE ReadInv'
    BY DEF IInv
<1> USE Given
<1>1. CASE SkipPart \/ ReadPart
    <2>1. InLoop /\ Enough /\ pos' = pos + Take /\ i' = partNumber
          /\ UNCHANGED <<given, result>>
        BY <1>1 DEF SkipPart, ReadPart, partNumber
    <2>2. i' <= TotalParts(size, partSize)
        BY <2>1, LoopHead
    <2>3. pos' <= length
        BY <2>1 DEF Enough
    <2>4. pos' = IF i' * partSize < size THEN i' * partSize ELSE size
        BY <2>1, LoopHead
    <2> QED BY <2>1, <2>2, <2>3, <2>4 DEF ReadInv, InLoop, given
<1>2. CASE ShortBody
    BY <1>2 DEF ShortBody, ReadInv, given
<1>3. CASE Done
    BY <1>3 DEF Done, ReadInv, given
<1> QED BY <1>1, <1>2, <1>3 DEF Next

\* Every step keeps the specs those of the parts already passed.
LEMMA SpecsStep == IInv /\ Next => SpecsInv'
<1> SUFFICES ASSUME TypeOK, ReadInv, SpecsInv, Next PROVE SpecsInv'
    BY DEF IInv
<1> USE Given
<1>1. CASE SkipPart
    <2>1. 1 .. i' \ completed = 1 .. i \ completed
        BY <1>1 DEF SkipPart, partNumber
    <2> QED BY <1>1, <2>1 DEF SkipPart, SpecsInv, given
<1>2. CASE ReadPart
    <2> DEFINE new == [num |-> partNumber, from |-> pos, len |-> Take]
    <2>1. specs' = Append(specs, new) /\ i' = partNumber /\ UNCHANGED given
        BY <1>2 DEF ReadPart, partNumber
    <2>2. specs \in Seq(SpecType)
        BY DEF TypeOK
    <2>3. /\ DOMAIN specs' = 1 .. Len(specs) + 1
          /\ DOMAIN specs = 1 .. Len(specs)
          /\ Len(specs) \in Nat
          /\ \A j \in DOMAIN specs : specs'[j] = specs[j]
          /\ specs'[Len(specs) + 1] = new
        BY <2>1, <2>2
    <2>4. 1 .. i' \ completed = (1 .. i \ completed) \cup {partNumber}
        BY <1>2, <2>1 DEF ReadPart, partNumber
    <2>5. /\ new.num = partNumber
          /\ new.from = Offset(partNumber, partSize)
          /\ new.len = PartLength(partNumber, size, partSize)
        BY <1>2, LoopHead DEF ReadPart, Take
    <2> HIDE DEF new
    <2>6. \A j \in DOMAIN specs' :
              /\ specs'[j].num \in 1 .. i' \ completed
              /\ specs'[j].from = Offset(specs'[j].num, partSize)
              /\ specs'[j].len = PartLength(specs'[j].num, size, partSize)
        <3> TAKE j \in DOMAIN specs'
        <3>1. CASE j \in DOMAIN specs
            BY <2>3, <2>4, <3>1 DEF SpecsInv
        <3>2. CASE j = Len(specs) + 1
            BY <2>3, <2>4, <2>5, <3>2
        <3> QED BY <2>3, <3>1, <3>2
    <2>7. \A j, k \in DOMAIN specs' : j < k => specs'[j].num < specs'[k].num
        <3>1. \A j \in DOMAIN specs : specs[j].num < partNumber
            BY DEF SpecsInv, partNumber
        <3> SUFFICES ASSUME NEW j \in DOMAIN specs', NEW k \in DOMAIN specs', j < k
                     PROVE  specs'[j].num < specs'[k].num
            OBVIOUS
        <3>2. j \in DOMAIN specs /\ specs'[j] = specs[j]
            BY <2>3
        <3>3. CASE k \in DOMAIN specs
            <4>1. specs'[k] = specs[k]
                BY <2>3, <3>3
            <4> QED BY <3>2, <3>3, <4>1 DEF SpecsInv
        <3>4. CASE k = Len(specs) + 1
            BY <2>3, <2>5, <3>1, <3>2, <3>4
        <3> QED BY <2>3, <3>3, <3>4
    <2>8. \A n \in 1 .. i' \ completed : \E j \in DOMAIN specs' : specs'[j].num = n
        <3> TAKE n \in 1 .. i' \ completed
        <3>1. CASE n = partNumber
            <4>1. /\ Len(specs) + 1 \in DOMAIN specs'
                  /\ specs'[Len(specs) + 1].num = n
                BY <2>3, <2>5, <3>1
            <4> QED BY <4>1
        <3>2. CASE n \in 1 .. i \ completed
            <4>1. PICK j \in DOMAIN specs : specs[j].num = n
                BY <3>2 DEF SpecsInv
            <4> QED BY <2>3, <4>1
        <3> QED BY <2>4, <3>1, <3>2
    <2> QED BY <2>1, <2>6, <2>7, <2>8 DEF SpecsInv, given
<1>3. CASE ShortBody
    BY <1>3 DEF ShortBody, SpecsInv, given
<1>4. CASE Done
    BY <1>4 DEF Done, SpecsInv, given
<1> QED BY <1>1, <1>2, <1>3, <1>4 DEF Next

\* Every step keeps the inductive invariant, and so does a stutter.
LEMMA StepInv == IInv /\ [Next]_vars => IInv'
<1>1. IInv /\ Next => IInv'
    BY TypeStep, ReadStep, SpecsStep DEF IInv
<1>2. IInv /\ UNCHANGED vars => IInv'
    BY DEF IInv, TypeOK, ReadInv, SpecsInv, vars, given
<1> QED BY <1>1, <1>2

\* At every point of the pass the reader stands between two parts and the
\* specs are exactly those of the parts passed and not in the payload.
THEOREM Invariance == Spec => []IInv
<1> QED BY InitInv, StepInv, PTL DEF Spec

-----------------------------------------------------------------------------
(* What the pass gives its caller.                                         *)

\* The types hold.
THEOREM TypeCorrect == Spec => []TypeOK
<1>1. IInv => TypeOK
    BY DEF IInv
<1> QED BY <1>1, Invariance, PTL

\* Whatever parts are skipped, part n is made of the bytes of part n.
THEOREM BytesRight == Spec => []RightBytes
<1>1. IInv => RightBytes
    <2> SUFFICES ASSUME IInv, NEW j \in DOMAIN specs
                 PROVE  BytesOf(specs[j]) =
                            {k \in 0 .. size - 1 : PartOfByte(k) = specs[j].num}
        BY DEF RightBytes
    <2> DEFINE n == specs[j].num
    <2>1. /\ size \in Nat \ {0} /\ partSize \in Nat \ {0}
          /\ n \in Nat \ {0} /\ n \in 1 .. TotalParts(size, partSize)
          /\ specs[j].from = Offset(n, partSize)
          /\ specs[j].len = PartLength(n, size, partSize)
        BY Given DEF IInv, ReadInv, SpecsInv
    <2> HIDE DEF n
    <2>2. specs[j].from = (n - 1) * partSize
        BY <2>1 DEF Offset
    <2>3. specs[j].from + specs[j].len =
              IF n * partSize < size THEN n * partSize ELSE size
        BY <2>1, PartFits
    <2>4. ASSUME NEW k \in 0 .. size - 1
          PROVE  specs[j].from <= k /\ k < specs[j].from + specs[j].len <=>
                     PartOfByte(k) = n
        <3>1. k \in Nat /\ k < size
            BY <2>1
        <3>2. PartOfByte(k) = n <=> (n - 1) * partSize <= k /\ k < n * partSize
            BY <2>1, <3>1, ByteInPart
        <3>3. k < specs[j].from + specs[j].len <=> k < n * partSize
            BY <2>1, <2>3, <3>1
        <3> QED BY <2>2, <3>2, <3>3
    <2> QED BY <2>4 DEF BytesOf, n
<1> QED BY <1>1, Invariance, PTL

\* The numbers of the parts are those the bytes of the body belong to.
LEMMA PlanByBytes ==
    ASSUME size \in Nat \ {0}, partSize \in Nat \ {0}
    PROVE  {PartOfByte(k) : k \in 0 .. size - 1} = 1 .. TotalParts(size, partSize)
<1> DEFINE T == TotalParts(size, partSize)
<1>1. T \in Nat /\ size <= T * partSize
    BY TotalBounds
<1>2. ASSUME NEW k \in 0 .. size - 1 PROVE PartOfByte(k) \in 1 .. T
    <2> DEFINE n == PartOfByte(k)
    <2>1. k \in Nat /\ k < size
        OBVIOUS
    <2>2. n \in Nat \ {0}
        BY <2>1, ByteInPart
    <2>3. (n - 1) * partSize <= k
        BY <2>1, <2>2, ByteInPart
    <2> HIDE DEF n, T
    <2>4. n - 1 \in Int /\ (n - 1) * partSize \in Int /\ T * partSize \in Int
        BY <1>1, <2>2
    <2>5. (n - 1) * partSize < T * partSize
        BY <1>1, <2>1, <2>3, <2>4
    <2>6. n - 1 < T
        BY <1>1, <2>4, <2>5, TimesOrder
    <2>7. n \in 1 .. T
        BY <1>1, <2>2, <2>6
    <2> QED BY <2>7 DEF n
<1>3. ASSUME NEW n \in 1 .. T PROVE \E k \in 0 .. size - 1 : PartOfByte(k) = n
    <2>1. Offset(n, partSize) \in 0 .. size - 1 /\ n \in Nat \ {0}
        BY <1>1, PartFits
    <2>2. Offset(n, partSize) < n * partSize
        BY <2>1 DEF Offset
    <2>3. PartOfByte(Offset(n, partSize)) = n
        BY <2>1, <2>2, ByteInPart DEF Offset
    <2> QED BY <2>1, <2>3
<1> HIDE DEF T
<1>4. {PartOfByte(k) : k \in 0 .. size - 1} = 1 .. T
    BY <1>2, <1>3
<1> QED BY <1>4 DEF T

\* A pass without an error returns every part that is not in the payload,
\* once, in order, each within the limits of a service.
THEOREM PartsExact == Spec => []ExactParts
<1>1. IInv => ExactParts
    <2> SUFFICES ASSUME IInv, result = "ok" PROVE ExactParts
        BY DEF ExactParts
    <2>1. /\ size \in Nat \ {0} /\ partSize \in Nat \ {0}
          /\ i = TotalParts(size, partSize)
        BY Given DEF IInv, ReadInv
    <2>2. {PartOfByte(k) : k \in 0 .. size - 1} = 1 .. i
        BY <2>1, PlanByBytes
    <2>3. {specs[j].num : j \in DOMAIN specs} = 1 .. i \ completed
        BY DEF IInv, SpecsInv
    <2>4. ASSUME NEW j \in DOMAIN specs
          PROVE  /\ specs[j].len \in 1 .. partSize
                 /\ specs[j].from + specs[j].len # size => specs[j].len = partSize
        <3>1. /\ specs[j].num \in 1 .. TotalParts(size, partSize)
              /\ specs[j].from = Offset(specs[j].num, partSize)
              /\ specs[j].len = PartLength(specs[j].num, size, partSize)
            BY <2>1 DEF IInv, SpecsInv
        <3>2. Offset(specs[j].num, partSize) \in Nat /\ specs[j].len \in 1 .. partSize
            BY <2>1, <3>1, PartFits
        <3> QED BY <2>1, <3>1, <3>2 DEF PartLength
    <2>5. \A j, k \in DOMAIN specs : j < k => specs[j].num < specs[k].num
        BY DEF IInv, SpecsInv
    <2>6. {specs[j].num : j \in DOMAIN specs} =
              {n \in {PartOfByte(k) : k \in 0 .. size - 1} : n \notin completed}
        BY <2>2, <2>3
    <2> QED BY <2>4, <2>5, <2>6 DEF ExactParts
<1> QED BY <1>1, Invariance, PTL

\* A body that ends before its claimed size is never accepted.
THEOREM ShortRefused == Spec => []ShortBodyRefused
<1>1. IInv => ShortBodyRefused
    <2> SUFFICES ASSUME IInv, result = "ok" PROVE pos = size /\ size <= length
        BY DEF ShortBodyRefused
    <2>1. /\ size \in Nat \ {0} /\ partSize \in Nat \ {0} /\ length \in Nat
          /\ i = TotalParts(size, partSize)
        BY Given DEF IInv, ReadInv
    <2>2. size <= i * partSize
        BY <2>1, TotalBounds
    <2>3. pos = (IF i * partSize < size THEN i * partSize ELSE size) /\ pos <= length
        BY DEF IInv, ReadInv
    <2>4. i \in Nat /\ i * partSize \in Int
        BY <2>1, Given DEF IInv
    <2>5. pos = size
        BY <2>1, <2>2, <2>3, <2>4
    <2> QED BY <2>3, <2>5
<1> QED BY <1>1, Invariance, PTL
=============================================================================
