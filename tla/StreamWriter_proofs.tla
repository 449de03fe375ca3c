------------------------- MODULE StreamWriter_proofs -------------------------
(***************************************************************************)
(* Proofs about StreamWriter for every part size, every threshold, writes  *)
(* of every length and streams of any length: MaxBytes is any natural.     *)
(***************************************************************************)
EXTENDS StreamWriter, TLAPS, SequenceTheorems

-----------------------------------------------------------------------------
(* Lemmas about the parts.                                                 *)

\* Positions in the stream grow by PartSize from part to part.
LEMMA NextPosition ==
    ASSUME NEW n \in Nat
    PROVE  /\ n * PartSize \in Nat
           /\ (n + 1) * PartSize = n * PartSize + PartSize
BY PartSizeAssumption

\* A part of any length is a part.
LEMMA PartTyped ==
    ASSUME NEW num \in Nat, NEW from \in Nat, NEW len \in Nat
    PROVE  PartAt(num, from, len) \in PartType
BY DEF PartAt, PartType

\* One more full part after full parts leaves them full.
LEMMA AppendFull ==
    ASSUME NEW ps \in Seq(PartType), Full(ps),
           NEW p, p = PartAt(Len(ps) + 1, Len(ps) * PartSize, PartSize)
    PROVE  /\ Append(ps, p) \in Seq(PartType)
           /\ Full(Append(ps, p))
<1>1. Len(ps) \in Nat /\ p \in PartType
    BY NextPosition, PartTyped, PartSizeAssumption
<1>2. /\ Append(ps, p) \in Seq(PartType)
      /\ DOMAIN Append(ps, p) = 1 .. Len(ps) + 1
      /\ \A k \in 1 .. Len(ps) : Append(ps, p)[k] = ps[k]
      /\ Append(ps, p)[Len(ps) + 1] = p
    BY <1>1
<1>3. ASSUME NEW k \in DOMAIN Append(ps, p)
      PROVE  Append(ps, p)[k] = PartAt(k, (k - 1) * PartSize, PartSize)
    <2>1. CASE k \in 1 .. Len(ps)
        BY <1>2, <2>1 DEF Full
    <2>2. CASE k = Len(ps) + 1
        <3>1. k - 1 = Len(ps)
            BY <1>1, <2>2
        <3> QED BY <1>2, <2>2, <3>1
    <2> QED BY <1>1, <1>2, <2>1, <2>2
<1> QED BY <1>2, <1>3 DEF Full

\* Full parts lie end to end, and so they do with one shorter part behind.
LEMMA FullTiles ==
    ASSUME NEW ps \in Seq(PartType), Full(ps)
    PROVE  Tiles(ps)
<1>1. ASSUME NEW k \in DOMAIN ps
      PROVE  /\ ps[k].num = k
             /\ ps[k].from = (k - 1) * PartSize
             /\ ps[k].len = PartSize
    BY <1>1 DEF Full, PartAt
<1> QED BY <1>1, PartSizeAssumption DEF Tiles

\* The last part may be shorter.
LEMMA AppendTiles ==
    ASSUME NEW ps \in Seq(PartType), Full(ps),
           NEW len \in Nat, len <= PartSize,
           NEW p, p = PartAt(Len(ps) + 1, Len(ps) * PartSize, len)
    PROVE  /\ Append(ps, p) \in Seq(PartType)
           /\ Tiles(Append(ps, p))
<1>1. Len(ps) \in Nat /\ p \in PartType
    <2>1. Len(ps) \in Nat
        OBVIOUS
    <2>2. Len(ps) + 1 \in Nat /\ Len(ps) * PartSize \in Nat
        BY <2>1, NextPosition
    <2> QED BY <2>1, <2>2, PartTyped
<1>2. /\ Append(ps, p) \in Seq(PartType)
      /\ Len(Append(ps, p)) = Len(ps) + 1
      /\ DOMAIN Append(ps, p) = 1 .. Len(ps) + 1
      /\ \A k \in 1 .. Len(ps) : Append(ps, p)[k] = ps[k]
      /\ Append(ps, p)[Len(ps) + 1] = p
    BY <1>1
<1> DEFINE q == Append(ps, p)
<1>3. ASSUME NEW k \in 1 .. Len(ps) + 1
      PROVE  /\ q[k].num = k
             /\ q[k].from = (k - 1) * PartSize
             /\ q[k].len <= PartSize
             /\ k < Len(ps) + 1 => q[k].len = PartSize
    <2>1. CASE k \in 1 .. Len(ps)
        <3>1. q[k] = PartAt(k, (k - 1) * PartSize, PartSize)
            BY <1>2, <2>1 DEF Full
        <3> QED BY <3>1, PartSizeAssumption DEF PartAt
    <2>2. CASE k = Len(ps) + 1
        <3>1. k - 1 = Len(ps) /\ ~(k < Len(ps) + 1)
            BY <1>1, <2>2
        <3>2. q[k] = PartAt(k, (k - 1) * PartSize, len)
            BY <1>2, <2>2, <3>1
        <3> QED BY <3>1, <3>2 DEF PartAt
    <2> QED BY <1>1, <2>1, <2>2
<1> QED BY <1>2, <1>3 DEF Tiles

-----------------------------------------------------------------------------
(* Every step preserves the inductive invariant, one part at a time.       *)

\* The types, for every action.
LEMMA TypeStep ==
    ASSUME TypeOK, Next
    PROVE  TypeOK'
<1> USE PartSizeAssumption, OptionsAssumption DEF TypeOK, writer, flags, params
<1>1. ASSUME NEW n \in Lengths, Write(n) PROVE TypeOK'
    BY <1>1 DEF Write
<1>2. CASE Close
    <2>1. CASE ClosePut
        <3>1. <<PartAt(1, drained, buf)>> \in Seq(PartType)
            BY PartTyped
        <3> QED BY <2>1, <3>1 DEF ClosePut, CloseCall
    <2>2. CASE CloseAborted \/ CloseAfterError \/ CloseMultipart
        BY <2>2 DEF CloseAborted, CloseAfterError, CloseMultipart, CloseCall, ServiceAborts
    <2> QED BY <1>2, <2>1, <2>2 DEF Close
<1>3. CASE Abort
    BY <1>3 DEF Abort, ServiceAborts
<1>4. CASE Step
    <2>1. CASE FlushPart
        <3>1. PartAt(nextPart, drained, PartSize) \in PartType
            BY PartTyped
        <3> QED BY <2>1, <3>1 DEF FlushPart, MustFlush, TakeChunk
    <2>2. CASE LastPart
        <3>1. PartAt(nextPart, drained, buf) \in PartType
            BY PartTyped
        <3>2. CASE buf > 0
            <4>1. Append(parts, PartAt(nextPart, drained, buf)) \in Seq(PartType)
                BY <3>1
            <4> QED BY <2>2, <3>2, <4>1 DEF LastPart
        <3>3. CASE ~(buf > 0)
            BY <2>2, <3>3 DEF LastPart
        <3> QED BY <3>2, <3>3
    <2>3. CASE FlushPartFails
        BY <2>3 DEF FlushPartFails, MustFlush, TakeChunk, WriteFails
    <2>4. CASE WriteReturns
        BY <2>4 DEF WriteReturns
    <2>7. CASE FlushInitiates
        BY <2>7 DEF FlushInitiates
    <2>8. CASE FlushInitiateFails
        BY <2>8 DEF FlushInitiateFails, WriteFails
    <2>5. CASE CloseInitiates \/ CloseInitiateFails \/ LastPartFails
        BY <2>5 DEF CloseInitiates, CloseInitiateFails, LastPartFails, ServiceAborts
    <2>6. CASE Complete \/ CompleteFails
        BY <2>6 DEF Complete, CompleteFails, Commits
    <2> QED BY <1>4, <2>1, <2>2, <2>3, <2>4, <2>5, <2>6, <2>7, <2>8 DEF Step
<1>5. CASE Spent
    BY <1>5 DEF Spent, vars
<1> QED BY <1>1, <1>2, <1>3, <1>4, <1>5 DEF Next

\* Where a call is agrees with the flags and the upload.
LEMMA FlowStep ==
    ASSUME TypeOK, FlowInv, Next
    PROVE  FlowInv'
<1> USE DEF TypeOK, FlowInv, writer, flags, params
<1>1. ASSUME NEW n \in Lengths, Write(n) PROVE FlowInv'
    BY <1>1 DEF Write
<1>2. CASE Close
    <2>1. CASE ClosePut
        BY <2>1 DEF ClosePut, CloseCall, FitsPut
    <2>2. CASE CloseAborted
        BY <2>2 DEF CloseAborted, CloseCall
    <2>3. CASE CloseAfterError
        BY <2>3 DEF CloseAfterError, CloseCall, ServiceAborts
    <2>4. CASE CloseMultipart
        BY <2>4 DEF CloseMultipart, CloseCall
    <2> QED BY <1>2, <2>1, <2>2, <2>3, <2>4 DEF Close
<1>3. CASE Abort
    BY <1>3 DEF Abort, ServiceAborts
<1>4. CASE Step
    <2>1. CASE WriteReturns
        BY <2>1 DEF WriteReturns
    <2>2. CASE FlushInitiates
        BY <2>2 DEF FlushInitiates, MustFlush
    <2>3. CASE FlushInitiateFails
        BY <2>3 DEF FlushInitiateFails, MustFlush, WriteFails
    <2>4. CASE FlushPart
        BY <2>4 DEF FlushPart, MustFlush, TakeChunk
    <2>5. CASE FlushPartFails
        BY <2>5 DEF FlushPartFails, MustFlush, TakeChunk, WriteFails
    <2>6. CASE CloseInitiates \/ CloseInitiateFails
        BY <2>6 DEF CloseInitiates, CloseInitiateFails
    <2>7. CASE LastPart
        BY <2>7 DEF LastPart
    <2>8. CASE LastPartFails
        BY <2>8 DEF LastPartFails, ServiceAborts
    <2>9. CASE Complete \/ CompleteFails
        BY <2>9 DEF Complete, CompleteFails, Commits
    <2> QED BY <1>4, <2>1, <2>2, <2>3, <2>4, <2>5, <2>6, <2>7, <2>8, <2>9 DEF Step
<1>5. CASE Spent
    BY <1>5 DEF Spent, vars
<1> QED BY <1>1, <1>2, <1>3, <1>4, <1>5 DEF Next

\* The parts and the buffer hold the stream.
LEMMA BytesStep ==
    ASSUME TypeOK, FlowInv, BytesInv, Next
    PROVE  BytesInv'
<1> USE PartSizeAssumption, OptionsAssumption DEF TypeOK, writer, flags, params
<1>1. ASSUME NEW n \in Lengths, Write(n) PROVE BytesInv'
    BY <1>1 DEF Write, BytesInv, NoByteLost, CommittedIsWritten, Sending, FlowInv,
                Full, Tiles, EndOf
<1>2. CASE Close
    <2>1. CASE ClosePut
        <3>1. CASE UNCHANGED object
            BY <2>1, <3>1 DEF ClosePut, CloseCall, BytesInv, NoByteLost, CommittedIsWritten,
                              Sending, Full, Tiles, EndOf
        <3>2. CASE object' = <<PartAt(1, drained, buf)>>
            <4>1. drained = 0 /\ buf = written
                BY <2>1 DEF ClosePut, CloseCall, FitsPut, FlowInv, BytesInv, NoByteLost
            <4>2. /\ Len(object') = 1
                  /\ DOMAIN object' = {1}
                  /\ object'[1] = PartAt(1, 0, written)
                BY <3>2, <4>1
            <4>3. CommittedIsWritten'
                BY <2>1, <4>2 DEF CommittedIsWritten, Tiles, EndOf, PartAt, ClosePut
            <4> QED BY <2>1, <4>3 DEF ClosePut, CloseCall, BytesInv, NoByteLost, Sending,
                                      Full, EndOf
        <3> QED BY <2>1, <3>1, <3>2 DEF ClosePut
    <2>2. CASE CloseAborted
        BY <2>2 DEF CloseAborted, CloseCall, BytesInv, NoByteLost, CommittedIsWritten, Sending,
                    Full, Tiles, EndOf
    <2>3. CASE CloseAfterError
        BY <2>3 DEF CloseAfterError, CloseCall, BytesInv, NoByteLost, CommittedIsWritten,
                    Sending, Full, Tiles, EndOf
    <2>4. CASE CloseMultipart
        BY <2>4 DEF CloseMultipart, CloseCall, BytesInv, NoByteLost, CommittedIsWritten,
                    Sending, Full, Tiles, EndOf
    <2> QED BY <1>2, <2>1, <2>2, <2>3, <2>4 DEF Close
<1>3. CASE Abort
    BY <1>3 DEF Abort, BytesInv, NoByteLost, CommittedIsWritten, Sending, Full, Tiles, EndOf
<1>4. CASE Step
    <2>1. CASE WriteReturns
        <3>1. object = <<>>
            BY <2>1 DEF WriteReturns, FlowInv
        <3> QED BY <2>1, <3>1 DEF WriteReturns, BytesInv, NoByteLost, CommittedIsWritten,
                                  Sending, FlowInv, Full, Tiles, EndOf
    <2>2. CASE FlushInitiates
        BY <2>2 DEF FlushInitiates, BytesInv, NoByteLost, CommittedIsWritten, Sending, Full,
                    Tiles, EndOf, MustFlush
    <2>3. CASE FlushInitiateFails
        BY <2>3 DEF FlushInitiateFails, WriteFails, BytesInv, NoByteLost, CommittedIsWritten,
                    Sending, FlowInv, Full, Tiles, EndOf, MustFlush
    <2>4. CASE FlushPart
        <3> DEFINE p == PartAt(nextPart, drained, PartSize)
        <3>1. /\ pc = "write" /\ ~closed /\ ~err /\ object = <<>> /\ object' = <<>>
              /\ pc' = "write" /\ ~closed' /\ ~err' /\ pending' = pending /\ written' = written
              /\ parts' = Append(parts, p) /\ nextPart' = nextPart + 1
              /\ drained' = drained + PartSize /\ buf' = buf - PartSize
            BY <2>4 DEF FlushPart, MustFlush, TakeChunk, FlowInv
        <3>2. /\ Full(parts) /\ nextPart = Len(parts) + 1
              /\ drained = Len(parts) * PartSize
              /\ written + pending = drained + buf
            BY <3>1 DEF BytesInv, Sending, NoByteLost
        <3>3. Full(parts')
            BY <3>1, <3>2, AppendFull
        <3>4. p \in PartType /\ p.from = drained /\ p.len = PartSize
            BY PartTyped DEF PartAt
        <3>5. Len(parts') = Len(parts) + 1 /\ parts'[Len(parts')] = p /\ parts' # <<>>
            BY <3>1, <3>4
        <3>6. drained' = Len(parts') * PartSize /\ nextPart' = Len(parts') + 1
            BY <3>1, <3>2, <3>5, NextPosition
        <3>7. NoByteLost'
            <4>1. parts'[Len(parts')].from + parts'[Len(parts')].len = drained'
                BY <3>1, <3>4, <3>5
            <4>2. written' + pending' = drained' + buf'
                <5>1. /\ pending' = pending /\ written' = written
                      /\ drained' = drained + PartSize /\ buf' = buf - PartSize
                    BY <3>1
                <5>2. written + pending = drained + buf
                    BY <3>2
                <5> QED BY <5>1, <5>2
            <4> QED BY <3>5, <4>1, <4>2 DEF NoByteLost, EndOf
        <3> QED BY <3>1, <3>3, <3>6, <3>7 DEF BytesInv, CommittedIsWritten, Sending
    <2>5. CASE FlushPartFails
        BY <2>5 DEF FlushPartFails, MustFlush, TakeChunk, WriteFails, BytesInv, NoByteLost,
                    CommittedIsWritten, Sending, FlowInv, Full, Tiles, EndOf
    <2>6. CASE CloseInitiates
        BY <2>6 DEF CloseInitiates, BytesInv, NoByteLost, CommittedIsWritten, Sending, Full,
                    Tiles, EndOf
    <2>7. CASE CloseInitiateFails
        BY <2>7 DEF CloseInitiateFails, BytesInv, NoByteLost, CommittedIsWritten, Sending,
                    FlowInv, Full, Tiles, EndOf
    <2>8. CASE LastPart
        <3>1. /\ pc' = "complete" /\ closed' /\ ~err /\ ~err' /\ pending' = pending
              /\ written' = written /\ object' = <<>> /\ buf < PartSize
              /\ Full(parts) /\ nextPart = Len(parts) + 1
              /\ drained = Len(parts) * PartSize /\ NoByteLost
            BY <2>8 DEF LastPart, FlowInv, BytesInv, Sending
        <3>2. CASE ~(buf > 0)
            <4>1. buf = 0 /\ buf' = 0 /\ parts' = parts /\ drained' = drained
                BY <2>8, <3>2 DEF LastPart
            <4>2. Tiles(parts')
                BY <3>1, <4>1, FullTiles
            <4> QED BY <3>1, <4>1, <4>2 DEF BytesInv, NoByteLost, CommittedIsWritten,
                                            Sending, EndOf
        <3>3. CASE buf > 0
            <4> DEFINE p == PartAt(nextPart, drained, buf)
            <4>1. buf' = 0 /\ parts' = Append(parts, p) /\ drained' = drained + buf
                BY <2>8, <3>3 DEF LastPart
            <4>2. Tiles(parts')
                <5>1. buf <= PartSize
                    BY <3>1
                <5> QED BY <3>1, <4>1, <5>1, AppendTiles
            <4>3. p \in PartType /\ p.from = drained /\ p.len = buf
                BY PartTyped DEF PartAt
            <4>4. parts'[Len(parts')] = p /\ parts' # <<>>
                BY <4>1, <4>3
            <4>5. NoByteLost'
                BY <3>1, <4>1, <4>3, <4>4 DEF NoByteLost, EndOf
            <4> QED BY <3>1, <4>1, <4>2, <4>5 DEF BytesInv, CommittedIsWritten, Sending
        <3> QED BY <3>2, <3>3
    <2>9. CASE LastPartFails
        BY <2>9 DEF LastPartFails, BytesInv, NoByteLost, CommittedIsWritten, Sending, FlowInv,
                    Full, Tiles, EndOf
    <2>10. CASE Complete \/ CompleteFails
        <3>1. /\ pc = "complete" /\ pc' = "ready" /\ closed /\ closed' /\ ~err /\ ~err'
              /\ pending = 0 /\ object = <<>> /\ Tiles(parts) /\ buf = 0 /\ NoByteLost
              /\ UNCHANGED <<writer>> /\ object' \in {parts, object}
            BY <2>10 DEF Complete, CompleteFails, Commits, FlowInv, BytesInv
        <3>2. parts # <<>> => EndOf(parts[Len(parts)]) = written
            BY <3>1 DEF NoByteLost
        <3>3. CommittedIsWritten'
            BY <3>1, <3>2 DEF CommittedIsWritten, Tiles, EndOf
        <3>4. NoByteLost'
            BY <3>1 DEF NoByteLost, EndOf
        <3> QED BY <3>1, <3>3, <3>4 DEF BytesInv, Sending
    <2> QED BY <1>4, <2>1, <2>2, <2>3, <2>4, <2>5, <2>6, <2>7, <2>8, <2>9, <2>10 DEF Step
<1>5. CASE Spent
    BY <1>5 DEF Spent, vars, BytesInv, NoByteLost, CommittedIsWritten, Sending, Full, Tiles, EndOf
<1> QED BY <1>1, <1>2, <1>3, <1>4, <1>5 DEF Next

\* A closed or aborted Writer leaves no open upload.
LEMMA ReleaseStep ==
    ASSUME TypeOK, FlowInv, BytesInv, ClosedReleases, Next
    PROVE  ClosedReleases'
<1> USE DEF TypeOK, FlowInv, ClosedReleases, writer, flags, params
<1>1. ASSUME NEW n \in Lengths, Write(n) PROVE ClosedReleases'
    BY <1>1 DEF Write
<1>2. CASE Close
    <2>1. CASE ClosePut
        BY <2>1 DEF ClosePut, CloseCall, FitsPut
    <2>2. CASE CloseAborted
        BY <2>2 DEF CloseAborted, CloseCall
    <2>3. CASE CloseAfterError
        BY <2>3 DEF CloseAfterError, CloseCall, ServiceAborts
    <2>4. CASE CloseMultipart
        BY <2>4 DEF CloseMultipart, CloseCall
    <2> QED BY <1>2, <2>1, <2>2, <2>3, <2>4 DEF Close
<1>3. CASE Abort
    BY <1>3 DEF Abort, ServiceAborts
<1>4. CASE Step
    <2>1. CASE WriteReturns \/ FlushInitiates \/ FlushPart
        BY <2>1 DEF WriteReturns, FlushInitiates, FlushPart, MustFlush
    <2>2. CASE FlushInitiateFails \/ FlushPartFails
        BY <2>2 DEF FlushInitiateFails, FlushPartFails, MustFlush, WriteFails
    <2>3. CASE CloseInitiates \/ CloseInitiateFails \/ LastPart
        BY <2>3 DEF CloseInitiates, CloseInitiateFails, LastPart
    <2>4. CASE LastPartFails
        BY <2>4 DEF LastPartFails, ServiceAborts
    <2>5. CASE Complete
        BY <2>5 DEF Complete, Commits
    <2>6. CASE CompleteFails
        BY <2>6 DEF CompleteFails, Commits, BytesInv
    <2> QED BY <1>4, <2>1, <2>2, <2>3, <2>4, <2>5, <2>6 DEF Step
<1>5. CASE Spent
    BY <1>5 DEF Spent, vars
<1> QED BY <1>1, <1>2, <1>3, <1>4, <1>5 DEF Next

\* The invariant holds in the state NewWriter makes.
LEMMA InitInv == Init => IInv
<1> SUFFICES ASSUME Init PROVE IInv
    OBVIOUS
<1> USE PartSizeAssumption, OptionsAssumption DEF Init
<1>1. TypeOK
    <2>1. threshold \in Int
        BY DEF SmallObjectThreshold
    <2>2. parts \in Seq(PartType) /\ object \in Seq(PartType)
        OBVIOUS
    <2> QED BY <2>1, <2>2 DEF TypeOK
<1>2. FlowInv /\ ClosedReleases
    BY DEF FlowInv, ClosedReleases
<1>3. Full(<<>>) /\ 0 = Len(<<>>) * PartSize
    BY DEF Full
<1>4. BytesInv
    BY <1>3 DEF BytesInv, NoByteLost, CommittedIsWritten, Sending
<1> QED BY <1>1, <1>2, <1>4 DEF IInv

\* Every step, a stuttering one included, preserves it.
LEMMA StepInv == IInv /\ [Next]_vars => IInv'
<1> SUFFICES ASSUME IInv, [Next]_vars PROVE IInv'
    OBVIOUS
<1>1. CASE Next
    BY <1>1, TypeStep, FlowStep, BytesStep, ReleaseStep DEF IInv
<1>2. CASE UNCHANGED vars
    <2>1. UNCHANGED <<writer, flags, params>> /\ UNCHANGED <<pc, remote, object>>
        BY <1>2 DEF vars
    <2>2. TypeOK'
        BY <2>1 DEF IInv, TypeOK, writer, flags, params
    <2>3. FlowInv' /\ ClosedReleases'
        BY <2>1 DEF IInv, FlowInv, ClosedReleases, writer, flags, params
    <2>4. BytesInv'
        BY <2>1 DEF IInv, BytesInv, NoByteLost, CommittedIsWritten, Sending, Full, Tiles,
                    EndOf, writer, flags, params
    <2> QED BY <2>2, <2>3, <2>4 DEF IInv
<1> QED BY <1>1, <1>2

-----------------------------------------------------------------------------
(* The theorems.                                                           *)

\* The inductive invariant holds throughout.
THEOREM Invariance == Spec => []IInv
BY InitInv, StepInv, PTL DEF Spec

\* Every variable keeps its type.
THEOREM TypeCorrect == Spec => []TypeOK
<1>1. IInv => TypeOK
    BY DEF IInv
<1> QED BY <1>1, Invariance, PTL

\* What Close commits is exactly the bytes of the Write calls that succeeded,
\* in parts numbered from 1, all full but the last.
THEOREM Committed == Spec => []CommittedIsWritten
<1>1. IInv => CommittedIsWritten
    BY DEF IInv, BytesInv
<1> QED BY <1>1, Invariance, PTL

\* Until a Write fails, every byte taken is in a part or in the buffer.
THEOREM BytesKept == Spec => []NoByteLost
<1>1. IInv => NoByteLost
    BY DEF IInv, BytesInv
<1> QED BY <1>1, Invariance, PTL

\* Close and Abort release the upload at the service.
THEOREM Released == Spec => []ClosedReleases
<1>1. IInv => ClosedReleases
    BY DEF IInv
<1> QED BY <1>1, Invariance, PTL

\* Nothing is committed after an Abort or a failed Write, nor twice.
THEOREM CommitOnce == Spec => CommitRule
<1>1. IInv /\ [Next]_vars =>
          [object' # object => ~aborted /\ ~err /\ object = <<>>]_vars
    <2> SUFFICES ASSUME IInv, Next, object' # object
                 PROVE  ~aborted /\ ~err /\ object = <<>>
        BY DEF vars
    <2> USE DEF IInv, FlowInv
    <2>1. CASE ClosePut
        BY <2>1 DEF ClosePut, CloseCall
    <2>2. CASE Complete \/ CompleteFails
        BY <2>2 DEF Complete, CompleteFails
    <2>3. CASE \E n \in Lengths : Write(n)
        BY <2>3 DEF Write
    <2>4. CASE CloseAborted \/ CloseAfterError \/ CloseMultipart \/ Abort \/ Spent
        BY <2>4 DEF CloseAborted, CloseAfterError, CloseMultipart, Abort, Spent, vars
    <2>5. CASE WriteReturns \/ FlushInitiates \/ FlushInitiateFails \/ FlushPart \/ FlushPartFails
        BY <2>5 DEF WriteReturns, FlushInitiates, FlushInitiateFails, FlushPart, FlushPartFails
    <2>6. CASE CloseInitiates \/ CloseInitiateFails \/ LastPart \/ LastPartFails
        BY <2>6 DEF CloseInitiates, CloseInitiateFails, LastPart, LastPartFails
    <2> QED BY <2>1, <2>2, <2>3, <2>4, <2>5, <2>6 DEF Next, Close, Step
<1> QED BY <1>1, Invariance, PTL DEF Spec, CommitRule
=============================================================================
