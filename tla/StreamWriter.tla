---------------------------- MODULE StreamWriter ----------------------------
(***************************************************************************)
(* streamio.Writer (src/pkg/uos/streamio/writer.go): Write buffers bytes   *)
(* and sends a part for every PartSize of them, Close commits by one Put   *)
(* or by Complete, Abort gives the upload up.  A Writer belongs to one     *)
(* goroutine, so calls do not overlap, but every call of the service       *)
(* inside them may fail and leaves the Writer where the code leaves it.    *)
(*                                                                         *)
(* Bytes are numbered by their position in the stream; a part is its       *)
(* number, the position it starts at and its length.                       *)
(***************************************************************************)
EXTENDS Integers, Sequences

CONSTANTS PartSize,           \* opts.PartSize after NewWriter
          ThresholdOptions,   \* opts.SmallObjectThreshold as callers set it
          Lengths,            \* the values of len(p) in calls of Write
          MaxBytes            \* bound: no Write is called beyond this total

ASSUME PartSizeAssumption == PartSize \in Nat \ {0}
ASSUME OptionsAssumption == /\ ThresholdOptions \subseteq Int
                            /\ Lengths \subseteq Nat \ {0}
                            /\ MaxBytes \in Nat

\* NewWriter: zero selects PartSize; any other value is taken as it is.
SmallObjectThreshold(option) == IF option = 0 THEN PartSize ELSE option

VARIABLES
    threshold,   \* opts.SmallObjectThreshold after NewWriter
    abortFails,  \* whether the service's Abort may fail in this behaviour
    pc,          \* "ready" between calls, or the place in the running call
    pending,     \* len(p) of the running Write
    written,     \* bytes of the Write calls that returned without an error
    drained,     \* bytes taken off the front of w.buf
    buf,         \* len(w.buf)
    upload,      \* w.upload # nil
    parts,       \* w.parts
    nextPart,    \* w.nextPart
    closed,      \* w.closed
    aborted,     \* w.aborted
    err,         \* w.err # nil
    remote,      \* the service: "none", "open", "done" or "aborted"
    object       \* the service: the committed parts, <<>> if there is none

writer == <<pending, written, drained, buf, upload, parts, nextPart>>
flags == <<closed, aborted, err>>
params == <<threshold, abortFails>>
vars == <<params, pc, writer, flags, remote, object>>

PartAt(num, from, len) == [num |-> num, from |-> from, len |-> len]

Init == /\ threshold \in {SmallObjectThreshold(o) : o \in ThresholdOptions}
        /\ abortFails \in BOOLEAN
        /\ pc = "ready"
        /\ pending = 0
        /\ written = 0
        /\ drained = 0
        /\ buf = 0
        /\ upload = FALSE
        /\ parts = <<>>
        /\ nextPart = 1
        /\ closed = FALSE
        /\ aborted = FALSE
        /\ err = FALSE
        /\ remote = "none"
        /\ object = <<>>

-----------------------------------------------------------------------------
(* Write.  Calls that return at once (closed, aborted, after an error, or  *)
(* with no bytes) change nothing.                                          *)

Write(n) == /\ pc = "ready"
            /\ ~closed /\ ~aborted /\ ~err
            /\ written + n <= MaxBytes
            /\ pc' = "write"
            /\ pending' = n
            /\ buf' = buf + n
            /\ UNCHANGED <<params, written, drained, upload, parts, nextPart, flags,
                           remote, object>>

\* for len(w.buf) >= w.opts.PartSize
MustFlush == pc = "write" /\ buf >= PartSize

WriteReturns == /\ pc = "write"
                /\ buf < PartSize
                /\ pc' = "ready"
                /\ written' = written + pending
                /\ pending' = 0
                /\ UNCHANGED <<params, drained, buf, upload, parts, nextPart, flags,
                               remote, object>>

\* The error is kept in w.err, and Write returns 0.
WriteFails == /\ pc' = "ready"
              /\ pending' = 0
              /\ err' = TRUE
              /\ UNCHANGED <<written, closed, aborted>>

\* An upload that a failed Initiate leaves behind has no name here and is out
\* of the Writer's reach: it is not counted.
FlushInitiates == /\ MustFlush
                  /\ ~upload
                  /\ upload' = TRUE
                  /\ remote' = "open"
                  /\ UNCHANGED <<params, pc, pending, written, drained, buf, parts,
                                 nextPart, flags, object>>

FlushInitiateFails == /\ MustFlush
                      /\ ~upload
                      /\ WriteFails
                      /\ UNCHANGED <<params, drained, buf, upload, parts, nextPart,
                                     remote, object>>

\* MUTANT: the whole buffer is dropped with the chunk.
TakeBuffer == /\ drained' = drained + PartSize
              /\ buf' = 0

\* chunk := w.buf[:PartSize]; w.buf = w.buf[PartSize:], before the upload.
TakeChunk == /\ drained' = drained + PartSize
             /\ buf' = buf - PartSize

\* MUTANT: w.nextPart is not advanced.
FlushPartKeepsNumber ==
    /\ MustFlush
    /\ upload
    /\ TakeChunk
    /\ parts' = Append(parts, PartAt(nextPart, drained, PartSize))
    /\ UNCHANGED <<params, pc, pending, written, upload, nextPart, flags, remote, object>>

FlushPart == /\ MustFlush
             /\ upload
             /\ TakeChunk
             /\ parts' = Append(parts, PartAt(nextPart, drained, PartSize))
             /\ nextPart' = nextPart + 1
             /\ UNCHANGED <<params, pc, pending, written, upload, flags, remote, object>>

FlushPartFails == /\ MustFlush
                  /\ upload
                  /\ TakeChunk
                  /\ WriteFails
                  /\ UNCHANGED <<params, upload, parts, nextPart, remote, object>>

-----------------------------------------------------------------------------
(* Abort at the service, which may fail.                                   *)

ServiceAborts == \/ remote = "open" /\ remote' = "aborted"
                 \/ (remote # "open" \/ abortFails) /\ UNCHANGED remote

(* Close.  A second Close returns nil and changes nothing.                 *)

CloseCall == pc = "ready" /\ ~closed /\ closed' = TRUE

CloseAborted == /\ CloseCall
                /\ aborted
                /\ UNCHANGED <<params, pc, writer, aborted, err, remote, object>>

\* MUTANT: the upload is left behind after a sticky error.
CloseKeepsUpload == /\ CloseCall
                    /\ ~aborted
                    /\ err
                    /\ UNCHANGED <<params, pc, writer, aborted, err, remote, object>>

CloseAfterError == /\ CloseCall
                   /\ ~aborted
                   /\ err
                   /\ IF upload THEN ServiceAborts ELSE UNCHANGED remote
                   /\ UNCHANGED <<params, pc, writer, aborted, err, object>>

FitsPut == ~upload /\ buf <= threshold

\* MUTANT: Close does not look at the sticky error.
ClosePutAnyway == /\ CloseCall
                  /\ ~aborted
                  /\ FitsPut
                  /\ object' = <<PartAt(1, drained, buf)>>
                  /\ UNCHANGED <<params, pc, writer, aborted, err, remote>>

ClosePut == /\ CloseCall
            /\ ~aborted /\ ~err
            /\ FitsPut
            /\ \/ object' = <<PartAt(1, drained, buf)>>
               \/ UNCHANGED object           \* Put fails
            /\ UNCHANGED <<params, pc, writer, aborted, err, remote>>

CloseMultipart == /\ CloseCall
                  /\ ~aborted /\ ~err
                  /\ ~FitsPut
                  /\ pc' = IF upload THEN "last" ELSE "initiate"
                  /\ UNCHANGED <<params, writer, aborted, err, remote, object>>

CloseInitiates == /\ pc = "initiate"
                  /\ pc' = "last"
                  /\ upload' = TRUE
                  /\ remote' = "open"
                  /\ UNCHANGED <<params, pending, written, drained, buf, parts,
                                 nextPart, flags, object>>

CloseInitiateFails == /\ pc = "initiate"
                      /\ pc' = "ready"
                      /\ UNCHANGED <<params, writer, flags, remote, object>>

\* MUTANT: a full part is drained, however much is left.
LastPartFull == /\ pc = "last"
                /\ pc' = "complete"
                /\ IF buf > 0
                   THEN /\ parts' = Append(parts, PartAt(nextPart, drained, buf))
                        /\ drained' = drained + buf
                        /\ buf' = buf - PartSize
                   ELSE UNCHANGED <<parts, drained, buf>>
                /\ UNCHANGED <<params, pending, written, upload, nextPart, flags, remote,
                               object>>

\* The rest of the buffer, if any, is the last part.
LastPart == /\ pc = "last"
            /\ pc' = "complete"
            /\ IF buf > 0
               THEN /\ parts' = Append(parts, PartAt(nextPart, drained, buf))
                    /\ drained' = drained + buf
                    /\ buf' = 0
               ELSE UNCHANGED <<parts, drained, buf>>
            /\ UNCHANGED <<params, pending, written, upload, nextPart, flags, remote,
                           object>>

LastPartFails == /\ pc = "last"
                 /\ buf > 0
                 /\ pc' = "ready"
                 /\ ServiceAborts
                 /\ UNCHANGED <<params, writer, flags, object>>

\* The service refuses an empty list of parts.
Commits == /\ remote = "open"
           /\ parts # <<>>
           /\ remote' = "done"
           /\ object' = parts

Complete == /\ pc = "complete"
            /\ Commits
            /\ pc' = "ready"
            /\ UNCHANGED <<params, writer, flags>>

\* MUTANT: Complete is tried again for ever.
CompleteRetries == /\ pc = "complete"
                   /\ pc' = "last"
                   /\ UNCHANGED <<params, writer, flags, remote, object>>

\* Close returns an error; the service may have committed all the same.
CompleteFails == /\ pc = "complete"
                 /\ pc' = "ready"
                 /\ Commits \/ UNCHANGED <<remote, object>>
                 /\ UNCHANGED <<params, writer, flags>>

-----------------------------------------------------------------------------
(* Abort.  A second Abort returns nil and changes nothing.                 *)

Abort == /\ pc = "ready"
         /\ ~aborted
         /\ aborted' = TRUE
         /\ IF upload THEN ServiceAborts ELSE UNCHANGED remote
         /\ UNCHANGED <<params, pc, writer, closed, err, object>>

\* Closed and aborted: every further call returns at once.
Spent == pc = "ready" /\ closed /\ aborted /\ UNCHANGED vars

\* The steps inside a call that has begun.
Step == \/ WriteReturns
        \/ FlushInitiates \/ FlushInitiateFails
        \/ FlushPart \/ FlushPartFails
        \/ CloseInitiates \/ CloseInitiateFails
        \/ LastPart \/ LastPartFails
        \/ Complete \/ CompleteFails

Close == CloseAborted \/ CloseAfterError \/ ClosePut \/ CloseMultipart

Next == \/ \E n \in Lengths : Write(n)
        \/ Close
        \/ Abort
        \/ Step
        \/ Spent

Spec == Init /\ [][Next]_vars

\* The service answers every request, with a result or an error.
FairSpec == Spec /\ WF_vars(Step)

-----------------------------------------------------------------------------
(* Properties.                                                             *)

PartType == [num : Nat, from : Nat, len : Nat]

TypeOK == /\ threshold \in Int
          /\ abortFails \in BOOLEAN
          /\ pc \in {"ready", "write", "initiate", "last", "complete"}
          /\ pending \in Nat
          /\ written \in Nat
          /\ drained \in Nat
          /\ buf \in Nat
          /\ upload \in BOOLEAN
          /\ parts \in Seq(PartType)
          /\ nextPart \in Nat
          /\ closed \in BOOLEAN
          /\ aborted \in BOOLEAN
          /\ err \in BOOLEAN
          /\ remote \in {"none", "open", "done", "aborted"}
          /\ object \in Seq(PartType)

\* The parts ps are numbered 1, 2, ... and lie end to end from position 0;
\* each but the last has exactly PartSize bytes.
Tiles(ps) ==
    \A k \in DOMAIN ps :
        /\ ps[k].num = k
        /\ ps[k].from = (k - 1) * PartSize
        /\ ps[k].len <= PartSize \/ Len(ps) = 1
        /\ k < Len(ps) => ps[k].len = PartSize

EndOf(p) == p.from + p.len

\* What is committed is what was written: all bytes of the Write calls that
\* succeeded, in order, none twice and none of a Write that failed, in parts
\* a service accepts.
CommittedIsWritten ==
    object # <<>> => Tiles(object) /\ EndOf(object[Len(object)]) = written

\* No byte is lost on the way: what succeeded is in the parts or the buffer.
NoByteLost ==
    ~err => /\ written + pending = drained + buf
            /\ parts # <<>> => EndOf(parts[Len(parts)]) = drained
            /\ parts = <<>> => drained = 0

\* After an Abort, or a Write that failed, nothing is committed any more; and
\* nothing is committed twice.
CommitRule ==
    [][object' # object => ~aborted /\ ~err /\ object = <<>>]_vars

\* A Writer that is closed or aborted leaves no upload open at the service,
\* as long as the service's Abort works, except when Complete itself failed;
\* then everything is uploaded and a call of Abort still releases it.
ClosedReleases ==
    ~abortFails /\ pc = "ready" /\ remote = "open" /\ (closed \/ aborted)
        => ~aborted /\ (closed => ~err /\ buf = 0)

\* Every call returns: the loop of Write ends.
CallReturns == pc # "ready" ~> pc = "ready"

-----------------------------------------------------------------------------
(* The inductive invariant behind the safety properties.                   *)

\* The part numbers and positions of ps are those of full parts from the
\* front of the stream.
Full(ps) == \A k \in DOMAIN ps : ps[k] = PartAt(k, (k - 1) * PartSize, PartSize)

\* Where a call is, and what the flags and the upload are there.
FlowInv ==
    /\ pc = "write" => ~closed /\ ~aborted /\ ~err
    /\ pc # "write" => pending = 0
    /\ pc \in {"initiate", "last", "complete"} =>
           closed /\ ~aborted /\ ~err /\ object = <<>>
    /\ pc = "initiate" => ~upload
    /\ pc \in {"last", "complete"} => upload
    /\ object # <<>> => closed
    /\ ~upload => parts = <<>> /\ drained = 0 /\ remote = "none"

\* Further parts may follow the ones sent so far.
Sending == ~closed \/ pc \in {"initiate", "last"}

\* Until the last part, the parts are full and the buffer holds what follows
\* them; with the last part, they hold the whole stream.
BytesInv ==
    /\ NoByteLost
    /\ ~err /\ pc # "write" => buf < PartSize
    /\ Sending => Full(parts) /\ nextPart = Len(parts) + 1
    /\ Sending /\ ~err => drained = Len(parts) * PartSize
    /\ pc = "complete" => Tiles(parts) /\ buf = 0
    /\ CommittedIsWritten

IInv == TypeOK /\ FlowInv /\ BytesInv /\ ClosedReleases
=============================================================================
