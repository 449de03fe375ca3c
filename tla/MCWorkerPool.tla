---------------------------- MODULE MCWorkerPool ----------------------------
(***************************************************************************)
(* runWorkers on a body of three parts, the last one short, with two       *)
(* workers: fewer workers than parts, so that jobCh blocks, and more than  *)
(* one, so that a failure meets a sibling.  Every set of numbers up to 4   *)
(* is tried as the resume payload; part 4 is left over from a longer body. *)
(***************************************************************************)
EXTENDS WorkerPool

CONSTANTS w1, w2

MCWorkers == {w1, w2}
MCPayloadParts == 1 .. 4
=============================================================================
