---------------------------- MODULE MCWorkerFleet ----------------------------
(***************************************************************************)
(* WorkerFleet for TLC: interchangeable worker ids where the run's Mortal  *)
(* and Drained sets treat all workers alike.                               *)
(***************************************************************************)
EXTENDS WorkerFleet, TLC

WorkerSymmetry == Permutations(Worker)
==============================================================================
