---------------------------- MODULE MCDeadLetter -----------------------------
(***************************************************************************)
(* DeadLetter for TLC: interchangeable workers and listeners where the     *)
(* run's Mortal and Drained sets treat all workers alike.                  *)
(***************************************************************************)
EXTENDS DeadLetter, TLC

ProcessSymmetry == Permutations(Worker) \union Permutations(Listener)
==============================================================================
