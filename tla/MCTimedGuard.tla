---------------------------- MODULE MCTimedGuard -----------------------------
(***************************************************************************)
(* TimedGuard for TLC, with the delays of worker/main.py in seconds.       *)
(***************************************************************************)
EXTENDS TimedGuard

\* rng.uniform(4.0, 9.0), at whole seconds.
UniformDelay == 4..9

\* min(2**attempt, 30)
RetryDelay == [n \in 1..MaxDeliver |-> IF 2 ^ n < 30 THEN 2 ^ n ELSE 30]
==============================================================================
