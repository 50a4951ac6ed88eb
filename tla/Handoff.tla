------------------------------ MODULE Handoff --------------------------------
(***************************************************************************)
(* What submission promises: a submission becomes at most one job however  *)
(* often its client repeats it, and every job reaches the work queue, once *)
(* or more often.                                                          *)
(***************************************************************************)
EXTENDS Naturals

CONSTANTS Job,          \* the job ids the requests draw
          KeyOf         \* the idempotency key of each

VARIABLES accepted,     \* the jobs that exist
          queued        \* how often each was put on the work queue

vars == <<accepted, queued>>

Init == accepted = {} /\ queued = [j \in Job |-> 0]

Accept(j) ==
    /\ \A k \in accepted : KeyOf[k] # KeyOf[j]
    /\ accepted' = accepted \union {j}
    /\ UNCHANGED queued

HandOver(j) ==
    /\ j \in accepted
    /\ queued' = [queued EXCEPT ![j] = @ + 1]
    /\ UNCHANGED accepted

Next == \E j \in Job : Accept(j) \/ HandOver(j)

Safety == Init /\ [][Next]_vars

Spec == Safety /\ \A j \in Job : WF_vars(queued[j] = 0 /\ HandOver(j))
==============================================================================
