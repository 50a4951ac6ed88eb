---------------------------- MODULE JobLifecycle -----------------------------
(***************************************************************************)
(* What the platform promises the client of a job: it is worked on until   *)
(* it succeeds, fails or is quarantined; only an operator takes it out of  *)
(* quarantine; a result appears exactly when it succeeds and stays; and no *)
(* job is worked on for ever.                                              *)
(***************************************************************************)
EXTENDS Naturals

CONSTANT Job

VARIABLES status,   \* of each job
          result    \* of each job, 0 while it has none

vars == <<status, result>>

Init ==
    /\ status = [j \in Job |-> "active"]
    /\ result = [j \in Job |-> 0]

Succeed(j) ==
    /\ status[j] = "active" /\ result[j] = 0
    /\ status' = [status EXCEPT ![j] = "succeeded"]
    /\ result'[j] # 0 /\ result' = [result EXCEPT ![j] = result'[j]]

GiveUp(j) ==
    /\ status[j] = "active"
    /\ \E verdict \in {"failed", "quarantined"} : status' = [status EXCEPT ![j] = verdict]
    /\ UNCHANGED result

Replay(j) ==
    /\ status[j] = "quarantined"
    /\ status' = [status EXCEPT ![j] = "active"]
    /\ UNCHANGED result

Next == \E j \in Job : Succeed(j) \/ GiveUp(j) \/ Replay(j)

Safety == Init /\ [][Next]_vars

Spec == Safety /\ \A j \in Job : []<>(status[j] # "active")
==============================================================================
