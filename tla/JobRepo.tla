------------------------------- MODULE JobRepo -------------------------------
(***************************************************************************)
(* orbiter.db.repo: the jobs projection and the append-only job_events     *)
(* log.  Each operation is one Postgres transaction over one job row, held *)
(* FOR UPDATE, hence one atomic step.                                      *)
(***************************************************************************)
EXTENDS JobStateMachine

CONSTANT Job    \* job ids

VARIABLES
    jobs,        \* one row per job
    job_events   \* the log of each job, oldest first

repoVars == <<jobs, job_events>>

\* The columns of jobs.  result is NULL (0) or the token whose execution
\* produced the stored result.
JobRow == [state : JobState, attempts : Nat, fence_token : Nat, result : Nat]

\* A row of job_events.  fence_token is not a column: it records which lease
\* the writer presented (NoToken for a writer that presents none).
EventRow == [event : EventType, attempt : Nat, fence_token : Nat]

\* The argument fence_token=None; real tokens start at 1.
NoToken == 0

\* A job right after submit_job commits: SUBMITTED and ENQUEUED are logged and
\* the projection says QUEUED.
SubmittedRow == [state |-> "queued", attempts |-> 0, fence_token |-> 0, result |-> 0]

SubmittedLog ==
    << [event |-> "submitted", attempt |-> 0, fence_token |-> NoToken],
       [event |-> "enqueued", attempt |-> 0, fence_token |-> NoToken] >>

\* The token the UPDATE compares and stores.
EffectiveToken(j, tok) == IF tok = NoToken THEN jobs[j].fence_token ELSE tok

\* A verdict without the WHERE clause on fence_token.
UnfencedVerdict(j, event, tok) ==
    IF apply(jobs[j].state, event) = IllegalTransition THEN IllegalTransition ELSE "ok"

\* How the transaction of _apply_event ends: apply judges the transition first,
\* the fencing WHERE clause second.
Verdict(j, event, tok) ==
    IF apply(jobs[j].state, event) = IllegalTransition THEN IllegalTransition
    ELSE IF jobs[j].fence_token > EffectiveToken(j, tok) THEN "StaleLeaseError"
    ELSE "ok"

Greatest(a, b) == IF a >= b THEN a ELSE b

\* The row the UPDATE leaves.
UpdatedRow(j, event, attempt, tok) ==
    [state       |-> apply(jobs[j].state, event),
     attempts    |-> Greatest(jobs[j].attempts, attempt),
     fence_token |-> EffectiveToken(j, tok),
     result      |-> IF event = "completed" THEN tok ELSE jobs[j].result]

\* record_event with the INSERT outside the transaction: it survives the
\* rollback of the UPDATE.
LogRegardless(j, event, attempt, tok) ==
    /\ jobs' = IF Verdict(j, event, tok) = "ok"
               THEN [jobs EXCEPT ![j] = UpdatedRow(j, event, attempt, tok)]
               ELSE jobs
    /\ job_events' = [job_events EXCEPT ![j] =
          Append(@, [event |-> event, attempt |-> attempt, fence_token |-> tok])]

\* record_event: the UPDATE and the INSERT commit together, or an exception
\* rolls both back.
record_event(j, event, attempt, tok) ==
    IF Verdict(j, event, tok) = "ok"
    THEN /\ jobs' = [jobs EXCEPT ![j] = UpdatedRow(j, event, attempt, tok)]
         /\ job_events' = [job_events EXCEPT ![j] =
               Append(@, [event |-> event, attempt |-> attempt, fence_token |-> tok])]
    ELSE UNCHANGED repoVars

RepoTypeOK ==
    /\ jobs \in [Job -> JobRow]
    /\ job_events \in [Job -> Seq(EventRow)]

EventTypes(log) == [i \in 1..Len(log) |-> log[i].event]

\* The state column of jobs is replay(events) (model.py: "a cache of
\* replay(events)"): whatever deliveries, crashes and stale writers did, the log
\* folds without an illegal step, and to the stored state.
ProjectionIsReplay ==
    \A j \in Job : jobs[j].state = replay(EventTypes(job_events[j]))
==============================================================================
