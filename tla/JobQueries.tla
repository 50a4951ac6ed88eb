----------------------------- MODULE JobQueries ------------------------------
(***************************************************************************)
(* What clients and operators of the API see of the job repository while   *)
(* others write it: GET /jobs/{id}, whose get_job makes two queries without *)
(* a transaction; GET /dlq; and POST /jobs/{id}/replay by operators who go *)
(* by a list that is out of date by the time they act.                     *)
(***************************************************************************)
EXTENDS JobRepo, FiniteSets

CONSTANTS
    Client,      \* pollers of GET /jobs/{id}
    Operator,    \* readers of GET /dlq, who replay what they find there
    Limit,       \* how many jobs GET /dlq shows at most (200)
    MaxToken,    \* bound on the lease tokens of writers
    MaxEvents    \* bound on the length of each log

ASSUME QueryAssumption == Limit \in Nat \ {0} /\ MaxToken \in Nat /\ MaxEvents \in Nat

VARIABLES
    updated,     \* the jobs by their updated_at, the latest last
    requeues,    \* outbox rows of replays, per job
    view,        \* the last answer to GET /jobs/{id}, per client
    listed       \* the last answer to GET /dlq, per operator

queryVars == <<jobs, job_events, updated, requeues, view, listed>>

NoJob == "none"
Unread == << >>
NoView == [job |-> NoJob, state |-> NoState, result |-> 0, events |-> Unread]

Orders == {s \in [1..Cardinality(Job) -> Job] : {s[i] : i \in DOMAIN s} = Job}

QueryInit ==
    /\ jobs = [j \in Job |-> SubmittedRow]
    /\ job_events = [j \in Job |-> SubmittedLog]
    /\ updated \in Orders
    /\ requeues = [j \in Job |-> 0]
    /\ view = [c \in Client |-> NoView]
    /\ listed = [o \in Operator |-> << >>]

\* updated_at = now() is the time at which the transaction began.  It may since
\* have waited for the lock on the row, so the job may take any place in the order.
Touch(j) ==
    LET Others(s) == SelectSeq(s, LAMBDA i : i # j) IN
    /\ updated' \in Orders
    /\ Others(updated') = Others(updated)

Bounded(j) == Len(job_events[j]) < MaxEvents
------------------------------------------------------------------------------
\* Workers write with the token of their lease, the dead-letter listener without.
Writes ==
    ({"started", "completed", "failed", "requeued"} \X (1..MaxToken))
        \union {<<"dead_lettered", NoToken>>}

Write(j, w) ==
    /\ Bounded(j)
    /\ Verdict(j, w[1], w[2]) = "ok"
    /\ record_event(j, w[1], 1, w[2])
    /\ Touch(j)
    /\ UNCHANGED <<requeues, view, listed>>

\* get_job, first query: the row.
SelectRow(c, j) ==
    /\ view[c].events # Unread \/ view[c] = NoView
    /\ view' = [view EXCEPT ![c] = [job |-> j, state |-> jobs[j].state,
                                    result |-> jobs[j].result, events |-> Unread]]
    /\ UNCHANGED <<jobs, job_events, updated, requeues, listed>>

\* The log of a replica that lags by one commit.
LaggingEvents(c) ==
    /\ view[c] # NoView /\ view[c].events = Unread
    /\ view' = [view EXCEPT ![c].events =
          SubSeq(job_events[view[c].job], 1, Len(job_events[view[c].job]) - 1)]
    /\ UNCHANGED <<jobs, job_events, updated, requeues, listed>>

\* get_job, second query: the log, ORDER BY id.  The lock on the row makes that
\* the order in which the events were committed.
SelectEvents(c) ==
    /\ view[c] # NoView /\ view[c].events = Unread
    /\ view' = [view EXCEPT ![c].events = job_events[view[c].job]]
    /\ UNCHANGED <<jobs, job_events, updated, requeues, listed>>

Dead(j) == jobs[j].state = "dead_letter"

\* The last n elements of a sequence, the last one first.
Latest(seq, n) ==
    [i \in 1..(IF Len(seq) < n THEN Len(seq) ELSE n) |-> seq[Len(seq) + 1 - i]]

\* ORDER BY updated_at DESC LIMIT 200
list_jobs_by_state == Latest(SelectSeq(updated, Dead), Limit)

\* The jobs on an operator's list.
Shown(o) == {listed[o][i] : i \in 1..Len(listed[o])}

GetDlq(o) ==
    /\ listed' = [listed EXCEPT ![o] = list_jobs_by_state]
    /\ UNCHANGED <<jobs, job_events, updated, requeues, view>>

\* A replay that trusts the list: the row is not asked again.
ReplayAsListed(o, j) ==
    /\ j \in Shown(o) /\ Bounded(j)
    /\ jobs' = [jobs EXCEPT ![j].state = "queued"]
    /\ job_events' = [job_events EXCEPT ![j] =
          Append(@, [event |-> "replayed", attempt |-> 0, fence_token |-> NoToken])]
    /\ Touch(j)
    /\ requeues' = [requeues EXCEPT ![j] = @ + 1]
    /\ UNCHANGED <<view, listed>>

\* POST /jobs/{id}/replay of a job the operator was shown: REPLAYED and the outbox
\* row commit together.  A job no longer in DEAD_LETTER answers 409.
PostReplay(o, j) ==
    /\ j \in Shown(o) /\ Bounded(j)
    /\ Verdict(j, "replayed", NoToken) = "ok"
    /\ record_event(j, "replayed", 0, NoToken)
    /\ Touch(j)
    /\ requeues' = [requeues EXCEPT ![j] = @ + 1]
    /\ UNCHANGED <<view, listed>>

QueryNext ==
    \/ \E j \in Job, w \in Writes : Write(j, w)
    \/ \E c \in Client : SelectEvents(c) \/ \E j \in Job : SelectRow(c, j)
    \/ \E o \in Operator : GetDlq(o) \/ \E j \in Job : PostReplay(o, j)

QuerySpec == QueryInit /\ [][QueryNext]_queryVars
------------------------------------------------------------------------------
(* Properties *)

\* An answer's state is the fold of a part of the log from the start, of all of it
\* when the job is finished, and a result goes with success alone.
Backed(answer, log) ==
    /\ \E n \in 1..Len(log) :
          /\ answer.state = replay(EventTypes(SubSeq(log, 1, n)))
          /\ is_terminal(answer.state) => n = Len(log)
    /\ answer.state = "succeeded" <=> answer.result # 0

\* An answer to GET /jobs/{id} mixes two moments, but never shows a state its own
\* events do not account for: the row comes first, so the events reach at least
\* as far, and of a finished job no further (test_end_to_end.py waits for
\* "succeeded" and asserts event_names[-1] == "completed").
AnswerIsBacked ==
    \A c \in Client : view[c].events # Unread => Backed(view[c], view[c].events)

HowOften(log, event) == Cardinality({i \in 1..Len(log) : log[i].event = event})

\* However old the lists operators act on, every quarantine but the present one was
\* lifted exactly once, and every replay queues exactly one message.
ReplayOncePerQuarantine ==
    \A j \in Job :
       /\ HowOften(job_events[j], "dead_lettered") =
             HowOften(job_events[j], "replayed") + (IF Dead(j) THEN 1 ELSE 0)
       /\ requeues[j] = HowOften(job_events[j], "replayed")
==============================================================================
