----------------------------- MODULE WorkerFleet -----------------------------
(***************************************************************************)
(* The execution core: orbiter.worker.main with the execution guard, the   *)
(* fenced lease, the job repository and the broker's work queue.  Every    *)
(* await of Worker.handle is one step of its worker, so workers interleave *)
(* with each other, with expiring keys, with AckWait and with crashes      *)
(* between any two calls.                                                  *)
(***************************************************************************)
EXTENDS JobRepo, JetStream, KeyValueStore

CONSTANTS
    Worker,     \* worker_id of every process ever started: a restart is a new id
    Poison,     \* jobs whose payload says poison
    Mortal,     \* workers that may be killed (chaos button, node loss)
    Drained,    \* workers that may receive SIGTERM
    Punctual    \* TRUE: a live worker always finishes a delivery inside
                \* lease_ttl_s (and so inside ack_wait_s)

ASSUME FleetAssumption ==
    /\ Poison \subseteq Job
    /\ Mortal \subseteq Worker
    /\ Drained \subseteq Worker
    /\ Punctual \in BOOLEAN

VARIABLES
    pc,        \* the await each worker is about to make
    msg,       \* the message it handles, NoMsg between deliveries
    attempt,   \* num_delivered of that delivery
    token,     \* its lease's token, NoToken while it holds none
    shutdown,  \* workers whose shutdown event is set
    claim,     \* orbiter:exec:<job>:claim
    done,      \* jobs whose orbiter:exec:<job>:done marker is live
    lease,     \* orbiter:lease:<job>
    counter    \* orbiter:lease:<job>:token

localVars == <<msg, attempt, token>>
kvVars == <<claim, done, lease, counter>>
vars == <<jobs, job_events, stream, advisories, pc, msg, attempt, token,
          shutdown, claim, done, lease, counter>>

NoMsg == 0

\* Control points, named for the next call.  "fail" is the except
\* SimulatedFailure block; "unwind" is the finally block of a handler that
\* leaves with an exception nobody catches.
Guarding == {"received", "claim", "incr", "acquire"}
Leased == {"start", "execute", "complete", "mark_done", "unclaim", "fail", "unlock", "unwind"}
Replying == {"release_nak", "release_term", "ack", "nak", "term"}
Exited == {"dead", "stopped"}
PC == {"idle", "fetching"} \union Guarding \union Leased \union Replying \union Exited

JobOf(w) == stream[msg[w]].job

\* f"{worker_id}:{attempt}", the value of the claim.
Delivery(w) == <<w, attempt[w]>>

\* f"{holder}:{token}", the value of the lease.
HeldLease(w) == <<w, token[w]>>

Goto(w, label) == pc' = [pc EXCEPT ![w] = label]

\* The handler is left: nothing of the delivery stays in the process.
Leave(w, label) ==
    /\ Goto(w, label)
    /\ msg' = [msg EXCEPT ![w] = NoMsg]
    /\ attempt' = [attempt EXCEPT ![w] = 0]
    /\ token' = [token EXCEPT ![w] = NoToken]

\* A reply that returns past the finally block.
LeaveAtOnce(w) == Leave(w, "idle")

\* After a reply: through the finally block if a lease was taken.
AfterReply(w) ==
    IF token[w] = NoToken THEN Leave(w, "idle")
    ELSE Goto(w, "unlock") /\ UNCHANGED localVars

\* Every job has been submitted, and the fleet has just been started.
FreshStart ==
    /\ jobs = [j \in Job |-> SubmittedRow]
    /\ job_events = [j \in Job |-> SubmittedLog]
    /\ advisories = {}
    /\ pc = [w \in Worker |-> "idle"]
    /\ msg = [w \in Worker |-> NoMsg]
    /\ attempt = [w \in Worker |-> 0]
    /\ token = [w \in Worker |-> NoToken]
    /\ shutdown = {}
    /\ claim = [j \in Job |-> Absent]
    /\ done = {}
    /\ lease = [j \in Job |-> Absent]
    /\ counter = [j \in Job |-> 0]

\* Every job has been relayed; a relay that crashed between publish and mark has
\* left some jobs with more than one message.
Init ==
    /\ FreshStart
    /\ stream \in [Message -> [job : Job, num_delivered : {0}, status : {"ready"}]]
    /\ \A j \in Job : \E m \in Message : stream[m].job = j
------------------------------------------------------------------------------
(* Worker.run *)

BeginFetch(w) ==
    /\ pc[w] = "idle"
    /\ w \notin shutdown
    /\ Goto(w, "fetching")
    /\ UNCHANGED <<repoVars, brokerVars, localVars, kvVars, shutdown>>

FetchTimeout(w) ==
    /\ pc[w] = "fetching"
    /\ Goto(w, "idle")
    /\ UNCHANGED <<repoVars, brokerVars, localVars, kvVars, shutdown>>

\* A fetch in progress is answered even if shutdown was requested meanwhile.
Fetch(w, m) ==
    /\ pc[w] = "fetching"
    /\ deliver(m)
    /\ Goto(w, "received")
    /\ msg' = [msg EXCEPT ![w] = m]
    /\ attempt' = [attempt EXCEPT ![w] = stream[m].num_delivered + 1]
    /\ UNCHANGED <<repoVars, kvVars, token, shutdown>>

Stop(w) ==
    /\ pc[w] = "idle"
    /\ w \in shutdown
    /\ Goto(w, "stopped")
    /\ UNCHANGED <<repoVars, brokerVars, localVars, kvVars, shutdown>>

request_shutdown(w) ==
    /\ w \in Drained \ shutdown
    /\ pc[w] \notin Exited
    /\ shutdown' = shutdown \union {w}
    /\ UNCHANGED <<repoVars, brokerVars, localVars, kvVars, pc>>
------------------------------------------------------------------------------
(* Worker.handle: the guard and the lease *)

Poisoned(w) ==
    /\ pc[w] = "received"
    /\ JobOf(w) \in Poison
    /\ give_back(msg[w])
    /\ Leave(w, "idle")
    /\ UNCHANGED <<repoVars, kvVars, shutdown>>

\* try_claim, first command: GET of the done marker.
GetDone(w) ==
    /\ pc[w] = "received"
    /\ JobOf(w) \notin Poison
    /\ Goto(w, IF JobOf(w) \in done THEN "ack" ELSE "claim")
    /\ UNCHANGED <<repoVars, brokerVars, localVars, kvVars, shutdown>>

\* IN_PROGRESS treated as ALREADY_DONE.
AckInProgress(w) ==
    /\ pc[w] = "claim"
    /\ claim' = [claim EXCEPT ![JobOf(w)] = set_if_absent(@, Delivery(w))]
    /\ Goto(w, IF nx_reply(claim[JobOf(w)]) THEN "incr" ELSE "ack")
    /\ UNCHANGED <<repoVars, brokerVars, localVars, done, lease, counter, shutdown>>

\* IN_PROGRESS handled by trying again in place.
AwaitClaim(w) ==
    /\ pc[w] = "claim"
    /\ claim' = [claim EXCEPT ![JobOf(w)] = set_if_absent(@, Delivery(w))]
    /\ Goto(w, IF nx_reply(claim[JobOf(w)]) THEN "incr" ELSE "claim")
    /\ UNCHANGED <<repoVars, brokerVars, localVars, done, lease, counter, shutdown>>

\* try_claim, second command: SET NX of the claim.  Held by another delivery
\* means IN_PROGRESS, and the message is given back.
SetClaim(w) ==
    /\ pc[w] = "claim"
    /\ claim' = [claim EXCEPT ![JobOf(w)] = set_if_absent(@, Delivery(w))]
    /\ Goto(w, IF nx_reply(claim[JobOf(w)]) THEN "incr" ELSE "nak")
    /\ UNCHANGED <<repoVars, brokerVars, localVars, done, lease, counter, shutdown>>

\* LeaseManager.acquire, first command: INCR of the token counter.
IncrToken(w) ==
    /\ pc[w] = "incr"
    /\ counter' = [counter EXCEPT ![JobOf(w)] = @ + 1]
    /\ token' = [token EXCEPT ![w] = counter[JobOf(w)] + 1]
    /\ Goto(w, "acquire")
    /\ UNCHANGED <<repoVars, brokerVars, msg, attempt, claim, done, lease, shutdown>>

\* A busy lease bounced without releasing the claim.
BounceWithClaim(w) ==
    /\ pc[w] = "acquire"
    /\ lease' = [lease EXCEPT ![JobOf(w)] = set_if_absent(@, HeldLease(w))]
    /\ IF nx_reply(lease[JobOf(w)])
       THEN Goto(w, "start") /\ UNCHANGED token
       ELSE Goto(w, "nak") /\ token' = [token EXCEPT ![w] = NoToken]
    /\ UNCHANGED <<repoVars, brokerVars, msg, attempt, claim, done, counter, shutdown>>

\* LeaseManager.acquire, second command: SET NX of the lease.
SetLease(w) ==
    /\ pc[w] = "acquire"
    /\ lease' = [lease EXCEPT ![JobOf(w)] = set_if_absent(@, HeldLease(w))]
    /\ IF nx_reply(lease[JobOf(w)])
       THEN Goto(w, "start") /\ UNCHANGED token
       ELSE Goto(w, "release_nak") /\ token' = [token EXCEPT ![w] = NoToken]
    /\ UNCHANGED <<repoVars, brokerVars, msg, attempt, claim, done, counter, shutdown>>
------------------------------------------------------------------------------
(* Worker.handle: the try block *)

\* Exceptions of the repository swallowed.
CarryOn(w, event, next) == Goto(w, next)

\* Where the except clauses of the try block send a repository write: on to
\* the next statement, stand down, or terminate the obsolete delivery.
AfterWrite(w, event, next) ==
    LET verdict == Verdict(JobOf(w), event, token[w]) IN
    Goto(w, CASE verdict = "ok"              -> next
              [] verdict = "StaleLeaseError" -> "unlock"
              [] OTHER                       -> "release_term")

RecordStarted(w) ==
    /\ pc[w] = "start"
    /\ record_event(JobOf(w), "started", attempt[w], token[w])
    /\ AfterWrite(w, "started", "execute")
    /\ UNCHANGED <<brokerVars, localVars, kvVars, shutdown>>

\* execute: returns a result or raises SimulatedFailure.
Execute(w) ==
    /\ pc[w] = "execute"
    /\ \E label \in {"complete", "fail"} : Goto(w, label)
    /\ UNCHANGED <<repoVars, brokerVars, localVars, kvVars, shutdown>>

RecordCompleted(w) ==
    /\ pc[w] = "complete"
    /\ record_event(JobOf(w), "completed", attempt[w], token[w])
    /\ AfterWrite(w, "completed", "mark_done")
    /\ UNCHANGED <<brokerVars, localVars, kvVars, shutdown>>

\* A done marker keyed by the message instead of the job.
MarkMessage(w) ==
    /\ pc[w] = "mark_done"
    /\ done' = done \union {msg[w]}
    /\ Goto(w, "unclaim")
    /\ UNCHANGED <<repoVars, brokerVars, localVars, claim, lease, counter, shutdown>>

\* mark_done, first command.
SetDone(w) ==
    /\ pc[w] = "mark_done"
    /\ done' = done \union {JobOf(w)}
    /\ Goto(w, "unclaim")
    /\ UNCHANGED <<repoVars, brokerVars, localVars, claim, lease, counter, shutdown>>

\* mark_done, second command.
DropClaim(w) ==
    /\ pc[w] = "unclaim"
    /\ claim' = [claim EXCEPT ![JobOf(w)] = compare_and_delete(@, Delivery(w))]
    /\ Goto(w, "ack")
    /\ UNCHANGED <<repoVars, brokerVars, localVars, done, lease, counter, shutdown>>

\* The except SimulatedFailure block: a write that raises in there is caught by
\* none of the sibling clauses, runs the finally block and ends the process.
RecordFailure(w) ==
    LET retry == attempt[w] < MaxDeliver
        event == IF retry THEN "requeued" ELSE "failed"
    IN  /\ pc[w] = "fail"
        /\ record_event(JobOf(w), event, attempt[w], token[w])
        /\ Goto(w, IF Verdict(JobOf(w), event, token[w]) # "ok" THEN "unwind"
                   ELSE IF retry THEN "release_nak" ELSE "release_term")
        /\ UNCHANGED <<brokerVars, localVars, kvVars, shutdown>>
------------------------------------------------------------------------------
(* Worker.handle: giving the claim, the message and the lease back *)

release_claim(w) ==
    /\ pc[w] \in {"release_nak", "release_term"}
    /\ claim' = [claim EXCEPT ![JobOf(w)] = compare_and_delete(@, Delivery(w))]
    /\ Goto(w, IF pc[w] = "release_nak" THEN "nak" ELSE "term")
    /\ UNCHANGED <<repoVars, brokerVars, localVars, done, lease, counter, shutdown>>

Nak(w) ==
    /\ pc[w] = "nak"
    /\ give_back(msg[w])
    /\ AfterReply(w)
    /\ UNCHANGED <<repoVars, kvVars, shutdown>>

AckOrTerm(w) ==
    /\ pc[w] \in {"ack", "term"}
    /\ settle(msg[w])
    /\ AfterReply(w)
    /\ UNCHANGED <<repoVars, kvVars, shutdown>>

\* The finally block.
ReleaseLease(w) ==
    /\ pc[w] \in {"unlock", "unwind"}
    /\ lease' = [lease EXCEPT ![JobOf(w)] = compare_and_delete(@, HeldLease(w))]
    /\ Leave(w, IF pc[w] = "unlock" THEN "idle" ELSE "dead")
    /\ UNCHANGED <<repoVars, brokerVars, claim, done, counter, shutdown>>

\* _on_chaos_message or a node reclaim: the process ends at whatever await it is
\* in, and keys it holds are left to their time to live.  A store that cannot be
\* reached ends it too, through the finally block: if the lease is given back
\* there, that is seen as a death and a lease that expires at once.
Die(w) ==
    /\ w \in Mortal
    /\ pc[w] \notin Exited
    /\ Leave(w, "dead")
    /\ UNCHANGED <<repoVars, brokerVars, kvVars, shutdown>>
------------------------------------------------------------------------------
(* Time: AckWait and the keys' times to live *)

AckWaitExpires(m) ==
    /\ stream[m].status = "pending"
    /\ Punctual => \A w \in Worker : msg[w] # m
    /\ give_back(m)
    /\ UNCHANGED <<repoVars, pc, localVars, kvVars, shutdown>>

\* The claim of a delivery that is still being handled, by its owner.
ClaimInUse(j) ==
    \E w \in Worker : msg[w] # NoMsg /\ JobOf(w) = j /\ claim[j] = Delivery(w)

ClaimExpires(j) ==
    /\ claim[j] # Absent
    /\ Punctual => ~ClaimInUse(j)
    /\ claim' = [claim EXCEPT ![j] = Absent]
    /\ UNCHANGED <<repoVars, brokerVars, pc, localVars, done, lease, counter, shutdown>>

LeaseInUse(j) ==
    \E w \in Worker : msg[w] # NoMsg /\ JobOf(w) = j /\ lease[j] = HeldLease(w)

\* A worker's lease is set after its claim with the same time to live, so it
\* never expires before that claim.
LeaseExpires(j) ==
    /\ lease[j] # Absent
    /\ claim[j] # Absent => claim[j][1] # lease[j][1]
    /\ Punctual => ~LeaseInUse(j)
    /\ lease' = [lease EXCEPT ![j] = Absent]
    /\ UNCHANGED <<repoVars, brokerVars, pc, localVars, claim, done, counter, shutdown>>

DoneExpires(j) ==
    /\ j \in done
    /\ done' = done \ {j}
    /\ UNCHANGED <<repoVars, brokerVars, pc, localVars, claim, lease, counter, shutdown>>
------------------------------------------------------------------------------
\* The steps a running worker takes by itself.
Run(w) ==
    \/ BeginFetch(w) \/ FetchTimeout(w) \/ Stop(w)
    \/ Poisoned(w) \/ GetDone(w) \/ SetClaim(w) \/ IncrToken(w) \/ SetLease(w)
    \/ RecordStarted(w) \/ Execute(w) \/ RecordCompleted(w)
    \/ SetDone(w) \/ DropClaim(w) \/ RecordFailure(w)
    \/ release_claim(w) \/ Nak(w) \/ AckOrTerm(w) \/ ReleaseLease(w)

Next ==
    \/ \E w \in Worker :
          \/ Run(w)
          \/ \E m \in Message : Fetch(w, m)
          \/ request_shutdown(w) \/ Die(w)
    \/ \E m \in Message : AckWaitExpires(m)
    \/ \E j \in Job : ClaimExpires(j) \/ LeaseExpires(j) \/ DoneExpires(j)

Spec == Init /\ [][Next]_vars

\* A live process keeps running and keeps fetching, a fetch is answered when
\* messages keep being ready (nak delays are finite), and AckWait does run out.
Fairness ==
    /\ \A w \in Worker : WF_vars(Run(w))
    /\ \A w \in Worker : SF_vars(\E m \in Message : Fetch(w, m))
    /\ \A m \in Message : WF_vars(AckWaitExpires(m))

FairSpec == Spec /\ Fairness
------------------------------------------------------------------------------
(* Properties *)

\* Every variable stays in its type.
TypeOK ==
    /\ RepoTypeOK
    /\ stream \in [Message -> [job : Job, num_delivered : Nat, status : Status]]
    /\ advisories \subseteq Message
    /\ pc \in [Worker -> PC]
    /\ msg \in [Worker -> Message \union {NoMsg}]
    /\ attempt \in [Worker -> Nat]
    /\ token \in [Worker -> Nat]
    /\ shutdown \subseteq Worker
    /\ claim \in [Job -> {Absent} \union (Worker \X Nat)]
    /\ done \subseteq Job
    /\ lease \in [Job -> {Absent} \union (Worker \X Nat)]
    /\ counter \in [Job -> Nat]

Outcome == {"completed", "requeued", "failed"}

\* Fencing as the audit trail shows it (repo._apply_event): every recorded
\* outcome directly follows the STARTED of the same lease and the same delivery.
\* No paused or superseded worker ever closes an execution another one opened.
OutcomeFollowsOwnStart ==
    \A j \in Job : \A i \in 1..Len(job_events[j]) :
       job_events[j][i].event \in Outcome =>
          /\ i > 1
          /\ job_events[j][i-1] = [job_events[j][i] EXCEPT !.event = "started"]

\* A done marker, or a worker about to ack, means the job has SUCCEEDED
\* (handle acks a duplicate on the marker alone): no message is ever acked away
\* for a job that did not finish.
DoneMeansSucceeded ==
    /\ \A j \in done : jobs[j].state = "succeeded"
    /\ \A w \in Worker : pc[w] = "ack" => jobs[JobOf(w)].state = "succeeded"

\* A lease outlives its delivery only when the process died (the finally block
\* of handle, whichever clause was taken): a worker that is idle, drained or on
\* another job holds no lease.
NoLeakedLease ==
    \A j \in Job, w \in Worker :
       lease[j] # Absent /\ lease[j][1] = w /\ pc[w] # "dead" =>
          msg[w] # NoMsg /\ JobOf(w) = j /\ lease[j] = HeldLease(w)

\* A claim outlives its delivery only when the process died (every clause of
\* handle that gives the message back or settles it releases the claim first):
\* a redelivery never bounces off the claim of a worker that is doing nothing.
NoLeakedClaim ==
    \A j \in Job, w \in Worker :
       claim[j] # Absent /\ claim[j][1] = w /\ pc[w] # "dead" =>
          msg[w] # NoMsg /\ JobOf(w) = j /\ claim[j] = Delivery(w)

Carried(j) ==
    \E m \in Message :
       /\ stream[m].job = j
       /\ \/ stream[m].status \in {"ready", "pending"}
          \/ stream[m].status = "exhausted" /\ m \in advisories

\* No job is lost: a job that is neither finished nor dead-lettered still has a
\* message that will be delivered again, or whose advisory was raised
\* (state_machine.py: "At-least-once redelivery IS the lost-worker detector").
NoJobStranded ==
    \A j \in Job : jobs[j].state \in {"queued", "running"} => Carried(j)

\* No exception of the repository escapes handle (main.py, the except
\* IllegalTransition clause: "a state-machine surprise must never cost the
\* fleet").
NoSelfCrash == \A w \in Worker : pc[w] # "unwind"

\* Two deliveries of a job never execute at the same time (idempotency.py: "two
\* concurrent deliveries of the same job cannot both run").
OneExecutor ==
    \A v, w \in Worker :
       pc[v] = "execute" /\ pc[w] = "execute" /\ v # w => JobOf(v) # JobOf(w)

Settled(j) ==
    \/ is_terminal(jobs[j].state)
    \/ \A m \in Message : stream[m].job = j => stream[m].status \in {"exhausted", "gone"}

\* Every job is eventually finished for good, or all its messages are used up
\* and the dead-letter path owns it: kills of other workers, bounced deliveries
\* and failing attempts never keep one circulating forever (Worker.run,
\* MaxDeliver).
EveryJobSettles == \A j \in Job : <>[]Settled(j)
==============================================================================
