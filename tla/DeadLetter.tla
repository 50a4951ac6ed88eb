----------------------------- MODULE DeadLetter ------------------------------
(***************************************************************************)
(* The whole life of a job after submission: the fleet of WorkerFleet, the *)
(* dead-letter listener (orbiter.dlq.listener) that quarantines exhausted  *)
(* messages, and the operator who replays quarantined jobs through the     *)
(* API.  Every await of quarantine is one step, so listeners interleave    *)
(* with each other, with the workers and with the operator, and may crash  *)
(* between any two calls.                                                  *)
(***************************************************************************)
EXTENDS WorkerFleet

CONSTANTS
    Listener,     \* listener processes; one that died is started again
    Flaky,        \* TRUE: a call quarantine makes may raise (broker, database)
    MaxCrashes    \* bound on listener crashes

ASSUME ListenerAssumption == Flaky \in BOOLEAN /\ MaxCrashes \in Nat

VARIABLES
    lpc,          \* the await each listener is about to make
    adv,          \* the advisory it handles, by its stream_seq
    acked,        \* advisories acked on the durable consumer
    copied,       \* messages in the DLQ stream (deduped by their Nats-Msg-Id)
    outbox,       \* outbox rows of replays, per job, the relay has not published
    crashes

dlqVars == <<lpc, adv, acked, copied, outbox, crashes>>
allVars == <<vars, dlqVars>>

Quarantining == {"get", "copy", "record", "delete"}
LPC == {"idle", "ack"} \union Quarantining

LGoto(l, label) == lpc' = [lpc EXCEPT ![l] = label]

\* Each job has at least one message in the stream; the sequence numbers still
\* unsent bound how often it can be replayed.
DInit ==
    /\ FreshStart
    /\ stream \in [Message -> [job : Job, num_delivered : {0}, status : {"unsent", "ready"}]]
    /\ \A j \in Job : \E m \in Message : stream[m].job = j /\ stream[m].status = "ready"
    /\ lpc = [l \in Listener |-> "idle"]
    /\ adv = [l \in Listener |-> NoMsg]
    /\ acked = {} /\ copied = {}
    /\ outbox = [j \in Job |-> 0]
    /\ crashes = 0
------------------------------------------------------------------------------
(* run, quarantine *)

\* An advisory acked on receipt.
AckOnReceipt(l, m) ==
    /\ lpc[l] = "idle"
    /\ m \in advisories \ acked
    /\ LGoto(l, "get")
    /\ adv' = [adv EXCEPT ![l] = m]
    /\ acked' = acked \union {m}
    /\ UNCHANGED <<vars, copied, outbox, crashes>>

\* The durable pull consumer hands out an advisory until it is acked: again
\* after a crash, and to a second listener once its AckWait has run out.
FetchAdvisory(l, m) ==
    /\ lpc[l] = "idle"
    /\ m \in advisories \ acked
    /\ LGoto(l, "get")
    /\ adv' = [adv EXCEPT ![l] = m]
    /\ UNCHANGED <<vars, acked, copied, outbox, crashes>>

\* js.get_msg: raises when the message is gone, which ends the quarantine.
GetMsg(l) ==
    /\ lpc[l] = "get"
    /\ LGoto(l, IF stream[adv[l]].status = "gone" THEN "ack" ELSE "copy")
    /\ UNCHANGED <<vars, adv, acked, copied, outbox, crashes>>

\* A quarantine that goes on to delete without publishing the copy.
SkipCopy(l) ==
    /\ lpc[l] = "copy"
    /\ LGoto(l, "record")
    /\ UNCHANGED <<vars, adv, acked, copied, outbox, crashes>>

\* js.publish to the DLQ stream.
CopyMsg(l) ==
    /\ lpc[l] = "copy"
    /\ copied' = copied \union {adv[l]}
    /\ LGoto(l, "record")
    /\ UNCHANGED <<vars, adv, acked, outbox, crashes>>

\* DEAD_LETTERED written without asking the state machine.
ForceDeadLettered(l) ==
    LET j == stream[adv[l]].job IN
    /\ lpc[l] = "record"
    /\ jobs' = [jobs EXCEPT ![j].state = "dead_letter"]
    /\ UNCHANGED <<job_events, brokerVars, pc, localVars, kvVars, shutdown>>
    /\ LGoto(l, "delete")
    /\ UNCHANGED <<adv, acked, copied, outbox, crashes>>

\* record_event without a token: legal or not, the quarantine goes on.
RecordDeadLettered(l) ==
    LET m == stream[adv[l]] IN
    /\ lpc[l] = "record"
    /\ record_event(m.job, "dead_lettered", m.num_delivered, NoToken)
    /\ LGoto(l, "delete")
    /\ UNCHANGED <<brokerVars, pc, localVars, kvVars, shutdown>>
    /\ UNCHANGED <<adv, acked, copied, outbox, crashes>>

\* js.delete_msg.  Raising because the message is gone leads to the ack too.
DeleteMsg(l) ==
    /\ lpc[l] = "delete"
    /\ settle(adv[l])
    /\ LGoto(l, "ack")
    /\ UNCHANGED <<repoVars, pc, localVars, kvVars, shutdown>>
    /\ UNCHANGED <<adv, acked, copied, outbox, crashes>>

\* The ack of an advisory whose number is already forgotten.
AckTooLate(l) ==
    /\ lpc[l] = "ack"
    /\ acked' = acked \union {NoMsg}
    /\ LGoto(l, "idle")
    /\ adv' = [adv EXCEPT ![l] = NoMsg]
    /\ UNCHANGED <<vars, copied, outbox, crashes>>

AckAdvisory(l) ==
    /\ lpc[l] = "ack"
    /\ acked' = acked \union {adv[l]}
    /\ LGoto(l, "idle")
    /\ adv' = [adv EXCEPT ![l] = NoMsg]
    /\ UNCHANGED <<vars, copied, outbox, crashes>>

\* A call raises, before or after it took effect: run logs and acks anyway.
QuarantineRaises(l) ==
    /\ Flaky
    /\ lpc[l] \in Quarantining
    /\ LGoto(l, "ack")
    /\ UNCHANGED <<vars, adv, acked, copied, outbox, crashes>>

ListenerCrash(l) ==
    /\ lpc[l] # "idle"
    /\ crashes < MaxCrashes
    /\ crashes' = crashes + 1
    /\ LGoto(l, "idle")
    /\ adv' = [adv EXCEPT ![l] = NoMsg]
    /\ UNCHANGED <<vars, acked, copied, outbox>>
------------------------------------------------------------------------------
(* POST /jobs/{id}/replay, and the relay of its outbox row *)

Unsent(j) == {m \in Message : stream[m].job = j /\ stream[m].status = "unsent"}

\* The event is recorded, the message is not: no outbox row.
ReplayEventOnly(j) ==
    /\ Verdict(j, "replayed", NoToken) = "ok"
    /\ outbox[j] = 0 /\ Unsent(j) # {}
    /\ record_event(j, "replayed", 0, NoToken)
    /\ UNCHANGED <<brokerVars, pc, localVars, kvVars, shutdown>>
    /\ UNCHANGED <<lpc, adv, acked, copied, outbox, crashes>>

\* REPLAYED and the outbox row commit together; any other state answers 409 and
\* changes nothing.  Bound: one unpublished replay, while numbers are unsent.
replay_job(j) ==
    /\ Verdict(j, "replayed", NoToken) = "ok"
    /\ outbox[j] = 0 /\ Unsent(j) # {}
    /\ record_event(j, "replayed", 0, NoToken)
    /\ outbox' = [outbox EXCEPT ![j] = @ + 1]
    /\ UNCHANGED <<brokerVars, pc, localVars, kvVars, shutdown>>
    /\ UNCHANGED <<lpc, adv, acked, copied, crashes>>

\* relay_once on the row; sequence numbers are given out in order.
RelayReplay(j) ==
    /\ outbox[j] > 0
    /\ \E m \in Unsent(j) : (\A n \in Unsent(j) : m <= n) /\ publish(m)
    /\ outbox' = [outbox EXCEPT ![j] = @ - 1]
    /\ UNCHANGED <<repoVars, pc, localVars, kvVars, shutdown>>
    /\ UNCHANGED <<lpc, adv, acked, copied, crashes>>
------------------------------------------------------------------------------
Listen(l) ==
    \/ \E m \in Message : FetchAdvisory(l, m)
    \/ GetMsg(l) \/ CopyMsg(l) \/ RecordDeadLettered(l) \/ DeleteMsg(l) \/ AckAdvisory(l)

DNext ==
    \/ Next /\ UNCHANGED dlqVars
    \/ \E l \in Listener : Listen(l) \/ QuarantineRaises(l) \/ ListenerCrash(l)
    \/ \E j \in Job : replay_job(j) \/ RelayReplay(j)

DSpec == DInit /\ [][DNext]_allVars

\* A listener that is up keeps working and a crashed one is restarted; the relay
\* polls.  Operators need not replay, nobody need crash.
DFairSpec ==
    /\ DSpec /\ Fairness
    /\ \A l \in Listener : WF_allVars(Listen(l))
    /\ \A j \in Job : WF_allVars(RelayReplay(j))
------------------------------------------------------------------------------
(* Properties *)

\* The listener's variables have their types.
ListenerTypeOK ==
    /\ lpc \in [Listener -> LPC]
    /\ adv \in [Listener -> Message \union {NoMsg}]
    /\ acked \subseteq Message /\ copied \subseteq Message
    /\ outbox \in [Job -> Nat] /\ crashes \in Nat

\* Copy before delete (_quarantine_inner): an exhausted message that has left the
\* work stream is in the DLQ stream, wherever listeners crashed or overlapped.
CopyBeforeDelete ==
    \A m \in advisories : stream[m].status = "gone" => m \in copied

Recorded(j, event) == {i \in 1..Len(job_events[j]) : job_events[j][i].event = event}

\* "A quarantine can be late; it cannot be lost" (listener.py): once an advisory
\* is acked, nothing asks for its message again, so by then the message is copied
\* and deleted and the job is out of the dead message's hands: the audit trail
\* shows DEAD_LETTERED, or the job has finished.
QuarantineNotLost ==
    \A m \in acked :
       /\ m \in copied /\ stream[m].status = "gone"
       /\ LET j == stream[m].job IN
             \/ is_terminal(jobs[j].state)
             \/ Recorded(j, "dead_lettered") # {}

\* No job is lost in the whole platform: a job that is queued or running has a
\* message still to be delivered, an advisory still to be handled, or a replay
\* still to be relayed (ADR-0006: a replay "travels the exact same effectively-once
\* pipeline as an original submission").
NoJobForgotten ==
    \A j \in Job : jobs[j].state \in {"queued", "running"} =>
       \/ outbox[j] > 0
       \/ \E m \in Message :
             /\ stream[m].job = j
             /\ stream[m].status \in {"ready", "pending"} \/ m \in advisories \ acked

\* Since worker w recorded its STARTED, the job was dead-lettered.
QuarantinedUnder(w) ==
    LET log == job_events[JobOf(w)] IN
    \E k \in 1..Len(log) :
       /\ log[k] = [event |-> "started", attempt |-> attempt[w], fence_token |-> token[w]]
       /\ \E i \in (k + 1)..Len(log) : log[i].event = "dead_lettered"

\* A worker that meets its deadlines leaves handle with an exception (main.py, the
\* except SimulatedFailure block) only when the listener has dead-lettered its job
\* during this very execution, on account of another, exhausted message of the job:
\* a duplicate, or the one a replay was to replace.
CrashNeedsQuarantine ==
    \A w \in Worker : pc[w] = "unwind" =>
       /\ QuarantinedUnder(w)
       /\ \E m \in advisories \ {msg[w]} : stream[m].job = JobOf(w)

\* What a client is told of a state.
Stage(state) ==
    CASE state = "dead_letter" -> "quarantined"
      [] is_terminal(state) -> state
      [] OTHER -> "active"

L == INSTANCE JobLifecycle WITH
        status <- [j \in Job |-> Stage(jobs[j].state)],
        result <- [j \in Job |-> jobs[j].result]

\* Workers, broker, listener, relay and operator together keep the promise of
\* JobLifecycle: retries, kills, bounced and duplicate deliveries never show, a
\* quarantine ends only by a replay, a result is written once, and every job comes
\* to rest as succeeded, failed or quarantined.  A quarantine that is run again
\* after the replay may show, as a quarantine of the replayed job.
KeepsLifecycle == L!Spec

\* The same without the promise to come to rest: what holds even when workers
\* overrun their leases and quarantines raise.
LifecycleIsSafe == L!Safety
==============================================================================
