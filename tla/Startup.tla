------------------------------ MODULE Startup --------------------------------
(***************************************************************************)
(* The processes of the platform coming up, together, in any order, and    *)
(* again after a failure: each applies the schema, and all but the API set *)
(* up their streams and consumers on the broker, where every failure is    *)
(* suppressed.  A process that raises is started again.  Meanwhile the     *)
(* processes that are up work on poison messages.                          *)
(***************************************************************************)
EXTENDS Naturals

CONSTANTS
    Api, RelayProcess, Worker, Listener,   \* the processes
    Poison,                         \* messages every delivery of which fails
    MaxFaults                       \* bound on failing broker calls and crashes

ASSUME StartupAssumption == MaxFaults \in Nat

VARIABLES
    pc,           \* how far each process has come
    tables,       \* whether the schema is there
    missing,      \* whether a process found it missing
    lock,         \* the processes that hold the advisory lock
    collided,     \* whether CREATE TABLE ever met a table just created
    streams,      \* the streams and consumers of the broker
    published,    \* poison messages in the work stream, or no longer
    exhausted,    \* those whose deliveries are used up
    captured,     \* those whose advisory is in ORBITER_ADVISORIES
    quarantined,
    heard,        \* whether a listener has ever been up
    faults

db == <<tables, missing, lock, collided>>
messages == <<published, exhausted, captured, quarantined>>
bootVars == <<pc, db, streams, messages, heard, faults>>

Process == Api \union RelayProcess \union Worker \union Listener

Reach(p, label) == pc' = [pc EXCEPT ![p] = label]

BootInit ==
    /\ pc = [p \in Process |-> "down"]
    /\ tables = FALSE /\ missing = [p \in Process |-> FALSE]
    /\ lock = {} /\ collided = FALSE
    /\ streams = {}
    /\ published = {} /\ exhausted = {} /\ captured = {} /\ quarantined = {}
    /\ heard = FALSE /\ faults = 0

Start(p) ==
    /\ pc[p] = "down"
    /\ Reach(p, "lock")
    /\ UNCHANGED <<db, streams, messages, heard, faults>>
------------------------------------------------------------------------------
(* apply_schema: one transaction *)

\* No lock is taken.
LockNothing(p) ==
    /\ pc[p] = "lock"
    /\ Reach(p, "check")
    /\ UNCHANGED <<db, streams, messages, heard, faults>>

\* pg_advisory_xact_lock waits for the holder.
LockSchema(p) ==
    /\ pc[p] = "lock" /\ lock = {}
    /\ lock' = {p}
    /\ Reach(p, "check")
    /\ UNCHANGED <<tables, missing, collided, streams, messages, heard, faults>>

\* CREATE TABLE IF NOT EXISTS looks first ...
CheckTables(p) ==
    /\ pc[p] = "check"
    /\ missing' = [missing EXCEPT ![p] = ~tables]
    /\ Reach(p, "create")
    /\ UNCHANGED <<tables, lock, collided, streams, messages, heard, faults>>

\* What a process does with the schema in place.
Connected(p) == IF p \in Api THEN "up" ELSE IF p \in Listener THEN "ORBITER_DLQ" ELSE "ORBITER_JOBS"

\* A lock of the session, which outlives the transaction in the pool.
KeepLock(p) ==
    /\ pc[p] = "create"
    /\ collided' = (collided \/ (missing[p] /\ tables))
    /\ tables' = TRUE
    /\ Reach(p, Connected(p))
    /\ UNCHANGED <<missing, lock, streams, messages, heard, faults>>

\* ... and creates, colliding with a table that has appeared since.  The end of
\* the transaction releases the lock.
CreateTables(p) ==
    /\ pc[p] = "create"
    /\ collided' = (collided \/ (missing[p] /\ tables))
    /\ tables' = TRUE
    /\ lock' = lock \ {p}
    /\ Reach(p, IF missing[p] /\ tables THEN "down" ELSE Connected(p))
    /\ UNCHANGED <<missing, streams, messages, heard, faults>>
------------------------------------------------------------------------------
(* ensure_stream, ensure_streams: what a process asks for, in order *)

Ensured == {"ORBITER_JOBS", "workers", "ORBITER_DLQ", "ORBITER_ADVISORIES", "dlq-listener"}

After(p) ==
    CASE pc[p] = "ORBITER_JOBS" -> "workers"
      [] pc[p] = "ORBITER_DLQ" -> "ORBITER_ADVISORIES"
      [] pc[p] = "ORBITER_ADVISORIES" -> "dlq-listener"
      [] OTHER -> IF p \in RelayProcess THEN "up" ELSE "subscribe"

\* The stream of a consumer.
StreamOf(p) == IF p \in Listener THEN "ORBITER_ADVISORIES" ELSE "ORBITER_JOBS"

\* A consumer of a stream that is not there is refused, like any other failure
\* unnoticed.
Ensure(p) ==
    /\ pc[p] \in Ensured
    /\ streams' = IF pc[p] \in {"workers", "dlq-listener"} /\ StreamOf(p) \notin streams
                  THEN streams ELSE streams \union {pc[p]}
    /\ Reach(p, After(p))
    /\ UNCHANGED <<db, messages, heard, faults>>

\* suppress(Exception)
EnsureFails(p) ==
    /\ pc[p] \in Ensured
    /\ faults < MaxFaults /\ faults' = faults + 1
    /\ Reach(p, After(p))
    /\ UNCHANGED <<db, streams, messages, heard>>

\* pull_subscribe raises without its stream.
Subscribe(p) ==
    /\ pc[p] = "subscribe"
    /\ Reach(p, IF StreamOf(p) \in streams THEN "up" ELSE "down")
    /\ heard' = (heard \/ (p \in Listener /\ StreamOf(p) \in streams))
    /\ UNCHANGED <<db, streams, messages, faults>>

\* Chaos, a deploy, a lost node.  The database drops the lock with the session.
Crash(p) ==
    /\ pc[p] # "down"
    /\ faults < MaxFaults /\ faults' = faults + 1
    /\ lock' = lock \ {p}
    /\ Reach(p, "down")
    /\ UNCHANGED <<tables, missing, collided, streams, messages, heard>>
------------------------------------------------------------------------------
(* The processes that are up, at work *)

Up(processes) == \E p \in processes : pc[p] = "up"

\* A poison job is submitted and relayed.  Without the stream js.publish raises,
\* which ends the relay.
PublishPoison(r, m) ==
    /\ pc[r] = "up" /\ Up(Api) /\ m \notin published
    /\ IF "ORBITER_JOBS" \in streams
       THEN published' = published \union {m} /\ UNCHANGED pc
       ELSE Reach(r, "down") /\ UNCHANGED published
    /\ UNCHANGED <<db, streams, exhausted, captured, quarantined, heard, faults>>

\* An advisory only those hear who listen at the time.
ExhaustUncaptured(m) ==
    /\ Up(Worker) /\ m \in published \ exhausted
    /\ exhausted' = exhausted \union {m}
    /\ captured' = IF Up(Listener) THEN captured \union {m} ELSE captured
    /\ UNCHANGED <<pc, db, streams, published, quarantined, heard, faults>>

\* The workers use up the deliveries of a message.  Its advisory is published
\* once, into the stream that captures the subject, if that is there.
Exhaust(m) ==
    /\ Up(Worker) /\ m \in published \ exhausted
    /\ exhausted' = exhausted \union {m}
    /\ captured' = IF "ORBITER_ADVISORIES" \in streams THEN captured \union {m} ELSE captured
    /\ UNCHANGED <<pc, db, streams, published, quarantined, heard, faults>>

\* quarantine, then the ack of the advisory; without the DLQ stream the copy
\* raises, and the advisory is acked all the same.
Quarantine(m) ==
    /\ Up(Listener) /\ m \in captured
    /\ captured' = captured \ {m}
    /\ quarantined' = IF "ORBITER_DLQ" \in streams THEN quarantined \union {m} ELSE quarantined
    /\ UNCHANGED <<pc, db, streams, published, exhausted, heard, faults>>

ComeUp(p) ==
    \/ Start(p) \/ LockSchema(p) \/ CheckTables(p) \/ CreateTables(p)
    \/ Ensure(p) \/ Subscribe(p)

BootNext ==
    \/ \E p \in Process : ComeUp(p) \/ EnsureFails(p) \/ Crash(p)
    \/ \E m \in Poison : Exhaust(m) \/ Quarantine(m) \/ \E r \in RelayProcess : PublishPoison(r, m)

BootSpec == BootInit /\ [][BootNext]_bootVars

\* A process that is down is started, and one that is coming up goes on.
FairBootSpec == BootSpec /\ \A p \in Process : WF_bootVars(ComeUp(p))
------------------------------------------------------------------------------
(* Properties *)

\* The advisory lock serializes the DDL (repo.py: without it "two sessions can
\* both see "not exists" and collide in the catalog").
NoSchemaCollision == ~collided

\* Whatever fails on the way, and however often, the whole platform comes up.
PlatformComesUp == <>[](\A p \in Process : pc[p] = "up")

\* Once a listener has been up, advisories are captured even while none is
\* (listener.py: "max-deliveries events survive listener downtime").
DowntimeLosesNothing == [][heard /\ exhausted' # exhausted => captured' # captured]_bootVars
==============================================================================
