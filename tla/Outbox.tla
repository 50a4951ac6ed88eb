------------------------------- MODULE Outbox --------------------------------
(***************************************************************************)
(* The way of a job from the API to the broker: POST /jobs behind          *)
(* admission control, submit_job's transaction, and the relays that        *)
(* publish outbox rows.  One step per await that another process can see   *)
(* between; Postgres runs READ COMMITTED, and a transaction that ends by   *)
(* an exception, or with its process, leaves nothing.                      *)
(***************************************************************************)
EXTENDS Integers, FiniteSets

CONSTANTS Request,      \* POST /jobs calls; a request stands for the uuid4 it draws
          KeyOf,        \* the Idempotency-Key of each; a client's retries share one
          Capacity,     \* admission_capacity of the one API replica
          Relay,        \* relay processes; one that died is started again
          Drained,      \* relays that may be told to stop, for good
          BatchSize,    \* relay_batch_size
          MaxId,        \* bound on outbox ids
          MaxFailures,  \* bound on relay failures
          MaxLapses     \* bound on how often the broker forgets one message id

ASSUME OutboxAssumption ==
    /\ Capacity \in Nat \ {0} /\ BatchSize \in Nat \ {0} /\ MaxId \in Nat
    /\ MaxFailures \in Nat /\ MaxLapses \in Nat /\ Drained \subseteq Relay

VARIABLES jobs,         \* committed rows of jobs
          outbox,       \* committed rows of outbox
          next_id,      \* the sequence behind outbox.id; never rolled back
          in_flight,    \* AdmissionController._in_flight
          api,          \* where each request stands
          drawn,        \* the outbox id drawn by its transaction, 0 before
          reply,        \* the job its client was told of, as a set of at most one
          created,      \* requests answered with created=True
          batch,        \* the row ids a relay fetched
          todo,         \* those of them it has not published yet
          open,         \* relays whose transaction Postgres still holds open
          failures,
          stored,       \* broker: messages ever stored under each Nats-Msg-Id
          window,       \* broker: ids inside the duplicate window
          lapsed        \* broker: how often each id has left the window

apiVars == <<jobs, next_id, in_flight, api, drawn, reply, created>>
relayVars == <<batch, todo, open, failures>>
brokerVars == <<stored, window, lapsed>>
vars == <<apiVars, outbox, relayVars, brokerVars>>

Id == 1..MaxId
OutboxRow == [id : Id, job : Request, published : BOOLEAN]

\* Control points of a request, named for the statement about to run.
InTransaction == {"insert_outbox", "commit"}   \* holds its key, uncommitted
Serving == {"insert_job", "select"} \union InTransaction
Answered == {"replied", "rejected", "failed"}

Init ==
    /\ jobs = {} /\ outbox = {} /\ next_id = 1 /\ in_flight = 0
    /\ api = [r \in Request |-> "new"]
    /\ drawn = [r \in Request |-> 0]
    /\ reply = [r \in Request |-> {}] /\ created = {}
    /\ batch = [x \in Relay |-> {}] /\ todo = [x \in Relay |-> {}]
    /\ open = {} /\ failures = 0
    /\ stored = [i \in Id |-> 0] /\ window = {} /\ lapsed = [i \in Id |-> 0]

------------------------------------------------------------------------------
(* The API *)

Goto(r, l) == api' = [api EXCEPT ![r] = l]

try_acquire == in_flight < Capacity /\ in_flight' = in_flight + 1

\* With no slot taken it raises and leaves the counter.
release == in_flight' = IF in_flight <= 0 THEN in_flight ELSE in_flight - 1

\* The handler up to its first await: admission, or 429.
Submit(r) ==
    /\ api[r] = "new"
    /\ \/ /\ in_flight >= Capacity
          /\ Goto(r, "rejected") /\ UNCHANGED in_flight
       \/ try_acquire /\ Goto(r, "insert_job")
    /\ UNCHANGED <<jobs, outbox, next_id, drawn, reply, created, relayVars, brokerVars>>

\* submit_job that looks the key up first and inserts without a constraint.
CheckThenInsert(r) ==
    /\ api[r] = "insert_job"
    /\ IF \E j \in jobs : KeyOf[j] = KeyOf[r]
       THEN Goto(r, "select")
       ELSE Goto(r, "insert_outbox")
    /\ UNCHANGED <<jobs, outbox, next_id, in_flight, drawn, reply, created, relayVars, brokerVars>>

\* INSERT ... ON CONFLICT DO NOTHING: waits for a transaction that holds the
\* key, and yields to a committed row.
InsertJob(r) ==
    /\ api[r] = "insert_job"
    /\ \A q \in Request : KeyOf[q] = KeyOf[r] => api[q] \notin InTransaction
    /\ IF \E j \in jobs : KeyOf[j] = KeyOf[r]
       THEN Goto(r, "select")
       ELSE Goto(r, "insert_outbox")
    /\ UNCHANGED <<jobs, outbox, next_id, in_flight, drawn, reply, created, relayVars, brokerVars>>

\* The key was seen before: the handler answers with the job that has it.
SelectExisting(r) ==
    /\ api[r] = "select"
    /\ \E j \in jobs : KeyOf[j] = KeyOf[r] /\ reply' = [reply EXCEPT ![r] = {j}]
    /\ Goto(r, "replied") /\ release
    /\ UNCHANGED <<jobs, outbox, next_id, drawn, created, relayVars, brokerVars>>

\* The dual write: the message goes to the broker from inside the transaction.
PublishInRequest(r) ==
    /\ api[r] = "insert_outbox" /\ next_id <= MaxId
    /\ drawn' = [drawn EXCEPT ![r] = next_id] /\ next_id' = next_id + 1
    /\ Goto(r, "commit")
    /\ stored' = [stored EXCEPT ![next_id] = 1]
    /\ UNCHANGED <<jobs, outbox, in_flight, reply, created, relayVars, window, lapsed>>

\* INSERT INTO outbox with no id from the sequence.
InsertWithoutId(r) ==
    /\ api[r] = "insert_outbox"
    /\ Goto(r, "commit")
    /\ UNCHANGED <<jobs, outbox, next_id, in_flight, drawn, reply, created, relayVars, brokerVars>>

\* INSERT INTO outbox takes its id now, not when the transaction commits.
InsertOutbox(r) ==
    /\ api[r] = "insert_outbox" /\ next_id <= MaxId
    /\ drawn' = [drawn EXCEPT ![r] = next_id] /\ next_id' = next_id + 1
    /\ Goto(r, "commit")
    /\ UNCHANGED <<jobs, outbox, in_flight, reply, created, relayVars, brokerVars>>

\* COMMIT: the job and its outbox row appear together.  The reply may still be
\* lost with the connection, which leaves the client without one.
CommitSubmit(r) ==
    /\ api[r] = "commit"
    /\ jobs' = jobs \union {r}
    /\ outbox' = outbox \union {[id |-> drawn[r], job |-> r, published |-> FALSE]}
    /\ \/ /\ Goto(r, "replied")
          /\ reply' = [reply EXCEPT ![r] = {r}] /\ created' = created \union {r}
       \/ Goto(r, "failed") /\ UNCHANGED <<reply, created>>
    /\ release
    /\ UNCHANGED <<next_id, drawn, relayVars, brokerVars>>

\* A handler without the finally block.
AbortKeepingSlot(r) ==
    /\ api[r] \in Serving
    /\ Goto(r, "failed")
    /\ UNCHANGED <<jobs, outbox, next_id, in_flight, drawn, reply, created, relayVars, brokerVars>>

\* An exception or a cancellation in submit_job: rollback, and the finally block
\* gives the slot back.
AbortSubmit(r) ==
    /\ api[r] \in Serving
    /\ Goto(r, "failed") /\ release
    /\ UNCHANGED <<jobs, outbox, next_id, drawn, reply, created, relayVars, brokerVars>>

\* The API process dies with all its requests; its successor counts from 0.
ApiCrash ==
    /\ \E r \in Request : api[r] \in Serving
    /\ api' = [r \in Request |-> IF api[r] \in Serving THEN "failed" ELSE api[r]]
    /\ in_flight' = 0
    /\ UNCHANGED <<jobs, outbox, next_id, drawn, reply, created, relayVars, brokerVars>>

------------------------------------------------------------------------------
(* The relays *)

\* Rows some open transaction has selected FOR UPDATE.
Locked == UNION {batch[x] : x \in open}

\* A SELECT that takes no notice of row locks.
LockedOrNot == {row.id : row \in {o \in outbox : ~ o.published}}

Unpublished == {row.id : row \in {o \in outbox : ~ o.published}} \ Locked

\* A relay that remembers how far it got: WHERE id > the last published one.
BatchAfterCursor ==
    {i \in Unpublished :
       /\ \A o \in outbox : o.published => o.id < i
       /\ Cardinality({k \in Unpublished : k < i}) < BatchSize}

\* ORDER BY id LIMIT relay_batch_size FOR UPDATE SKIP LOCKED
NextBatch == {i \in Unpublished : Cardinality({k \in Unpublished : k < i}) < BatchSize}

\* relay_once up to its SELECT.  An empty batch only waits for the next poll.
FetchBatch(x) ==
    /\ batch[x] = {}
    /\ batch' = [batch EXCEPT ![x] = NextBatch]
    /\ todo' = [todo EXCEPT ![x] = NextBatch]
    /\ open' = IF NextBatch = {} THEN open ELSE open \union {x}
    /\ UNCHANGED <<apiVars, outbox, failures, brokerVars>>

\* The broker keeps a message unless it remembers its Nats-Msg-Id.
store(i) ==
    /\ stored' = IF i \in window THEN stored ELSE [stored EXCEPT ![i] = @ + 1]
    /\ window' = window \union {i}
    /\ UNCHANGED lapsed

\* One js.publish, in row order.
Publish(x) ==
    /\ \E i \in todo[x] :
          /\ \A k \in todo[x] : i <= k
          /\ store(i)
          /\ todo' = [todo EXCEPT ![x] = @ \ {i}]
    /\ UNCHANGED <<apiVars, outbox, batch, open, failures>>

Drop(x) ==
    /\ batch' = [batch EXCEPT ![x] = {}]
    /\ todo' = [todo EXCEPT ![x] = {}]
    /\ open' = open \ {x}

\* The rows are marked before they are published.
MarkFirst(x) ==
    /\ batch[x] # {} /\ x \in open
    /\ outbox' = {IF o.id \in batch[x] THEN [o EXCEPT !.published = TRUE] ELSE o : o \in outbox}
    /\ Drop(x)
    /\ UNCHANGED <<apiVars, failures, brokerVars>>

\* UPDATE outbox SET published_at, and COMMIT.
MarkPublished(x) ==
    /\ batch[x] # {} /\ todo[x] = {} /\ x \in open
    /\ outbox' = {IF o.id \in batch[x] THEN [o EXCEPT !.published = TRUE] ELSE o : o \in outbox}
    /\ Drop(x)
    /\ UNCHANGED <<apiVars, failures, brokerVars>>

\* On a connection that is gone the UPDATE raises: run ends, the process is
\* started again.
MarkRaises(x) ==
    /\ batch[x] # {} /\ todo[x] = {} /\ x \notin open
    /\ Drop(x)
    /\ UNCHANGED <<apiVars, outbox, failures, brokerVars>>

\* The process dies, or a publish raises, stored or not.
RelayCrash(x) ==
    /\ batch[x] # {} /\ failures < MaxFailures
    /\ failures' = failures + 1
    /\ Drop(x)
    /\ UNCHANGED <<apiVars, outbox, brokerVars>>

\* Postgres loses the session and frees its locks; the relay, awaiting the
\* broker, does not notice.
LoseSession(x) ==
    /\ x \in open /\ failures < MaxFailures
    /\ failures' = failures + 1
    /\ open' = open \ {x}
    /\ UNCHANGED <<apiVars, outbox, batch, todo, brokerVars>>

\* The duplicate window of a message id ends.
WindowLapses(i) ==
    /\ i \in window /\ lapsed[i] < MaxLapses
    /\ window' = window \ {i}
    /\ lapsed' = [lapsed EXCEPT ![i] = @ + 1]
    /\ UNCHANGED <<apiVars, outbox, relayVars, stored>>

Next ==
    \/ \E r \in Request :
          \/ Submit(r) \/ InsertJob(r) \/ SelectExisting(r) \/ InsertOutbox(r)
          \/ CommitSubmit(r) \/ AbortSubmit(r)
    \/ ApiCrash
    \/ \E x \in Relay :
          \/ FetchBatch(x) \/ Publish(x) \/ MarkPublished(x) \/ MarkRaises(x)
          \/ RelayCrash(x) \/ LoseSession(x)
    \/ \E i \in Id : WindowLapses(i)

Spec == Init /\ [][Next]_vars

\* A relay finishes the batch in hand even when told to stop, and polls again
\* unless it was.  Requests need never be served.
FairSpec ==
    /\ Spec
    /\ \A x \in Relay : WF_vars(Publish(x) \/ MarkPublished(x) \/ MarkRaises(x))
    /\ \A x \in Relay \ Drained : WF_vars(FetchBatch(x))

------------------------------------------------------------------------------
(* Properties *)

\* Every variable has its type.
TypeOK ==
    /\ jobs \subseteq Request /\ outbox \subseteq OutboxRow
    /\ next_id \in 1..(MaxId + 1) /\ in_flight \in Int
    /\ api \in [Request -> {"new"} \union Serving \union Answered]
    /\ drawn \in [Request -> 0..MaxId]
    /\ reply \in [Request -> SUBSET Request] /\ created \subseteq Request
    /\ batch \in [Relay -> SUBSET Id] /\ todo \in [Relay -> SUBSET Id]
    /\ open \subseteq Relay /\ failures \in Nat
    /\ stored \in [Id -> Nat] /\ window \subseteq Id /\ lapsed \in [Id -> Nat]

\* submit_job's "Stripe semantics": however the attempts of one submission
\* interleave, fail and crash, all that are answered name the same existing job,
\* and at most one is told that it created it.
RepliesAgree ==
    \A r, q \in Request : KeyOf[r] = KeyOf[q] =>
       /\ \A j \in reply[r], k \in reply[q] : j = k /\ j \in jobs /\ KeyOf[j] = KeyOf[r]
       /\ r \in created /\ q \in created => r = q

\* Transactional outbox, one half (relay_once publishes, then marks): a job that
\* exists has an outbox row, and a row marked published is in the stream.
NothingLost ==
    /\ \A j \in jobs : \E o \in outbox : o.job = j
    /\ \A o \in outbox : o.published => stored[o.id] > 0

\* Transactional outbox, the other half: the broker holds no message of a job
\* whose transaction has not committed.
NothingInvented ==
    \A i \in Id : stored[i] > 0 => \E o \in outbox : o.id = i /\ o.job \in jobs

\* FOR UPDATE SKIP LOCKED, held until the UPDATE commits (relay_once): relays that
\* only run side by side never publish one row twice, however long a batch takes
\* and whatever the broker has forgotten meanwhile.  Every message of a row beyond
\* the first takes a failure of its own, a relay that died or lost its session.
DuplicatesNeedFailure == \A i \in Id : stored[i] <= 1 + failures

\* AdmissionController around submit: the counter is the number of requests
\* being served, through failures, cancellations and a crash, never more than
\* the capacity, and release never finds it at zero.
SlotsBalance ==
    /\ in_flight = Cardinality({r \in Request : api[r] \in Serving})
    /\ in_flight <= Capacity

H == INSTANCE Handoff WITH
        Job <- Request, accepted <- jobs,
        queued <- [r \in Request |-> IF drawn[r] = 0 THEN 0 ELSE stored[drawn[r]]]

\* Submission and relay implement the hand-off: one job per key, and every job
\* that was committed is queued at least once although ids commit out of order,
\* relays crash between publish and mark, and rows are skipped while locked.
HandsOver == H!Spec
==============================================================================
