# ORBITER in TLA+

A verification project for ORBITER, a distributed job runner: TLA+ models of the
code under `src/src/orbiter/`, TLC runs that check them on small instances, and
TLAPS proofs of the central properties for instances of any size.

## The system

| Part | Source | State | Operations that change it |
|---|---|---|---|
| Job state machine | `domain/` | none (pure) | `apply`, `replay` |
| Job repository | `db/repo.py`, `db/schema.sql` | tables `jobs`, `job_events`, `outbox` | `apply_schema`, `submit_job`, `record_event`, `replay_job` |
| Key/value store | `kv/` | expiring keys, counters | `set_if_absent`, `incr`, `compare_and_delete`, expiry |
| Fenced leases | `leases/fencing.py` | a lease key and a token counter per resource | `acquire`, `release`, `FencedWriter.check` |
| Execution guard | `worker/idempotency.py` | a claim key and a done marker per job | `try_claim`, `mark_done`, `release_claim` |
| Worker | `worker/main.py`, `executor.py` | one delivery at a time | start-up, fetch, `handle`, shutdown, chaos kill |
| Broker | external (NATS JetStream) | work, DLQ and advisory streams, delivery counts | deliver, ack, term, nak, AckWait, MaxDeliver |
| Outbox relay | `relay/outbox_relay.py` | none of its own | `relay_once` |
| Dead-letter listener | `dlq/listener.py` | none of its own | `ensure_streams`, `quarantine`, ack |
| API, admission | `api/` | in-flight counter per replica | submit, status, DLQ list, replay, chaos |

A submission commits the job, its first two events and an outbox row together.
The relay publishes outbox rows to the work stream. A worker fetches a message,
asks the guard for the job (done marker, then claim), takes a fenced lease, and
records STARTED, the outcome, and the done marker before it acks. Failures are
naked for redelivery; a message whose deliveries are used up raises an advisory,
on which the dead-letter listener copies the message, records DEAD_LETTERED and
deletes it, until an operator replays the job through a new outbox row. Nothing
is exclusive for certain: claims and leases expire while their holder may only be
slow, and AckWait redelivers under it. The fencing token in the
`UPDATE ... WHERE fence_token <= $4` is what must keep the data right.

## Modules

- `JobStateMachine`: the states, the events, the transition table, `apply` and
  `replay`. `IllegalTransition` is the value of a call that raises; `replay` of an
  empty log (a `ValueError`) is `NoState`, and no job has an empty log.
- `KeyValueStore`: what one atomic store command leaves behind. The values
  `"<worker>:<number>"` are pairs.
- `FencedLease`: the lease protocol alone, on one resource, with the reference
  `FencedWriter`. `acquire` is two steps, because the code awaits between INCR
  and SET NX; a client may pause, die, or lose its lease anywhere.
- `JobRepo`: `record_event` as one atomic step (one transaction, the row held
  `FOR UPDATE`). The verdict keeps the code's order: legality first, fence second.
  `fence_token` in a log row is a ghost field, the token the writer presented.
  `result` holds the token of the execution that produced the result.
- `JetStream`: the broker, external. What is assumed, from how `ensure_stream` and
  `handle` use it: an ack or term from any delivery removes the stream message; a
  nak or an AckWait makes a pending message deliverable again; when the last
  permitted delivery is given back, the message stays, undeliverable, and an
  advisory is published. Nak delays are left to `TimedGuard`: here any order can
  happen.
- `WorkerFleet`: composes the three above with the worker. One control point
  (`pc`) per await of `Worker.handle`, named for the call about to be made:

  | Control points | Code |
  |---|---|
  | `idle`, `fetching`, `stopped` | the loop of `Worker.run`; SIGTERM is seen only at its head, so a fetch in progress is still answered |
  | `received`, `claim` | the poison branch; `try_claim`'s GET and SET NX |
  | `incr`, `acquire` | `LeaseManager.acquire`'s two commands |
  | `start`, `execute`, `complete` | the try block |
  | `mark_done`, `unclaim`, `ack` | `mark_done`'s two commands, the ack |
  | `fail` | the `except SimulatedFailure` block |
  | `release_nak`, `release_term`, `nak`, `term` | giving the claim, then the message back |
  | `unlock`, `unwind` | the `finally` block, normally or with an exception nobody catches |
  | `dead` | `os._exit`, node loss, or such an exception |

  A worker id is never reused (`__init__` draws a fresh one), so a restarted
  worker is another member of `Worker`. `Punctual` says whether a live worker
  always finishes a delivery inside `lease_ttl_s` (20 s, below `ack_wait_s`, 30 s).
  The request allows durations far beyond both, so the code runs in both regimes
  and the models are checked in both. A worker sets its lease after its claim with
  the same time to live, so its lease never expires first.
- `Outbox`: `POST /jobs` behind `AdmissionController`, `submit_job` statement by
  statement (READ COMMITTED; the uniqueness of the key makes a second transaction
  wait for the first), and `relay_once` for several relays. A request stands for
  the `uuid4` it draws. An outbox id is drawn at the INSERT and becomes visible at
  the COMMIT, so ids appear out of order. A relay may crash, see a publish raise,
  or lose its database session, and with it its row locks, while it goes on
  publishing. The broker's part (`store`, `WindowLapses`) is external.
- `Handoff`: the abstract promise `Outbox` is checked and proved to implement: one
  job per key, and every job queued at least once. `accepted` is the committed
  jobs; `queued[j]` is how often the broker stored the row with the id drawn for
  `j`.
- `DeadLetter`: `WorkerFleet` and the dead-letter listener, one control point per
  await of `quarantine`, with several listeners, and the operator's `replay_job`
  with the relay of its row. An advisory is the sequence number of its message and
  is handed out until it is acked, possibly to two listeners. `Flaky` says whether
  the calls of a quarantine may raise. `stream` numbers not yet used (`"unsent"`)
  are the messages replays will publish; their number bounds the replays.
- `JobLifecycle`: the abstract promise to the client of a job: active until it
  succeeds, fails or is quarantined; out of quarantine only by a replay; a result
  exactly on success; never active for ever. `DeadLetter` is checked, and for safety
  proved, to implement it,
  with `queued` and `running` both `active`.
- `TimedGuard`: one job with the times of `config.py` as clocks that count down in
  seconds: AckWait, nak delays, the claim and the lease, the job's duration, and
  `Latency`, the longest a live worker takes for a call. A duplicate of the message
  is there from the start or was never published. Calls that follow one
  another without waiting are one step, which `WorkerFleet` takes apart.
- `InMemoryKV`: both stores of `kv/` with their clock: the dictionary that deletes
  expired entries lazily, and the server that is given whole milliseconds.
  `ExpiringKeys` is what leases and claims rely on, built from the commands of
  `KeyValueStore`; `InMemoryKV` is checked and proved to implement it.
- `JobQueries`: `get_job`'s two queries, `GET /dlq` and replays by operators who
  act on an old list, beside writers that use `JobRepo`. `updated` is the order of
  `updated_at`, the time a transaction began: one that waited for the row's lock
  may come in anywhere.
- `Startup`: all processes coming up at once: `apply_schema` under its advisory lock
  (taken apart into look and create), `ensure_stream` and `ensure_streams` with
  their suppressed failures, subscriptions, crashes and restarts; meanwhile poison
  messages are published, exhausted and quarantined by those already up.
- `MC...` modules add symmetry sets and constant functions for TLC. The proof
  modules are described below. Operators described as a defect (`CheckNothing`,
  `PlainDelete`, `UnfencedVerdict`, `SkipCopy`, `LockstepKey` and the like) are
  deliberate faulty variants of the definition that follows them; they show that
  the properties can fail.

## Runs

| Run | Instance | Shows |
|---|---|---|
| `fenced_lease` | 3 clients, 4 tokens, 4 writes | accepted writes never interleave; release spares a successor |
| `fleet_pauses` | 2 workers, 1 job, 1 message, 3 deliveries, any pauses, kills, drains | log and projection agree; outcomes follow their own STARTED; acks only after success; no leaked lease |
| `fleet_punctual` | 2 workers (one is killed or drained), an ordinary and a poison job, 3 messages, 2 deliveries, no overruns, fairness | no job stranded, one executor, no leaked claim, every job settles |
| `fleet_no_job_stranded` (violation) | 2 workers, pauses | a superseded worker's term removes the retry of its successor |
| `fleet_no_self_crash` (violation) | 2 workers, pauses | a write that raises in the `except` block ends the process |
| `outbox` | 3 requests (2 with one key), capacity 2, 2 relays (one may be stopped for good), batches of 2, 2 relay failures, 2 lapses per id, fairness | one job per key; nothing lost, nothing invented; each duplicate costs a relay failure; slots balance; `Handoff` is implemented with its liveness |
| `dead_letter` | 2 workers (one is killed), 2 listeners, 1 job, 2 messages (the second a duplicate or a replay), 1 listener crash, fairness | copied before deleted, quarantined before acked, no unfinished job forgotten, no worker process lost to an exception but under a quarantine; `JobLifecycle` is implemented with its liveness |
| `dead_letter_pauses` | 2 workers that pause, 1 listener whose calls raise, 1 replay | fencing and the safety of `JobLifecycle` survive quarantine and replay under running executions |
| `timed_guard` | 18 s job, 1 or 2 messages, 2 kills, 1 failure, the configured times, fairness | no delivery meets a claim of its own message; a kill costs one delivery; a duplicate's bounces outlast the running job; a killed job recovers |
| `job_queries` | 2 jobs, 1 client, 2 operators, list of 1, logs of 6 | answers account for their state; every quarantine is lifted once, by one message |
| `in_memory_kv` | 2 keys, 2 values, times to live 0, 3, 4 in half milliseconds | a key lives exactly its time, up to the rounding; `ExpiringKeys` is implemented |
| `startup` | API, relay, worker, listener, 2 poison messages, 2 faults, fairness | one schema creation; everything comes up; downtime loses no advisory |

The two violations are disagreements between the code and its comments;
`PROJECT.json` quotes the lines.

### Limits

Where the code promises less than one may expect. None of these is among the runs;
each is what TLC answers when the constants of a run are changed, a property's
condition is dropped, or the plain statement is checked instead.

- `OneExecutor` fails with `Punctual = FALSE`: the claim is never renewed, so a
  worker slower than `lease_ttl_s` is joined by the next delivery
  (`worker/idempotency.py:45`). Fencing then decides whose outcome counts.
- `QuarantineNotLost` fails with `Flaky = TRUE`: an exception of any call of
  `quarantine` is logged and the advisory acked (`dlq/listener.py:184`), against
  "A quarantine can be late; it cannot be lost" (`dlq/listener.py:12`).
- `QuarantineSparesRunning` fails with `Duration = 35`: nothing renews AckWait, the
  claim or the lease while `execute` runs, so a healthy job longer than `ack_wait_s`
  is redelivered until it is dead-lettered (the API accepts 600 s,
  `api/app.py:36`). Without its condition `failures = 0` it fails too: a duplicate
  that bounces off an execution and then off its retry is used up.
- `NothingWasted` excludes failed executions. A failure uses one delivery by design,
  but with `Duration = 1` one failure and one kill dead-letter the job: a worker killed
  between the nak of the failure (redelivered after 2 s) and the release of its lease
  (20 s, less the job's duration) leaves a lease on which all other deliveries bounce (`worker/main.py:232`).
- `NoSelfCrash` fails in `dead_letter` too, where all workers are punctual: an
  exhausted duplicate makes the listener record DEAD_LETTERED under a worker that
  executes the job (`dlq/listener.py:143`); its REQUEUED or FAILED is then illegal,
  raises inside the `except` block (`worker/main.py:223`, `236`) and ends the process,
  against "a state-machine surprise must never cost the fleet"
  (`worker/main.py:256-257`). `CrashNeedsQuarantine` says that this is the only way.
- A delivery that finds itself superseded stands down without giving its claim back
  (`worker/main.py:248`), so the next one bounces until the claim expires. Punctual
  workers are never superseded; `NoLeakedClaim` fails with `Punctual = FALSE`.
- `GET /dlq` shows the 200 jobs updated last and has no cursor (`db/repo.py:216`): of
  more quarantined jobs, the others are not to be found through it.
- In `Startup`, an advisory published before the listener first came up is captured
  nowhere, since only the listener creates the stream (`dlq/listener.py:89`).
- In `DeadLetter`, a listener that crashes after DEAD_LETTERED and runs again after
  the operator has replayed the job quarantines the replayed job
  (`dlq/listener.py:142`): the event is not tied to the message that was exhausted.
- In `FencedLease`, a client overtaken between INCR and SET NX may acquire later with
  a smaller token than the acquisition before it. Its writes are refused once the
  larger token has written.

Bounds. Fencing and guard conflicts are between two deliveries, so two workers on
one job reach them; three deliveries allow a pause, a takeover and a retry.
A second message is the one a relay leaves behind when it crashes between
publishing and marking, outside the broker's duplicate window. `MaxToken` and
`MaxWrites` bound `FencedLease`; four of each allow an overtaking, a takeover
back, and writes on both sides of both. Jobs share no key and no row, so a second
job matters only for scheduling (`fleet_punctual`). Deadlock is not checked where
processes may stop: every worker dead or drained is a legal end. In `Outbox` two
attempts of one submission meet in every order, a third request draws ids between
theirs, and two failures allow a crash after a publish and a lost lock in one
behaviour; with two lapses the broker's duplicate window hides neither. `MaxId` equals the number of requests and so never binds.

In `DeadLetter` one spare message is enough for one replay, and a replay beside a
re-run, a late worker and a second listener is where the parts disagree; the runs
have one delivery per message and leave retries to the fleet's runs. `TimedGuard`
runs with the configured values themselves (30 s, 20 s, five deliveries, bounces of
4 to 9 s at whole seconds) and a latency of 1 s; 18 s is the longest job that ends
inside its claim. Two operators and two jobs let each list be outdated by the other's replay, and a list
of one is too short for both; `MaxEvents` allows a
job to be quarantined and replayed twice. In `InMemoryKV` a millisecond is two units, so
that times to live fall on and between milliseconds. In `Startup` two faults allow
a failing broker call and a crash in one start, and a crash of a process that is up.

Fairness (`FairSpec`). Weak fairness of each worker's own steps: a live process
runs. Strong fairness of each worker's fetch: fetches time out and are repeated,
and a ready message is eventually handed out. Weak fairness of AckWait: the broker's
timer runs. Kills, drains and expiries of keys are never forced: jobs settle even
if a dead worker's claim stays for ever, since bounced deliveries are counted.
In `Outbox`, weak fairness of each relay's work on the batch in hand, and of the
next fetch by a relay that is not stopped (`run` loops); requests and the broker's
window carry no fairness. `DeadLetter` (`DFairSpec`) adds weak fairness of each
listener and of the relay of a replay, both of which poll; operators need not
replay, calls need not raise. In `TimedGuard` time passes, an idle worker exists, and the
listener answers; kills and failures are never forced. In `Startup` a process that is
down is started again, as the Deployments of the cluster do (in the compose file only the
worker has a restart policy), and one that is coming up goes on. `JobQueries` needs no
fairness.

## Proofs

| Module | About | Extends |
|---|---|---|
| `WorkerFleetProofs` | the fleet: types, fencing | `WorkerFleet` |
| `DeadLetterProofs` | done markers and leases; fleet, listeners and operators together | `WorkerFleetProofs` |
| `ProjectionProofs` | `replay`, the state column as its result, and what clients and operators see | `DeadLetterProofs`, `JobQueries` |
| `QuarantineProofs` | what listeners lose: nothing | `DeadLetterProofs` |
| `WorkerFleetPunctual` | workers that meet their deadlines, alone and with listeners and operators | `QuarantineProofs` |
| `ForgottenProofs` | no job is forgotten | `QuarantineProofs` |
| `TimedGuardProofs` | the modules with a clock | `TimedGuard`, `InMemoryKV` |
| `ComponentProofs` | the parts around the fleet | `Outbox`, `FencedLease`, `Startup` |

Components proved in one module share no state; their initial predicates, next-state
relations and specifications carry the component's name (`LeaseSpec`, `BootSpec`, `KvSpec`,
`QuerySpec`). A leaf that needs no arithmetic names Zenon, which keeps the proofs fast: the
SMT translation of a step in a module of this size can take longer than its solution.

Assumptions: `BrokerAssumption` (stream sequence numbers are positive, at least one
delivery), `FleetAssumption` (`Poison`, `Mortal`, `Drained` are subsets),
`ListenerAssumption`, `OutboxAssumption`, `BoundsAssumption`, `TimesAssumption`,
`QueryAssumption` and `KvAssumption` (types of the constants, and that no key holds `None`).
Sets of workers, jobs, messages, requests, clients, operators and processes are arbitrary
and may be infinite. Some theorems have a
hypothesis on the constants, named with the theorem: `Punctual`, `~Flaky`, or inequalities
between times.

The fleet, for both values of `Punctual`:

- `TypeCorrect`, from `BaseInv`: types, plus what each control point says about the
  delivery and the lease in hand (`ControlInv`).
- `FencingHolds` (`OutcomeFollowsOwnStart`), from `FenceInv`. The property alone is
  not inductive: it does not say why the log still ends with this worker's own
  STARTED. `TokenInv`: no two workers carry one token for a job and none exceeds
  the counter. `LogInv`: a RUNNING row was last written by a STARTED under the
  row's token. `RunInv`: an executing worker's token has reached the row, and while
  it still is the row's token the last log entry is this delivery's. An accepted
  outcome has a token at least the row's, hence equal to it, hence its own STARTED
  is the last entry. A newer STARTED raises the row's token above everyone else's.
- `AckIsSafe` (`DoneMeansSucceeded`), from `DoneInv` and the fact that a SUCCEEDED
  row admits no event.
- `LeaseIsReleased` (`NoLeakedLease`), from `LeaseInv`.

The fleet, if it is `Punctual`:

- `GuardExcludes` (`OneExecutor`), `ClaimIsReleased` (`NoLeakedClaim`) and
  `NoJobIsStranded` (`NoJobStranded`).
  `ClaimInv`: a worker between taking its claim and releasing it finds the claim of
  its job there, its own; every claim belongs to such a worker or to a dead one. One
  claim per job gives one executor. `HolderTokens`: the row's token never outranks
  the claim holder's, so no write of the holder is stale. `HolderInv`: the job of an
  executing worker is RUNNING, so none is illegal either. `CarriedInv`: a
  message leaves the stream only when its job is finished.

Fleet, listeners and operators together:

- `ListenerTypeCorrect`, `FencingSurvivesReplay`: `FenceInv` again. DEAD_LETTERED and
  REPLAYED carry no token and leave the row's as it is, so a worker that was executing
  when its job was quarantined stays fenced off by the first STARTED after the replay.
- `LifecycleIsKept`: every step is a step of `JobLifecycle` or a stutter of it. What
  it needs beyond types is that a row that has not SUCCEEDED has no result.
- `ProjectionFollowsLog` and `ProjectionSurvivesReplay` (`ProjectionIsReplay`): the
  property is inductive with the types, once `replay` of a log and one more event is
  known to be `apply` of `replay` and that event (`ReplayAppend`), for logs of any
  length. `replay` is a recursive function inside a LET. That the function exists and
  is unique is shown by induction, in the only form the provers can use: a set of
  numbers that is not empty has a least element (`LeastNumber`, from the
  well-foundedness of the naturals), applied to the set of counterexamples.
- `CopyComesFirst` (`CopyBeforeDelete`), if `Punctual`, and `NoQuarantineIsLost`
  (`QuarantineNotLost`), if also `~Flaky`. `DeliveryInv` says that no worker still
  handles an exhausted message, so only listeners delete it; `QuarantineInv` says what
  has been done at each control point of a listener, in terms that another listener's
  progress keeps true.
- `GuardSurvivesReplay` (`OneExecutor`, `NoLeakedClaim`), if `Punctual`: writes without a
  token touch neither the claims nor the row's token, so `ClaimInv` and `HolderTokens`
  are inductive here as well.
- `CrashesNeedQuarantine` (`CrashNeedsQuarantine`), if `Punctual`. `HolderInv` is lost:
  the listener may write the row of an executing worker. `CrashInv` puts in its place
  that the row is RUNNING or the worker is `Overtaken`. When the listener
  writes under a worker, the row's token is the worker's own (`HolderTokens`, `RunInv`),
  so the log ended with its STARTED, and the advisory is not about the message in its
  hands (`DeliveryInv`); from then on the log and the advisories only grow.
- `NoJobIsForgotten` (`NoJobForgotten`), if `Punctual` and `~Flaky`. A pending message
  is no promise by itself: its worker may be about to ack it. `CarryInv` therefore asks
  for a message that is ready, or pending with a worker that is not `Spent` (on its way
  to an ack or a term, or executing a job that is no longer running), or exhausted with
  an advisory no listener has finished. Only REPLAYED makes a job active, and it adds an
  outbox row; and a worker's write makes a worker spent whose job stays active only where
  the writer itself is about to give its message back for another delivery
  (`WriteSpends`).

What clients and operators see, for any interleaving of writers and logs of any length:

- `AnswersAreBacked` (`AnswerIsBacked`) and `QuarantineIsLiftedOnce`
  (`ReplayOncePerQuarantine`), from `QueryInv`. A client is between its two queries, or
  done. Between them (`ReadInv`) the state it has read is the fold of a prefix of the log as
  it now is, and of the whole log if the state is final. An append keeps the prefix
  (`BackedGrows`), and none follows a final state, since a SUCCEEDED or FAILED row admits no
  event; so the second query finds events that account for the first. For replays the
  invariant is the exact count: quarantines are one ahead of replays while the job is
  quarantined, else level (`HowOftenAppend` says what an append adds to a count). The
  operator's list does not occur in it: what an operator was shown never matters, only the
  state under the row lock.

The guard's times, from `TimesAssumption` and `Margins` (a claim taken as late as possible
expires by the end of AckWait, and a handler is through before it):

- `TypeCorrect`, which needs no margin, and `MarginIsEnough` (`OwnClaimIsGone`), for any
  number of messages, kills and failures. The invariant compares clocks: a claim belongs
  to the current delivery of its message and has no more time left than that delivery's
  AckWait.
- `KillCostsOneDelivery` (`NothingWasted`), for one message, no failures and the
  margin for the lease too (`Single`).
- `BouncesOutlastTheJob` (`QuarantineSparesRunning`), for executions shorter than
  `lease_ttl_s` and `Patient`: MaxDeliver times the shortest bounce is longer than a
  worker that has claimed the job needs to finish it. `SpareInv` splits the history in
  three (`Fresh`, `Claimed`, `Executing`) and bounds, for every message, the time its
  bounces took by the time the executing worker has had the job (`Within`). The configured
  values satisfy all of it for jobs up to 18 s: 5 bounces of at least 4 s are 20 s.

The store, for both back ends and all times to live:

- `KeysLiveTheirTime` (`LivesItsTime`) and `StoreImplementsKeys` (`ImplementsKeys`).
  `StoreInv` ties an entry of the dictionary to the grant it stems from: it carries that
  value and ends with its lifetime, or it was found expired and is gone. `LifetimeBounds`
  is the rounding: never short, and at most one millisecond long.

The components:

- `Outbox`: types, `RepliesAgree`, `NothingLost`, `NothingInvented`,
  `DuplicatesNeedFailure`, and the safety part of `Handoff`. The invariant adds that drawn ids are fresh and distinct
  (`Drawing`), that a key belongs to one committed job or one open transaction (`Keys`),
  that rows carry the id drawn for their job (`Rows`), that what a relay has worked off its
  batch was stored (`Batches`), and that the broker remembers only what it stored
  (`Store`). For the refinement, a drawn id has never been stored and no two jobs share
  one, so a publish moves the count of one job. `DuplicatesNeedAFailure` counts, without
  the broker's help: open transactions hold disjoint batches of unpublished rows
  (`LockInv`), so of the copies of a row one belongs to its mark, or to the one transaction
  that holds it, and every other to a transaction that ended without the mark, by a failure
  (`RepeatInv`). `AdmissionBalances` (`SlotsBalance`) is
  about a cardinality: `SlotInv` says that the served requests are finitely many, and each
  step adds one, removes one or, in a crash, leaves none.
- `FencedLease`: types, `NoInterleavedWriters` and `ReleaseSparesSuccessor`. The
  invariant adds that tokens of different clients differ and never exceed the counter,
  that accepted tokens never decrease, and that a recorded write carries its holder's
  token.
- `Startup`: `SchemaIsSerialized` (`NoSchemaCollision`), because whoever is between the
  lock and the end of its transaction is the only holder of the lock (`SchemaInv`), and
  `AdvisoriesSurviveDowntime` (`DowntimeLosesNothing`), because a listener that was up
  found its stream and streams stay (`CaptureInv`).

Only model-checked: liveness (`EveryJobSettles`, `KeepsLifecycle`, `HandsOver`,
`KilledJobRecovers`, `PlatformComesUp`), which is beyond the prover
because it rests on fairness and so on ENABLED. Of `KeepsLifecycle` and `HandsOver` the safety
part is proved. Every invariant and every action property of a passing run is proved.

## Not modelled

- HTTP validation and rendering, `healthz`, the chaos page and the list of recent jobs
  it shows: they read, or render what was read. `replay_events` is called nowhere.
- `parse_advisory` and JSON encoding: the subject carries nothing but advisories, and
  other messages are acked without effect.
- Telemetry: spans, meters and exporters, on which no state of the system depends.
- What the NATS client does when it subscribes to a consumer that is not there: it
  decides, in code outside this repository, which settings the consumer
  gets. `Startup` takes the subscription to succeed.
- Deployment files, the scripts that draw figures, and the autoscaler.
- Loss of data by the database, the broker or the key/value store: the code takes all
  three to be durable while they are needed (an expired or evicted key is a key that
  expires, which the models allow at any time for workers that are not punctual).
