----------------------------- MODULE TimedGuard ------------------------------
(***************************************************************************)
(* The times of config.py at work on one job: the claim's and the lease's  *)
(* time to live, AckWait, the delays of naks, MaxDeliver and the job's     *)
(* duration.  WorkerFleet lets these run out in any order; here they are   *)
(* clocks that count down, so that the margins between them can be asked   *)
(* about.  Calls that follow one another without waiting happen at one     *)
(* instant; WorkerFleet takes them apart.                                  *)
(***************************************************************************)
EXTENDS Naturals

CONSTANTS
    Message,       \* messages of the job: one, or more if the relay repeated itself
    MaxDeliver,    \* settings.max_deliver
    AckWait,       \* settings.ack_wait_s
    LeaseTtl,      \* settings.lease_ttl_s, for the claim and for the lease
    Latency,       \* how long a live worker takes for the next call, at most
    BounceDelay,   \* what rng.uniform(4.0, 9.0) draws
    FailDelay,     \* min(2**attempt, 30)
    Duration,      \* payload["duration_ms"]
    MaxKills,      \* bound on kills
    MaxFailures    \* bound on executions that fail

Delivery == Message \X (1..MaxDeliver)
NoDelivery == <<0, 0>>

ASSUME TimesAssumption ==
    /\ Message \subseteq Nat \ {0}
    /\ {MaxDeliver, AckWait, LeaseTtl} \subseteq Nat \ {0}
    /\ {Latency, Duration, MaxKills, MaxFailures} \subseteq Nat
    /\ BounceDelay \subseteq Nat
    /\ FailDelay \in [1..MaxDeliver -> Nat]

VARIABLES
    status,    \* of each message: ready, pending, delayed, exhausted or gone
    num,       \* its num_delivered
    timer,     \* while pending, the rest of its AckWait; while delayed, of its delay
    phase,     \* of each delivery: where its handler is
    left,      \* how long it may, or while running will, stay there
    claim,     \* the claim: its delivery and the rest of its time to live
    lease,     \* the lease, likewise
    row,       \* the job's state
    newest,    \* the delivery whose token the row carries
    kills,
    failures

broker == <<status, num, timer>>
vars == <<status, num, timer, phase, left, claim, lease, row, newest, kills, failures>>

Busy == {"received", "claimed", "running", "closing"}

\* An expired key and a deleted one look the same.
NoKey == [by |-> NoDelivery, left |-> 0]

\* A key that lives as long as AckWait: every timeout the same 30 seconds.
LockstepKey(d) == [by |-> d, left |-> AckWait]

key_for(d) == [by |-> d, left |-> LeaseTtl]

delete_if_own(key, d) == IF key.by = d THEN NoKey ELSE key

\* Duplicates of the message are there or were never published.
Init ==
    /\ status \in [Message -> {"ready", "gone"}]
    /\ \E m \in Message : status[m] = "ready"
    /\ num = [m \in Message |-> 0]
    /\ timer = [m \in Message |-> 0]
    /\ phase = [d \in Delivery |-> "none"]
    /\ left = [d \in Delivery |-> 0]
    /\ claim = NoKey /\ lease = NoKey
    /\ row = "queued" /\ newest = NoDelivery
    /\ kills = 0 /\ failures = 0

Enter(d, p, time) ==
    /\ phase' = [phase EXCEPT ![d] = p]
    /\ left' = [left EXCEPT ![d] = time]

settle(m) ==
    /\ status' = [status EXCEPT ![m] = "gone"]
    /\ timer' = [timer EXCEPT ![m] = 0]
    /\ UNCHANGED num

\* A bounce without a delay.
NakAtOnce(m, delay) ==
    /\ status' = [status EXCEPT ![m] = IF @ = "pending" THEN "delayed" ELSE @]
    /\ timer' = [timer EXCEPT ![m] = 0]
    /\ UNCHANGED num

nak(m, delay) ==
    IF status[m] # "pending" THEN UNCHANGED broker
    ELSE /\ status' = [status EXCEPT ![m] = "delayed"]
         /\ timer' = [timer EXCEPT ![m] = delay]
         /\ UNCHANGED num
------------------------------------------------------------------------------
Deliver(m) ==
    /\ status[m] = "ready"
    /\ status' = [status EXCEPT ![m] = "pending"]
    /\ num' = [num EXCEPT ![m] = @ + 1]
    /\ timer' = [timer EXCEPT ![m] = AckWait]
    /\ Enter(<<m, num[m] + 1>>, "received", Latency)
    /\ UNCHANGED <<claim, lease, row, newest, kills, failures>>

\* A message whose AckWait ran out counts as used up.
ExhaustOnTimeout(m) ==
    /\ status[m] \in {"pending", "delayed"} /\ timer[m] = 0
    /\ status' = [status EXCEPT ![m] = IF @ = "delayed" /\ num[m] < MaxDeliver THEN "ready" ELSE "exhausted"]
    /\ UNCHANGED <<num, timer, phase, left, claim, lease, row, newest, kills, failures>>

\* One delivery too many.
RedeliverMore(m) ==
    /\ status[m] \in {"pending", "delayed"} /\ timer[m] = 0
    /\ status' = [status EXCEPT ![m] = IF num[m] <= MaxDeliver THEN "ready" ELSE "exhausted"]
    /\ UNCHANGED <<num, timer, phase, left, claim, lease, row, newest, kills, failures>>

\* Deliveries are used up only when the next one falls due.
Redeliver(m) ==
    /\ status[m] \in {"pending", "delayed"}
    /\ timer[m] = 0
    /\ status' = [status EXCEPT ![m] = IF num[m] < MaxDeliver THEN "ready" ELSE "exhausted"]
    /\ UNCHANGED <<num, timer, phase, left, claim, lease, row, newest, kills, failures>>

\* The dead-letter listener, on the advisory.
Quarantine(m) ==
    /\ status[m] = "exhausted"
    /\ settle(m)
    /\ row' = IF row \in {"queued", "running"} THEN "dead_letter" ELSE row
    /\ UNCHANGED <<phase, left, claim, lease, newest, kills, failures>>

\* try_claim.  The done marker outlives every run.
Claim(d) ==
    /\ phase[d] = "received"
    /\ \/ /\ row = "succeeded"
          /\ settle(d[1])
          /\ Enter(d, "over", 0)
          /\ UNCHANGED claim
       \/ /\ row # "succeeded" /\ claim.left > 0
          /\ \E delay \in BounceDelay : nak(d[1], delay)
          /\ Enter(d, "over", 0)
          /\ UNCHANGED claim
       \/ /\ row # "succeeded" /\ claim.left = 0
          /\ claim' = key_for(d)
          /\ Enter(d, "claimed", Latency)
          /\ UNCHANGED broker
    /\ UNCHANGED <<lease, row, newest, kills, failures>>

\* acquire, and STARTED under the token it brought: the newest there is.
Start(d) ==
    /\ phase[d] = "claimed"
    /\ \/ /\ lease.left > 0
          /\ claim' = delete_if_own(claim, d)
          /\ \E delay \in BounceDelay : nak(d[1], delay)
          /\ Enter(d, "over", 0)
          /\ UNCHANGED <<lease, row, newest>>
       \/ /\ lease.left = 0 /\ row \in {"queued", "running"}
          /\ lease' = key_for(d)
          /\ row' = "running" /\ newest' = d
          /\ Enter(d, "running", Duration)
          /\ UNCHANGED <<broker, claim>>
       \/ /\ lease.left = 0 /\ row \notin {"queued", "running"}
          /\ lease' = key_for(d)
          /\ claim' = delete_if_own(claim, d)
          /\ settle(d[1])
          /\ Enter(d, "closing", Latency)
          /\ UNCHANGED <<row, newest>>
    /\ UNCHANGED <<kills, failures>>

Finished(d) == phase[d] = "running" /\ left[d] = 0

\* COMPLETED: accepted, or the obsolete delivery is terminated, or it stands down.
Complete(d) ==
    /\ Finished(d)
    /\ \/ /\ row = "running" /\ newest = d
          /\ row' = "succeeded"
          /\ settle(d[1])
          /\ claim' = delete_if_own(claim, d)
       \/ /\ row # "running"
          /\ settle(d[1])
          /\ claim' = delete_if_own(claim, d)
          /\ UNCHANGED row
       \/ /\ row = "running" /\ newest # d
          /\ UNCHANGED <<broker, claim, row>>
    /\ Enter(d, "closing", Latency)
    /\ UNCHANGED <<lease, newest, kills, failures>>

\* SimulatedFailure: REQUEUED and a nak, or FAILED and a term; a write that is
\* refused there ends the process, whose claim stays.
Fail(d) ==
    /\ Finished(d)
    /\ failures < MaxFailures /\ failures' = failures + 1
    /\ \/ /\ row = "running" /\ newest = d
          /\ claim' = delete_if_own(claim, d)
          /\ IF d[2] < MaxDeliver
             THEN row' = "queued" /\ nak(d[1], FailDelay[d[2]])
             ELSE row' = "failed" /\ settle(d[1])
       \/ /\ row # "running" \/ newest # d
          /\ UNCHANGED <<broker, claim, row>>
    /\ Enter(d, "closing", Latency)
    /\ UNCHANGED <<lease, newest, kills>>

\* The finally block.
Release(d) ==
    /\ phase[d] = "closing"
    /\ lease' = delete_if_own(lease, d)
    /\ Enter(d, "over", 0)
    /\ UNCHANGED <<broker, claim, row, newest, kills, failures>>

Kill(d) ==
    /\ phase[d] \in Busy
    /\ kills < MaxKills /\ kills' = kills + 1
    /\ Enter(d, "over", 0)
    /\ UNCHANGED <<broker, claim, lease, row, newest, failures>>

Pred(n) == IF n = 0 THEN 0 ELSE n - 1

\* A second passes, unless something is due first.
Tick ==
    /\ \A m \in Message : status[m] \in {"pending", "delayed"} => timer[m] > 0
    /\ \A d \in Delivery : phase[d] \in Busy => left[d] > 0
    /\ timer' = [m \in Message |-> Pred(timer[m])]
    /\ left' = [d \in Delivery |-> Pred(left[d])]
    /\ claim' = IF claim.left > 1 THEN [claim EXCEPT !.left = @ - 1] ELSE NoKey
    /\ lease' = IF lease.left > 1 THEN [lease EXCEPT !.left = @ - 1] ELSE NoKey
    /\ UNCHANGED <<status, num, phase, row, newest, kills, failures>>

Step(d) == Claim(d) \/ Start(d) \/ Complete(d) \/ Fail(d) \/ Release(d)

Next ==
    \/ \E m \in Message : Deliver(m) \/ Redeliver(m) \/ Quarantine(m)
    \/ \E d \in Delivery : Step(d) \/ Kill(d)
    \/ Tick

Spec == Init /\ [][Next]_vars

\* Time passes, an idle worker exists, and the listener is up.
FairSpec ==
    /\ Spec
    /\ WF_vars(Tick)
    /\ \A m \in Message : WF_vars(Deliver(m)) /\ WF_vars(Redeliver(m)) /\ WF_vars(Quarantine(m))
    /\ \A d \in Delivery : WF_vars(Step(d))
------------------------------------------------------------------------------
(* Properties *)

TimedKey == [by : Delivery \union {NoDelivery}, left : Nat]

\* Every variable stays in its type.
TypeOK ==
    /\ status \in [Message -> {"ready", "pending", "delayed", "exhausted", "gone"}]
    /\ num \in [Message -> 0..MaxDeliver] /\ timer \in [Message -> Nat]
    /\ phase \in [Delivery -> Busy \union {"none", "over"}] /\ left \in [Delivery -> Nat]
    /\ claim \in TimedKey /\ lease \in TimedKey
    /\ row \in {"queued", "running", "succeeded", "failed", "dead_letter"}
    /\ newest \in Delivery \union {NoDelivery}
    /\ kills \in Nat /\ failures \in Nat

\* The margin of config.py ("DELIBERATELY shorter than ack_wait_s"): whatever was
\* killed, a delivery never finds the claim of an earlier delivery of its own
\* message, the lockstep in which a killed job starved.
OwnClaimIsGone ==
    \A d \in Delivery : phase[d] = "received" /\ claim.left > 0 => claim.by[1] # d[1]

\* No execution has failed and one message of the job alone has been delivered.
Undisturbed ==
    /\ failures = 0
    /\ \A m, n \in Message : num[m] > 0 /\ num[n] > 0 => m = n

\* In such a run a delivery is used up only by a worker that was killed, never by
\* bouncing off what the killed worker left behind (README.md: "five no-progress
\* deliveries, straight to the DLQ. Fix: desynchronized TTLs").
NothingWasted == Undisturbed => \A m \in Message : num[m] <= 1 + kills

\* While nothing has failed and nobody was killed, no job is quarantined under a
\* worker that is executing it and whose token is the newest (main.py bounces
\* duplicates with a delay so long that MaxDeliver bounces outlast the claim they
\* bounce off).
QuarantineSparesRunning ==
    kills = 0 /\ failures = 0 /\ row = "dead_letter" =>
       \A d \in Delivery : phase[d] = "running" => newest # d

\* Such a job succeeds when its workers are killed fewer than MaxDeliver times
\* (README.md: "the fixed system recovers a murdered mid-flight job").
KilledJobRecovers == <>(Undisturbed => row = "succeeded")
==============================================================================
