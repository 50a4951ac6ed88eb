------------------------------ MODULE JetStream ------------------------------
(***************************************************************************)
(* The broker as orbiter uses it (external code, modelled from worker/main *)
(* and dlq/listener): a work-queue stream with one durable pull consumer,  *)
(* explicit acks, an AckWait timer and MaxDeliver.  A delivery reply names *)
(* the stream message, not the delivery: an ack or term from any delivery  *)
(* removes the message for everyone.  When the last permitted delivery is  *)
(* given back, by a nak or by AckWait, the message stays in the stream,    *)
(* is delivered no more, and a max-deliveries advisory is published.       *)
(***************************************************************************)
EXTENDS Naturals

CONSTANTS
    Message,     \* stream sequence numbers
    MaxDeliver   \* settings.max_deliver

ASSUME BrokerAssumption ==
    /\ Message \subseteq Nat \ {0}
    /\ MaxDeliver \in Nat \ {0}

VARIABLES
    stream,      \* the work stream and the consumer's state of each message
    advisories   \* messages whose max-deliveries advisory was published

brokerVars == <<stream, advisories>>

\* "unsent": a sequence number the stream has not reached yet.
Status == {"unsent", "ready", "pending", "exhausted", "gone"}

\* A relay's publish.
publish(m) ==
    /\ stream[m].status = "unsent"
    /\ stream' = [stream EXCEPT ![m].status = "ready"]
    /\ UNCHANGED advisories

\* One pull: a ready message is handed out and awaits its reply.
deliver(m) ==
    /\ stream[m].status = "ready"
    /\ stream' = [stream EXCEPT ![m].status = "pending", ![m].num_delivered = @ + 1]
    /\ UNCHANGED advisories

\* ack and term: the work-queue stream drops the message.
settle(m) ==
    /\ stream' = [stream EXCEPT ![m].status = "gone"]
    /\ UNCHANGED advisories

\* nak, and AckWait running out: redeliver, unless deliveries are used up.
give_back(m) ==
    IF stream[m].status # "pending" THEN UNCHANGED brokerVars
    ELSE IF stream[m].num_delivered < MaxDeliver
    THEN /\ stream' = [stream EXCEPT ![m].status = "ready"]
         /\ UNCHANGED advisories
    ELSE /\ stream' = [stream EXCEPT ![m].status = "exhausted"]
         /\ advisories' = advisories \union {m}
==============================================================================
