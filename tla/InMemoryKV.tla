----------------------------- MODULE InMemoryKV ------------------------------
(***************************************************************************)
(* orbiter.kv with its clock: InMemoryKV, which deletes an expired entry   *)
(* only when it next comes across it, and ValkeyKV, which rounds a time to *)
(* live up to whole milliseconds and hands it to the server.  No method of *)
(* InMemoryKV awaits, and a Valkey command is atomic: each is one step.    *)
(***************************************************************************)
EXTENDS Naturals

CONSTANTS
    Key, Value,
    Ttl,           \* times to live callers ask for
    Seconds,       \* how far advance moves the clock
    Millisecond,   \* in units of time
    MaxTime        \* bound on the clock

ASSUME KvAssumption ==
    /\ Ttl \union Seconds \subseteq Nat
    /\ Millisecond \in Nat \ {0} /\ MaxTime \in Nat
    /\ << >> \notin Value   \* no key holds None

VARIABLES
    backend,    \* which of the two stores it is
    now,        \* the clock
    data,       \* _data: the entry of each key, expired ones included
    granted     \* history: the set_if_absent of each key that last answered True,
                \* unless a compare_and_delete has answered True since

kvVars == <<backend, now, data, granted>>

None == [value |-> << >>, expires_at |-> 0]
NoGrant == [value |-> << >>, since |-> 0, ttl |-> 0]

KvInit ==
    /\ backend \in {"InMemoryKV", "ValkeyKV"}
    /\ now = 0
    /\ data = [k \in Key |-> None]
    /\ granted = [k \in Key |-> NoGrant]

\* px=max(1, math.ceil(ttl_s * 1000))
px(ttl) == IF ttl = 0 THEN 1 ELSE (ttl + Millisecond - 1) \div Millisecond

lifetime(ttl) == IF backend = "ValkeyKV" THEN px(ttl) * Millisecond ELSE ttl

\* An entry that outlives its last moment.
Lingers(k) == IF now > data[k].expires_at THEN None ELSE data[k]

_live(k) == IF now >= data[k].expires_at THEN None ELSE data[k]
------------------------------------------------------------------------------
\* advance, or time passing.
advance(seconds) ==
    /\ now + seconds <= MaxTime
    /\ now' = now + seconds
    /\ UNCHANGED <<backend, data, granted>>

get(k) ==
    /\ data' = [data EXCEPT ![k] = _live(k)]
    /\ UNCHANGED <<backend, now, granted>>

\* A set that does not look first.
SetAlways(k, v, ttl) ==
    /\ data' = [data EXCEPT ![k] = [value |-> v, expires_at |-> now + lifetime(ttl)]]
    /\ granted' = [granted EXCEPT ![k] = [value |-> v, since |-> now, ttl |-> ttl]]
    /\ UNCHANGED <<backend, now>>

set_if_absent(k, v, ttl) ==
    /\ IF _live(k) # None
       THEN UNCHANGED <<data, granted>>
       ELSE /\ data' = [data EXCEPT ![k] = [value |-> v, expires_at |-> now + lifetime(ttl)]]
            /\ granted' = [granted EXCEPT ![k] = [value |-> v, since |-> now, ttl |-> ttl]]
    /\ UNCHANGED <<backend, now>>

compare_and_delete(k, expected) ==
    /\ IF _live(k).value # expected
       THEN data' = [data EXCEPT ![k] = _live(k)] /\ UNCHANGED granted
       ELSE /\ data' = [data EXCEPT ![k] = None]
            /\ granted' = [granted EXCEPT ![k] = NoGrant]
    /\ UNCHANGED <<backend, now>>

KvNext ==
    \/ \E seconds \in Seconds : advance(seconds)
    \/ \E k \in Key : get(k)
    \/ \E k \in Key, v \in Value : compare_and_delete(k, v) \/ \E ttl \in Ttl : set_if_absent(k, v, ttl)

KvSpec == KvInit /\ [][KvNext]_kvVars
------------------------------------------------------------------------------
(* Properties *)

\* A caller that was told True has the key for the whole time it asked for, on
\* either store, unless it deletes it; and no longer, but for the rounding of
\* ValkeyKV.  The margins of config.py are counted on it.
LivesItsTime ==
    \A k \in Key :
       LET g == granted[k]
           end == g.since + g.ttl
           slack == IF backend = "ValkeyKV" THEN Millisecond ELSE 0
       IN  /\ g # NoGrant /\ now < end => _live(k).value = g.value
           /\ g = NoGrant \/ now >= end + slack => _live(k) = None

K == INSTANCE ExpiringKeys WITH entry <- [k \in Key |-> _live(k).value]

\* What leases and claims rely on, and what FencedLease and WorkerFleet model, is
\* what the store does, for all that it keeps expired entries in its dict.
ImplementsKeys == K!Spec
==============================================================================
