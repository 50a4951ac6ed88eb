-------------------------- MODULE TimedGuardProofs ---------------------------
(***************************************************************************)
(* The two modules with a clock, for all times: InMemoryKV keeps a key as  *)
(* long as it was asked to, and TimedGuard's margin between lease_ttl_s    *)
(* and ack_wait_s is enough, for any number of messages, kills and failing *)
(* executions.                                                             *)
(***************************************************************************)
EXTENDS TimedGuard, InMemoryKV, TLAPS
------------------------------------------------------------------------------
(* The store *)

Slack == IF backend = "ValkeyKV" THEN Millisecond ELSE 0

\* What an entry of the dict says of the grant it stems from: it carries the value
\* and ends with the lifetime, or it was found expired and is gone.
EntryInv(k) ==
    IF granted[k] = NoGrant THEN data[k].expires_at <= now
    ELSE LET g == granted[k] IN
         /\ g.value \in Value
         /\ \/ data[k] = [value |-> g.value, expires_at |-> g.since + lifetime(g.ttl)]
            \/ data[k] = None /\ g.since + lifetime(g.ttl) <= now

StoreInv ==
    /\ backend \in {"InMemoryKV", "ValkeyKV"} /\ now \in Nat
    /\ data \in [Key -> [value : Value \union {<< >>}, expires_at : Nat]]
    /\ granted \in [Key -> [value : Value \union {<< >>}, since : Nat, ttl : Nat]]
    /\ \A k \in Key : EntryInv(k)

\* ValkeyKV rounds up: never short of what was asked for, and by at most one
\* millisecond more.
LEMMA LifetimeBounds ==
    ASSUME StoreInv, NEW ttl \in Nat
    PROVE  lifetime(ttl) \in Nat /\ ttl <= lifetime(ttl) /\ lifetime(ttl) <= ttl + Slack
<1> DEFINE M == Millisecond
           a == ttl + M - 1
<1>0. M \in Nat \ {0}
  BY Zenon, KvAssumption
<1> HIDE DEF M
<1>1. a \in Nat /\ a \div M \in Nat /\ (a \div M) * M <= a /\ a < (a \div M) * M + M
  <2>1. a \in Nat
    BY <1>0
  <2> HIDE DEF a
  <2>2. a \div M \in Nat /\ (a \div M) * M <= a
    BY <1>0, <2>1
  <2>3. a < (a \div M) * M + M
    BY <1>0, <2>1
  <2> QED BY Zenon, <2>1, <2>2, <2>3
<1> DEFINE q == a \div M
           t == q * M
<1>2. t \in Nat
  BY <1>0, <1>1
<1> HIDE DEF t
<1>3. t <= a /\ a < t + M
  BY Zenon, <1>1 DEF t
<1>4. CASE backend # "ValkeyKV"
  BY <1>4 DEF lifetime, Slack
<1>5. CASE backend = "ValkeyKV" /\ ttl = 0
  <2>1. lifetime(ttl) = 1 * M /\ Slack = M
    BY Zenon, <1>5 DEF lifetime, px, M, Slack
  <2> QED BY <1>0, <1>5, <2>1
<1>6. CASE backend = "ValkeyKV" /\ ttl # 0
  <2>1. lifetime(ttl) = t /\ Slack = M
    BY Zenon, <1>6 DEF lifetime, px, M, t, Slack
  <2> QED BY <1>0, <1>2, <1>3, <2>1
<1> QED BY Zenon, <1>4, <1>5, <1>6

\* An entry of the dict is alive until its last moment, and only an entry some
\* caller was granted is.
LEMMA LiveEntry ==
    ASSUME StoreInv, NEW k \in Key
    PROVE  /\ _live(k) \in [value : Value \union {<< >>}, expires_at : Nat]
           /\ granted[k] = NoGrant => _live(k) = None
           /\ granted[k] # NoGrant =>
                 _live(k) = IF now < granted[k].since + lifetime(granted[k].ttl)
                            THEN [value |-> granted[k].value,
                                  expires_at |-> granted[k].since + lifetime(granted[k].ttl)]
                            ELSE None
<1> DEFINE g == granted[k]
           end == g.since + lifetime(g.ttl)
<1>1. g.since \in Nat /\ g.ttl \in Nat /\ now \in Nat /\ data[k].expires_at \in Nat /\ EntryInv(k)
  BY Zenon DEF StoreInv
<1>2. end \in Nat
  BY <1>1, LifetimeBounds
<1>3. _live(k) \in [value : Value \union {<< >>}, expires_at : Nat]
  BY Zenon DEF _live, StoreInv, None
<1>4. ASSUME g = NoGrant PROVE _live(k) = None
  BY Zenon, <1>1, <1>4 DEF EntryInv, _live
<1> HIDE DEF end
<1>5. ASSUME g # NoGrant, data[k] = [value |-> g.value, expires_at |-> end]
      PROVE  _live(k) = IF now < end THEN [value |-> g.value, expires_at |-> end] ELSE None
  <2>1. data[k].expires_at = end
    BY <1>5
  <2> QED BY <1>1, <1>2, <1>5, <2>1 DEF _live
<1>6. ASSUME data[k] = None, end <= now
      PROVE  _live(k) = None /\ ~ (now < end)
  BY <1>1, <1>2, <1>6 DEF _live
<1>7. g # NoGrant => \/ data[k] = [value |-> g.value, expires_at |-> end]
                     \/ data[k] = None /\ end <= now
  BY Zenon, <1>1 DEF EntryInv, end
<1> QED BY Zenon, <1>3, <1>4, <1>5, <1>6, <1>7 DEF end

\* Time passes and methods run: dict and grants keep telling the same.
LEMMA NextStore == StoreInv /\ [KvNext]_kvVars => StoreInv'
<1> SUFFICES ASSUME StoreInv, [KvNext]_kvVars PROVE StoreInv'
  OBVIOUS
<1> DEFINE Entry == [value : Value \union {<< >>}, expires_at : Nat]
           Grant == [value : Value \union {<< >>}, since : Nat, ttl : Nat]
<1>0. /\ backend \in {"InMemoryKV", "ValkeyKV"} /\ now \in Nat
      /\ data \in [Key -> Entry] /\ granted \in [Key -> Grant]
      /\ \A k \in Key : EntryInv(k)
  BY Zenon DEF StoreInv
<1>1. None \in Entry /\ NoGrant \in Grant /\ None.expires_at = 0
  BY Zenon DEF None, NoGrant
<1> HIDE DEF Entry, Grant
<1>2. ASSUME NEW seconds \in Seconds, advance(seconds) PROVE StoreInv'
  <2>1. now' \in Nat /\ now <= now' /\ UNCHANGED <<backend, data, granted>>
    BY <1>0, <1>2, KvAssumption DEF advance
  <2>2. ASSUME NEW k \in Key PROVE EntryInv(k)'
    <3>1. /\ EntryInv(k) /\ data[k].expires_at \in Nat
          /\ granted[k].since \in Nat /\ granted[k].ttl \in Nat
      BY Zenon, <1>0 DEF Entry, Grant
    <3>2. granted[k].since + lifetime(granted[k].ttl) \in Nat
      BY <3>1, LifetimeBounds
    <3>3. \A t : lifetime(t)' = lifetime(t)
      BY Zenon, <2>1 DEF lifetime
    <3> QED BY <1>0, <2>1, <3>1, <3>2, <3>3 DEF EntryInv
  <2> QED BY Zenon, <1>0, <2>1, <2>2 DEF StoreInv, Entry, Grant
<1>3. ASSUME NEW k \in Key, UNCHANGED <<backend, now>>,
             NEW e \in Entry, NEW g \in Grant,
             data' = [data EXCEPT ![k] = e], granted' = [granted EXCEPT ![k] = g],
             EntryInv(k)'
      PROVE  StoreInv'
  <2>1. \A i \in Key \ {k} : data'[i] = data[i] /\ granted'[i] = granted[i]
    BY Zenon, <1>0, <1>3
  <2>2. data' \in [Key -> Entry] /\ granted' \in [Key -> Grant]
    BY Zenon, <1>0, <1>3
  <2>3. \A t : lifetime(t)' = lifetime(t)
    BY Zenon, <1>3 DEF lifetime
  <2>4. \A i \in Key \ {k} : EntryInv(i)'
    BY Zenon, <1>0, <1>3, <2>1, <2>3 DEF EntryInv
  <2> QED BY Zenon, <1>0, <1>3, <2>2, <2>4 DEF StoreInv, Entry, Grant
<1>4. ASSUME NEW k \in Key, UNCHANGED <<backend, now, granted>>,
             data' = [data EXCEPT ![k] = _live(k)]
      PROVE  StoreInv'
  <2>1. /\ _live(k) \in Entry /\ data'[k] = _live(k)
        /\ granted' = [granted EXCEPT ![k] = granted[k]]
    BY Zenon, <1>0, <1>4, LiveEntry DEF Entry
  <2>2. EntryInv(k)'
    <3>1. EntryInv(k) /\ data[k].expires_at \in Nat
      BY Zenon, <1>0 DEF Entry
    <3>2. \A t : lifetime(t)' = lifetime(t)
      BY Zenon, <1>4 DEF lifetime
    <3>3. \/ data'[k] = data[k]
          \/ data'[k] = None /\ now >= data[k].expires_at
      BY Zenon, <2>1 DEF _live
    <3>4. ASSUME data[k] = [value |-> granted[k].value,
                            expires_at |-> granted[k].since + lifetime(granted[k].ttl)]
          PROVE  data[k].expires_at = granted[k].since + lifetime(granted[k].ttl)
      BY <3>4
    <3> QED BY <1>0, <1>1, <1>4, <3>1, <3>2, <3>3, <3>4 DEF EntryInv
  <2> QED BY Zenon, <1>0, <1>3, <1>4, <2>1, <2>2 DEF Grant
<1>5. ASSUME NEW k \in Key, NEW v \in Value, NEW ttl \in Ttl, set_if_absent(k, v, ttl)
      PROVE  StoreInv'
  <2>1. CASE _live(k) # None
    <3>1. UNCHANGED kvVars
      BY Zenon, <1>5, <2>1 DEF set_if_absent, kvVars
    <3> QED BY Zenon, <3>1 DEF kvVars, StoreInv, EntryInv, lifetime
  <2>2. CASE _live(k) = None
    <3> DEFINE e == [value |-> v, expires_at |-> now + lifetime(ttl)]
               g == [value |-> v, since |-> now, ttl |-> ttl]
    <3>1. /\ data' = [data EXCEPT ![k] = e] /\ granted' = [granted EXCEPT ![k] = g]
          /\ UNCHANGED <<backend, now>>
      BY Zenon, <1>5, <2>2 DEF set_if_absent
    <3>2. ttl \in Nat /\ lifetime(ttl) \in Nat
      BY Zenon, KvAssumption, LifetimeBounds
    <3>3. e \in Entry /\ g \in Grant
      BY <1>0, <3>2 DEF Entry, Grant
    <3>4. g # NoGrant
      BY Zenon, KvAssumption DEF NoGrant
    <3>5. EntryInv(k)'
      <4>1. data'[k] = e /\ granted'[k] = g
        BY Zenon, <1>0, <3>1
      <4>2. lifetime(ttl)' = lifetime(ttl)
        BY Zenon, <3>1 DEF lifetime
      <4>3. g.value = v /\ g.since = now /\ g.ttl = ttl
        OBVIOUS
      <4> HIDE DEF g
      <4> QED BY Zenon, <3>4, <4>1, <4>2, <4>3 DEF EntryInv
    <3> HIDE DEF e, g
    <3> QED BY Zenon, <1>3, <3>1, <3>3, <3>5
  <2> QED BY Zenon, <2>1, <2>2
<1>6. ASSUME NEW k \in Key, NEW v \in Value, compare_and_delete(k, v) PROVE StoreInv'
  <2>1. CASE _live(k).value # v
    <3>1. data' = [data EXCEPT ![k] = _live(k)] /\ UNCHANGED <<backend, now, granted>>
      BY Zenon, <1>6, <2>1 DEF compare_and_delete
    <3> QED BY Zenon, <1>4, <3>1
  <2>2. CASE _live(k).value = v
    <3>1. /\ data' = [data EXCEPT ![k] = None] /\ granted' = [granted EXCEPT ![k] = NoGrant]
          /\ UNCHANGED <<backend, now>>
      BY Zenon, <1>6, <2>2 DEF compare_and_delete
    <3>2. data'[k] = None /\ granted'[k] = NoGrant
      BY Zenon, <1>0, <3>1
    <3>3. EntryInv(k)'
      BY <1>0, <1>1, <3>1, <3>2 DEF EntryInv
    <3> QED BY Zenon, <1>1, <1>3, <3>1, <3>3
  <2> QED BY Zenon, <2>1, <2>2
<1>7. ASSUME NEW k \in Key, get(k) PROVE StoreInv'
  BY Zenon, <1>4, <1>7 DEF get
<1>8. CASE UNCHANGED kvVars
  BY Zenon, <1>8 DEF kvVars, StoreInv, EntryInv, lifetime
<1> QED BY Zenon, <1>2, <1>5, <1>6, <1>7, <1>8 DEF KvNext

\* The store starts empty.
LEMMA InitStore == KvInit => StoreInv
<1> SUFFICES ASSUME KvInit PROVE StoreInv
  OBVIOUS
<1>1. None \in [value : Value \union {<< >>}, expires_at : Nat] /\ None.expires_at = 0
  BY Zenon DEF None
<1>2. NoGrant \in [value : Value \union {<< >>}, since : Nat, ttl : Nat]
  BY Zenon DEF NoGrant
<1> QED BY <1>1, <1>2 DEF KvInit, StoreInv, EntryInv

\* set_if_absent on either store: a key granted for a time is there for the whole
\* of it unless its value is deleted by name, and gone one rounding later.
THEOREM KeysLiveTheirTime == KvSpec => []LivesItsTime
<1>1. StoreInv => LivesItsTime
  <2> SUFFICES ASSUME StoreInv, NEW k \in Key
               PROVE  /\ granted[k] # NoGrant /\ now < granted[k].since + granted[k].ttl
                            => _live(k).value = granted[k].value
                      /\ granted[k] = NoGrant
                         \/ now >= granted[k].since + granted[k].ttl + Slack
                            => _live(k) = None
    BY Zenon DEF LivesItsTime, Slack
  <2>1. granted[k].since \in Nat /\ granted[k].ttl \in Nat /\ now \in Nat /\ Slack \in Nat
    BY Zenon, KvAssumption DEF StoreInv, Slack
  <2>2. /\ lifetime(granted[k].ttl) \in Nat /\ granted[k].ttl <= lifetime(granted[k].ttl)
        /\ lifetime(granted[k].ttl) <= granted[k].ttl + Slack
    BY Zenon, <2>1, LifetimeBounds
  <2> QED BY <2>1, <2>2, LiveEntry
<1> QED BY <1>1, InitStore, NextStore, PTL DEF KvSpec

\* Both stores implement the expiring keys that leases and claims rely on: every
\* method sets a free key, deletes a value by name or changes nothing a caller can
\* see, and time only makes entries expire.
THEOREM StoreImplementsKeys == KvSpec => ImplementsKeys
<1> DEFINE entry == [k \in Key |-> _live(k).value]
<1>1. KvInit => K!Init
  BY DEF KvInit, K!Init, K!Absent, _live, None
<1>2. StoreInv /\ [KvNext]_kvVars => [K!Next]_entry
  <2> SUFFICES ASSUME StoreInv, [KvNext]_kvVars PROVE K!Next \/ UNCHANGED entry
    OBVIOUS
  <2>0. /\ now \in Nat /\ data \in [Key -> [value : Value \union {<< >>}, expires_at : Nat]]
        /\ None.value = << >>
    BY Zenon DEF StoreInv, None
  <2>1. ASSUME NEW seconds \in Seconds, advance(seconds) PROVE K!Next
    <3> DEFINE gone == {k \in Key : _live(k)' = None}
    <3>1. now' \in Nat /\ now <= now' /\ UNCHANGED data
      BY <2>0, <2>1, KvAssumption DEF advance, StoreInv
    <3>2. \A k \in Key : _live(k)' = None \/ _live(k)' = _live(k)
      BY <2>0, <3>1 DEF _live
    <3>3. K!Expire(gone)
      BY Zenon, <2>0, <3>2 DEF K!Expire, K!Absent
    <3> QED BY Zenon, <3>3 DEF K!Next
  <2>2. ASSUME NEW k \in Key, data' = [data EXCEPT ![k] = _live(k)], UNCHANGED now
        PROVE  UNCHANGED entry
    <3>1. \A i \in Key : _live(i)' = _live(i)
      BY Zenon, <2>0, <2>2 DEF _live, None
    <3> QED BY Zenon, <3>1
  <2>3. ASSUME NEW k \in Key, NEW v \in Value, NEW ttl \in Ttl, set_if_absent(k, v, ttl)
        PROVE  K!Next \/ UNCHANGED entry
    <3>1. CASE _live(k) # None
      <4>1. UNCHANGED <<data, now>>
        BY Zenon, <2>3, <3>1 DEF set_if_absent
      <4> QED BY Zenon, <4>1 DEF _live
    <3>2. CASE _live(k) = None
      <4>1. /\ data' = [data EXCEPT ![k] = [value |-> v, expires_at |-> now + lifetime(ttl)]]
            /\ UNCHANGED now
        BY Zenon, <2>3, <3>2 DEF set_if_absent
      <4>2. _live(k)'.value \in {v, << >>} /\ \A i \in Key \ {k} : _live(i)' = _live(i)
        BY Zenon, <2>0, <4>1 DEF _live
      <4>3. entry[k] = << >>
        BY Zenon, <2>0, <3>2
      <4>4. CASE _live(k)'.value = v
        <5>1. entry' = [entry EXCEPT ![k] = v]
          BY Zenon, <4>2, <4>4
        <5>2. K!Set(k, v)
          BY Zenon, <4>3, <5>1 DEF K!Set, K!nx_reply, K!set_if_absent, K!Absent
        <5> QED BY Zenon, <5>2 DEF K!Next
      <4>5. CASE _live(k)'.value = << >>
        BY Zenon, <4>2, <4>3, <4>5
      <4> QED BY Zenon, <4>2, <4>4, <4>5
    <3> QED BY Zenon, <3>1, <3>2
  <2>4. ASSUME NEW k \in Key, NEW v \in Value, compare_and_delete(k, v)
        PROVE  K!Next \/ UNCHANGED entry
    <3>1. CASE _live(k).value # v
      BY Zenon, <2>2, <2>4, <3>1 DEF compare_and_delete
    <3>2. CASE _live(k).value = v
      <4>1. data' = [data EXCEPT ![k] = None] /\ UNCHANGED now
        BY Zenon, <2>4, <3>2 DEF compare_and_delete
      <4>2. _live(k)'.value = << >> /\ \A i \in Key \ {k} : _live(i)' = _live(i)
        BY Zenon, <2>0, <4>1 DEF _live
      <4>3. entry' = [entry EXCEPT ![k] = << >>] /\ entry[k] = v
        BY Zenon, <3>2, <4>2
      <4>4. K!Delete(k, v)
        BY Zenon, <4>3 DEF K!Delete, K!compare_and_delete, K!Absent
      <4> QED BY Zenon, <4>4 DEF K!Next
    <3> QED BY Zenon, <3>1, <3>2
  <2>5. CASE UNCHANGED kvVars
    BY Zenon, <2>5 DEF kvVars, _live
  <2>6. ASSUME NEW k \in Key, get(k) PROVE UNCHANGED entry
    BY Zenon, <2>2, <2>6 DEF get
  <2> HIDE DEF entry
  <2> QED BY Zenon, <2>1, <2>3, <2>4, <2>5, <2>6 DEF KvNext
<1> QED BY <1>1, <1>2, InitStore, NextStore, PTL DEF KvSpec, ImplementsKeys, K!Spec
------------------------------------------------------------------------------
(* The guard *)

\* A claim taken as late as possible expires before AckWait does, and a handler
\* is through before AckWait.
Margins ==
    /\ LeaseTtl + Latency <= AckWait
    /\ 2 * Latency + Duration < AckWait

\* A handler that may still reply is on the current delivery of a pending
\* message, and has the time it needs.
HandlerInv ==
    \A d \in Delivery : phase[d] \in {"received", "claimed", "running"} =>
       /\ status[d[1]] = "pending" /\ d[2] = num[d[1]]
       /\ phase[d] = "received" => left[d] + AckWait <= timer[d[1]] + Latency
       /\ phase[d] = "claimed" => left[d] + AckWait <= timer[d[1]] + 2 * Latency
       /\ phase[d] = "running" => left[d] < timer[d[1]]

\* A live claim belongs to the current delivery of a message that is pending, and
\* ends no later than its AckWait, or that will not be delivered again.
ClaimInv ==
    claim.left > 0 =>
       /\ claim.by \in Delivery
       /\ phase[claim.by] \notin {"none", "received"}
       /\ claim.by[2] = num[claim.by[1]]
       /\ \/ status[claim.by[1]] = "gone"
          \/ /\ status[claim.by[1]] = "pending"
             /\ claim.left + AckWait <= timer[claim.by[1]] + LeaseTtl + Latency

\* The types, and a message that is ready has a delivery left.
TypeInv ==
    /\ TypeOK
    /\ \A m \in Message : status[m] = "ready" => num[m] < MaxDeliver

TimeInv ==
    /\ TypeInv
    /\ HandlerInv
    /\ ClaimInv
------------------------------------------------------------------------------
(* Lemmas *)

\* Deliveries are pairs, and none is the sentinel.
LEMMA Pairs ==
    /\ \A d \in Delivery : d = <<d[1], d[2]>> /\ d[1] \in Message /\ d[2] \in 1..MaxDeliver
    /\ \A m \in Message, n \in 1..MaxDeliver :
          <<m, n>> \in Delivery /\ <<m, n>>[1] = m /\ <<m, n>>[2] = n
    /\ \A c, d \in Delivery : c[1] = d[1] /\ c[2] = d[2] => c = d
    /\ NoDelivery \notin Delivery
<1>1. \A d \in Delivery : d = <<d[1], d[2]>> /\ d[1] \in Message /\ d[2] \in 1..MaxDeliver
  BY DEF Delivery
<1>2. \A m \in Message, n \in 1..MaxDeliver :
         <<m, n>> \in Delivery /\ <<m, n>>[1] = m /\ <<m, n>>[2] = n
  BY Zenon DEF Delivery
<1>3. NoDelivery \notin Delivery
  BY Zenon, TimesAssumption DEF Delivery, NoDelivery
<1> QED
  BY Zenon, <1>1, <1>2, <1>3

\* The constants are numbers.
LEMMA Numbers ==
    /\ MaxDeliver \in Nat \ {0} /\ AckWait \in Nat \ {0} /\ LeaseTtl \in Nat \ {0}
    /\ Latency \in Nat /\ Duration \in Nat
    /\ \A delay \in BounceDelay : delay \in Nat
    /\ \A n \in 1..MaxDeliver : FailDelay[n] \in Nat
BY Zenon, TimesAssumption

\* What the key operators return.
LEMMA Keys ==
    /\ NoKey \in TimedKey /\ NoKey.left = 0
    /\ \A d \in Delivery : key_for(d) \in TimedKey /\ key_for(d).by = d /\ key_for(d).left = LeaseTtl
    /\ \A k \in TimedKey, d \in Delivery :
          /\ delete_if_own(k, d) \in TimedKey
          /\ delete_if_own(k, d).left > 0 =>
                delete_if_own(k, d) = k /\ k.by # d
BY Pairs, Numbers DEF TimedKey, NoKey, key_for, delete_if_own

\* What deliveries and the constants are is used throughout.
USE Pairs, Numbers

\* The invariant holds initially.
LEMMA InitTime == Init => TimeInv
<1> SUFFICES ASSUME Init PROVE TimeInv
  OBVIOUS
<1>1. TypeOK
  BY Keys DEF Init, TypeOK
<1>2. HandlerInv /\ ClaimInv
  BY Keys DEF Init, HandlerInv, ClaimInv
<1> QED
  BY <1>1, <1>2 DEF Init, TimeInv, TypeInv

\* Replies keep the types and change no message but their own.
LEMMA Replies ==
    ASSUME TypeOK, NEW m \in Message, NEW delay \in Nat, settle(m) \/ nak(m, delay)
    PROVE  /\ status' \in [Message -> {"ready", "pending", "delayed", "exhausted", "gone"}]
           /\ num' = num /\ timer' \in [Message -> Nat]
           /\ \A o \in Message \ {m} : status'[o] = status[o] /\ timer'[o] = timer[o]
           /\ \A o \in Message : status'[o] = "ready" => status[o] = "ready"
           /\ settle(m) => status'[m] = "gone"
BY DEF TypeOK, settle, nak, broker

\* A handler's step keeps the types, in time or late.
LEMMA StepType ==
    ASSUME TypeInv, NEW d \in Delivery, Step(d) \/ Kill(d) PROVE TypeInv'
<1> USE DEF TypeInv
<1>0. d[1] \in Message /\ d[2] \in 1..MaxDeliver
  OBVIOUS
<1>1. UNCHANGED broker \/ \E delay \in Nat : settle(d[1]) \/ nak(d[1], delay)
  BY Zenon, <1>0 DEF Step, Claim, Start, Complete, Fail, Release, Kill
<1>2. /\ num' = num /\ timer' \in [Message -> Nat]
      /\ status' \in [Message -> {"ready", "pending", "delayed", "exhausted", "gone"}]
      /\ \A m \in Message : status'[m] = "ready" => status[m] = "ready"
  <2>1. CASE UNCHANGED broker
    BY Zenon, <2>1 DEF TypeOK, broker
  <2>2. ASSUME NEW delay \in Nat, settle(d[1]) \/ nak(d[1], delay)
        PROVE  /\ num' = num /\ timer' \in [Message -> Nat]
               /\ status' \in [Message -> {"ready", "pending", "delayed", "exhausted", "gone"}]
               /\ \A m \in Message : status'[m] = "ready" => status[m] = "ready"
    BY Zenon, <1>0, <2>2, Replies
  <2> QED BY Zenon, <1>1, <2>1, <2>2
<1>3. \E p \in Busy \union {"over"}, time \in Nat : Enter(d, p, time)
  BY Zenon DEF Step, Claim, Start, Complete, Fail, Release, Kill, Busy
<1>4. phase' \in [Delivery -> Busy \union {"none", "over"}] /\ left' \in [Delivery -> Nat]
  BY <1>3 DEF TypeOK, Enter
<1>5. /\ claim' \in {claim, key_for(d), delete_if_own(claim, d)}
      /\ lease' \in {lease, key_for(d), delete_if_own(lease, d)}
  BY Zenon DEF Step, Claim, Start, Complete, Fail, Release, Kill
<1>6. claim' \in TimedKey /\ lease' \in TimedKey
  BY <1>5, Keys DEF TypeOK
<1>7. /\ row' \in {row, "queued", "running", "succeeded", "failed"} /\ newest' \in {newest, d}
      /\ kills' \in {kills, kills + 1} /\ failures' \in {failures, failures + 1}
  BY Zenon DEF Step, Claim, Start, Complete, Fail, Release, Kill
<1> QED
  BY <1>2, <1>4, <1>6, <1>7 DEF TypeOK

\* So does every step, whatever the margins.
LEMMA NextType == TypeInv /\ [Next]_vars => TypeInv'
<1> SUFFICES ASSUME TypeInv, [Next]_vars PROVE TypeInv'
  OBVIOUS
<1> USE DEF TypeInv
<1>1. ASSUME NEW m \in Message, Deliver(m) PROVE TypeInv'
  <2> DEFINE d == <<m, num[m] + 1>>
  <2>1. num[m] + 1 \in 1..MaxDeliver /\ d \in Delivery
    BY <1>1 DEF TypeOK, Deliver
  <2> HIDE DEF d
  <2>2. /\ phase' = [phase EXCEPT ![d] = "received"] /\ left' = [left EXCEPT ![d] = Latency]
        /\ status' = [status EXCEPT ![m] = "pending"] /\ timer' = [timer EXCEPT ![m] = AckWait]
        /\ num' = [num EXCEPT ![m] = num[m] + 1]
        /\ UNCHANGED <<claim, lease, row, newest, kills, failures>>
    BY Zenon, <1>1 DEF Deliver, Enter, d
  <2> QED
    BY <2>1, <2>2 DEF TypeOK, Busy
<1>2. ASSUME NEW m \in Message, Redeliver(m) PROVE TypeInv'
  BY <1>2 DEF TypeOK, Redeliver
<1>3. ASSUME NEW m \in Message, Quarantine(m) PROVE TypeInv'
  BY <1>3 DEF TypeOK, Quarantine, settle
<1>4. CASE Tick
  <2> HIDE Pairs
  <2>1. claim' \in TimedKey /\ lease' \in TimedKey
    BY <1>4, Keys DEF TypeOK, Tick, TimedKey
  <2> QED
    BY <1>4, <2>1 DEF TypeOK, Tick, Pred
<1>5. CASE UNCHANGED vars
  BY Zenon, <1>5 DEF vars, TypeOK
<1> QED
  BY Zenon, <1>1, <1>2, <1>3, <1>4, <1>5, StepType DEF Next

\* A step that touches no message, keeps the claim or lets it go, and moves no
\* handler but to the end of its delivery.
LEMMA QuietTime ==
    ASSUME TimeInv, TypeInv', UNCHANGED broker, NEW d \in Delivery,
           phase' = [phase EXCEPT ![d] = phase'[d]], phase'[d] \in {"closing", "over"},
           left' = [left EXCEPT ![d] = left'[d]],
           claim' = claim
    PROVE  TimeInv'
<1>1. HandlerInv'
  BY DEF TimeInv, TypeInv, TypeOK, HandlerInv, broker
<1>2. ClaimInv'
  BY DEF TimeInv, TypeInv, TypeOK, ClaimInv, broker
<1> QED
  BY Zenon, <1>1, <1>2 DEF TimeInv, broker

\* A handler that replies and ends its delivery: it deletes its claim before a
\* nak, and a message that is settled is delivered no more.
LEMMA ReplyTime ==
    ASSUME TimeInv, TypeInv', NEW d \in Delivery, phase[d] \in {"received", "claimed", "running"},
           NEW delay \in Nat, settle(d[1]) \/ nak(d[1], delay),
           phase' = [phase EXCEPT ![d] = phase'[d]], phase'[d] \in {"closing", "over"},
           left' = [left EXCEPT ![d] = left'[d]],
           \/ claim' = claim /\ phase[d] = "received"
           \/ claim' = delete_if_own(claim, d)
    PROVE  TimeInv'
<1>1. d[1] \in Message /\ d[2] = num[d[1]]
  BY Zenon DEF TimeInv, HandlerInv
<1>2. /\ num' = num
      /\ \A o \in Message \ {d[1]} : status'[o] = status[o] /\ timer'[o] = timer[o]
      /\ \A o \in Message : status'[o] = "ready" => status[o] = "ready"
  BY Zenon, <1>1, Replies DEF TimeInv, TypeInv
<1>3. ASSUME NEW c \in Delivery, phase'[c] \in {"received", "claimed", "running"}
      PROVE  c # d /\ c[1] \in Message \ {d[1]} /\ phase'[c] = phase[c] /\ left'[c] = left[c]
  BY <1>1, <1>3 DEF TimeInv, TypeInv, TypeOK, HandlerInv
<1>4. HandlerInv'
  BY <1>2, <1>3 DEF TimeInv, HandlerInv
<1>5. ASSUME claim'.left > 0
      PROVE  claim' = claim /\ claim.by \in Delivery /\ claim.by # d
  BY <1>5, Keys DEF TimeInv, TypeInv, TypeOK, ClaimInv
<1>6. ASSUME claim'.left > 0
      PROVE  claim.by[1] \in Message \ {d[1]}
  BY <1>1, <1>5, <1>6 DEF TimeInv, ClaimInv
<1>7. ClaimInv'
  BY <1>2, <1>5, <1>6 DEF TimeInv, TypeInv, TypeOK, ClaimInv
<1> QED
  BY Zenon, <1>2, <1>4, <1>7 DEF TimeInv
------------------------------------------------------------------------------
(* The broker's steps, and time *)

\* A delivery starts its handler and its AckWait together; by then the claim of the
\* last delivery has run out.
LEMMA DeliverTime ==
    ASSUME Margins, TimeInv, TypeInv', NEW m \in Message, Deliver(m) PROVE TimeInv'
<1> DEFINE d == <<m, num[m] + 1>>
<1>1. num[m] + 1 \in 1..MaxDeliver /\ d \in Delivery /\ d[1] = m /\ d[2] = num[m] + 1
  BY DEF TimeInv, TypeInv, TypeOK, Deliver
<1> HIDE DEF d
<1>2. /\ phase' = [phase EXCEPT ![d] = "received"] /\ left' = [left EXCEPT ![d] = Latency]
      /\ status[m] = "ready"
      /\ status' = [status EXCEPT ![m] = "pending"] /\ timer' = [timer EXCEPT ![m] = AckWait]
      /\ num' = [num EXCEPT ![m] = num[m] + 1]
      /\ UNCHANGED <<claim, lease, row, newest, kills, failures>>
  BY Zenon DEF Deliver, Enter, d
<1>4. ASSUME NEW c \in Delivery, c # d, phase'[c] \in {"received", "claimed", "running"}
      PROVE  /\ c[1] \in Message \ {m} /\ phase'[c] = phase[c] /\ left'[c] = left[c]
             /\ status'[c[1]] = status[c[1]] /\ num'[c[1]] = num[c[1]]
             /\ timer'[c[1]] = timer[c[1]]
  BY <1>2, <1>4 DEF TimeInv, TypeInv, TypeOK, HandlerInv
<1>5. HandlerInv'
  BY <1>1, <1>2, <1>4 DEF TimeInv, TypeInv, TypeOK, HandlerInv
<1>6. ASSUME claim.left > 0
      PROVE  claim.by \in Delivery /\ claim.by[1] \in Message \ {m} /\ claim.by # d
  BY Zenon, <1>1, <1>2, <1>6 DEF TimeInv, ClaimInv
<1>7. ClaimInv'
  BY <1>2, <1>6 DEF TimeInv, TypeInv, TypeOK, ClaimInv
<1> QED
  BY Zenon, <1>2, <1>5, <1>7 DEF TimeInv, TypeInv, TypeOK

\* A message falls due only when its handler is through.
LEMMA RedeliverTime ==
    ASSUME Margins, TimeInv, TypeInv', NEW m \in Message, Redeliver(m) PROVE TimeInv'
<1>1. ASSUME NEW d \in Delivery, phase[d] \in {"received", "claimed", "running"}
      PROVE  d[1] \in Message \ {m}
  BY <1>1 DEF Margins, TimeInv, TypeInv, TypeOK, HandlerInv, Redeliver
<1>2. ASSUME claim.left > 0
      PROVE  claim.by \in Delivery /\ (claim.by[1] \in Message \ {m})
  BY <1>2 DEF Margins, TimeInv, TypeInv, TypeOK, TimedKey, ClaimInv, Redeliver
<1>4. HandlerInv'
  BY Zenon, <1>1 DEF TimeInv, TypeInv, TypeOK, HandlerInv, Redeliver
<1>5. ClaimInv'
  BY Zenon, <1>2 DEF TimeInv, TypeInv, TypeOK, ClaimInv, Redeliver
<1> QED
  BY Zenon, <1>4, <1>5 DEF TimeInv

\* The listener meets neither a handler nor a claim of its message.
LEMMA QuarantineTime ==
    ASSUME TimeInv, TypeInv', NEW m \in Message, Quarantine(m) PROVE TimeInv'
<1>2. HandlerInv'
  BY Zenon DEF TimeInv, TypeInv, TypeOK, HandlerInv, Quarantine, settle
<1>3. ClaimInv'
  BY Zenon DEF TimeInv, TypeInv, TypeOK, ClaimInv, Quarantine, settle
<1> QED
  BY Zenon, <1>2, <1>3 DEF TimeInv

\* A second shortens every time by the same, so the margins between them stay.
LEMMA TickTime ==
    ASSUME TimeInv, TypeInv', Tick PROVE TimeInv'
<1>2. ASSUME NEW d \in Delivery, phase[d] \in {"received", "claimed", "running"}
      PROVE  /\ d[1] \in Message /\ left[d] \in Nat \ {0} /\ timer[d[1]] \in Nat \ {0}
             /\ left'[d] = left[d] - 1 /\ timer'[d[1]] = timer[d[1]] - 1
  BY <1>2 DEF TimeInv, TypeInv, TypeOK, HandlerInv, Tick, Pred, Busy
<1>3. HandlerInv'
  BY <1>2 DEF TimeInv, HandlerInv, Tick
<1>4. ASSUME claim'.left > 0
      PROVE  claim.left \in Nat /\ claim.left > 1 /\ claim'.by = claim.by /\ claim'.left = claim.left - 1
  BY <1>4, Keys DEF TimeInv, TypeInv, TypeOK, Tick, TimedKey
<1>5. ASSUME claim'.left > 0, status[claim.by[1]] = "pending"
      PROVE  timer[claim.by[1]] \in Nat \ {0} /\ timer'[claim.by[1]] = timer[claim.by[1]] - 1
  BY <1>4, <1>5 DEF TimeInv, TypeInv, TypeOK, ClaimInv, Tick, Pred
<1>6. ClaimInv'
  BY <1>4, <1>5 DEF TimeInv, ClaimInv, Tick
<1> QED
  BY Zenon, <1>3, <1>6 DEF TimeInv, Tick
------------------------------------------------------------------------------
(* The handler's steps *)

\* A claim is taken at most Latency after the delivery.
LEMMA ClaimTime ==
    ASSUME Margins, TimeInv, TypeInv', NEW d \in Delivery, Claim(d) PROVE TimeInv'
<1>1. d[1] \in Message /\ phase[d] = "received"
  BY Zenon DEF Claim
<1>3. CASE Enter(d, "over", 0) /\ claim' = claim /\ \E delay \in Nat : settle(d[1]) \/ nak(d[1], delay)
  <2>1. PICK delay \in Nat : settle(d[1]) \/ nak(d[1], delay)
    BY Zenon, <1>3
  <2>3. /\ phase' = [phase EXCEPT ![d] = phase'[d]] /\ phase'[d] = "over"
        /\ left' = [left EXCEPT ![d] = left'[d]]
    BY <1>3 DEF TimeInv, TypeInv, TypeOK, Enter
  <2> QED
    BY Zenon, <1>1, <1>3, <2>1, <2>3, ReplyTime
<1>4. CASE claim' = key_for(d) /\ Enter(d, "claimed", Latency) /\ UNCHANGED broker
  <2>2. /\ phase' = [phase EXCEPT ![d] = "claimed"] /\ left' = [left EXCEPT ![d] = Latency]
        /\ status' = status /\ num' = num /\ timer' = timer
        /\ claim'.by = d /\ claim'.left = LeaseTtl
    BY Zenon, <1>4, Keys DEF Enter, broker
  <2>3. /\ status[d[1]] = "pending" /\ d[2] = num[d[1]]
        /\ left[d] \in Nat /\ timer[d[1]] \in Nat /\ left[d] + AckWait <= timer[d[1]] + Latency
    BY <1>1 DEF TimeInv, TypeInv, TypeOK, HandlerInv
  <2>4. HandlerInv'
    BY <2>2, <2>3 DEF TimeInv, TypeInv, TypeOK, HandlerInv
  <2>5. ClaimInv'
    BY <2>2, <2>3 DEF TimeInv, TypeInv, TypeOK, ClaimInv
  <2> QED
    BY Zenon, <2>2, <2>4, <2>5 DEF TimeInv
<1> QED
  BY Zenon, <1>3, <1>4 DEF Claim

\* A handler that starts has Duration, and AckWait has more.
LEMMA StartTime ==
    ASSUME Margins, TimeInv, TypeInv', NEW d \in Delivery, Start(d) PROVE TimeInv'
<1>1. d[1] \in Message /\ phase[d] = "claimed" /\ UNCHANGED <<kills, failures>>
  BY Zenon DEF Start
<1>2. CASE /\ claim' = delete_if_own(claim, d)
           /\ lease' \in {lease, key_for(d)} /\ UNCHANGED <<row, newest>>
           /\ \E delay \in Nat : settle(d[1]) \/ nak(d[1], delay)
           /\ Enter(d, "over", 0) \/ Enter(d, "closing", Latency)
  <2>1. PICK delay \in Nat : settle(d[1]) \/ nak(d[1], delay)
    BY Zenon, <1>2
  <2>5. /\ phase' = [phase EXCEPT ![d] = phase'[d]] /\ phase'[d] \in {"closing", "over"}
        /\ left' = [left EXCEPT ![d] = left'[d]]
    BY <1>2 DEF TimeInv, TypeInv, TypeOK, Enter
  <2> QED
    BY Zenon, <1>1, <1>2, <2>1, <2>5, ReplyTime
<1>3. CASE /\ lease' = key_for(d) /\ row' = "running" /\ newest' = d
           /\ Enter(d, "running", Duration) /\ UNCHANGED <<broker, claim>>
  <2>2. /\ phase' = [phase EXCEPT ![d] = "running"] /\ left' = [left EXCEPT ![d] = Duration]
        /\ status' = status /\ num' = num /\ timer' = timer /\ claim' = claim
    BY Zenon, <1>3 DEF Enter, broker
  <2>3. /\ status[d[1]] = "pending" /\ d[2] = num[d[1]]
        /\ left[d] \in Nat /\ timer[d[1]] \in Nat /\ left[d] + AckWait <= timer[d[1]] + 2 * Latency
    BY <1>1 DEF TimeInv, TypeInv, TypeOK, HandlerInv
  <2>4. HandlerInv'
    <3>1. Duration < timer[d[1]]
      BY <2>3 DEF Margins
    <3>2. /\ phase'[d] = "running" /\ left'[d] = Duration
          /\ \A c \in Delivery \ {d} : phase'[c] = phase[c] /\ left'[c] = left[c]
      BY <2>2 DEF TimeInv, TypeInv, TypeOK
    <3> QED
      BY <2>2, <2>3, <3>1, <3>2 DEF TimeInv, HandlerInv
  <2>5. ClaimInv'
    BY <2>2 DEF TimeInv, TypeInv, TypeOK, ClaimInv
  <2> QED
    BY Zenon, <2>2, <2>4, <2>5 DEF TimeInv
<1> QED
  BY Zenon, <1>2, <1>3 DEF Start

\* An execution that ends, well or not: a reply, or nothing at all.
LEMMA EndTime ==
    ASSUME TimeInv, TypeInv', NEW d \in Delivery, Complete(d) \/ Fail(d) PROVE TimeInv'
<1>1. /\ d[1] \in Message /\ phase[d] = "running" /\ Enter(d, "closing", Latency)
      /\ UNCHANGED <<lease, newest, kills>> /\ failures' \in Nat
  BY Zenon DEF TimeInv, TypeInv, TypeOK, Complete, Fail, Finished
<1>2. /\ phase' = [phase EXCEPT ![d] = phase'[d]] /\ phase'[d] = "closing"
      /\ left' = [left EXCEPT ![d] = left'[d]]
  BY <1>1 DEF TimeInv, TypeInv, TypeOK, Enter
<1>4. CASE /\ claim' = delete_if_own(claim, d)
           /\ row' \in {row, "succeeded", "queued", "failed"}
           /\ \E delay \in Nat : settle(d[1]) \/ nak(d[1], delay)
  <2>1. PICK delay \in Nat : settle(d[1]) \/ nak(d[1], delay)
    BY Zenon, <1>4
  <2> QED
    BY Zenon, <1>1, <1>2, <1>4, <2>1, ReplyTime
<1>5. CASE UNCHANGED <<broker, claim, row>>
  <2> QED
    BY Zenon, <1>2, <1>5, QuietTime
<1>6. FailDelay[d[2]] \in Nat
  OBVIOUS
<1> QED
  BY Zenon, <1>4, <1>5, <1>6 DEF Complete, Fail

\* A handler that is through, or killed, asks for nothing more.
LEMMA LeaveTime ==
    ASSUME TimeInv, TypeInv', NEW d \in Delivery, Release(d) \/ Kill(d) PROVE TimeInv'
<1>1. /\ Enter(d, "over", 0) /\ UNCHANGED <<broker, claim, row, newest, failures>>
      /\ lease' \in TimedKey /\ kills' \in Nat
  BY Zenon, Keys DEF TimeInv, TypeInv, TypeOK, Release, Kill
<1>3. /\ phase' = [phase EXCEPT ![d] = phase'[d]] /\ phase'[d] = "over"
      /\ left' = [left EXCEPT ![d] = left'[d]]
  BY <1>1 DEF TimeInv, TypeInv, TypeOK, Enter
<1> QED
  BY Zenon, <1>1, <1>3, QuietTime
------------------------------------------------------------------------------
(* Theorems *)

\* Every step preserves the invariant.
LEMMA NextTime == Margins /\ TimeInv /\ [Next]_vars => TimeInv'
<1> SUFFICES ASSUME Margins, TimeInv, [Next]_vars PROVE TimeInv'
  OBVIOUS
<1>0. TypeInv'
  BY Zenon, NextType DEF TimeInv
<1>1. CASE Next
  BY Zenon, <1>0, <1>1, DeliverTime, RedeliverTime, QuarantineTime, TickTime, ClaimTime,
     StartTime,
     EndTime, LeaveTime DEF Next, Step
<1>2. CASE UNCHANGED vars
  BY Zenon, <1>2 DEF vars, TimeInv, TypeInv, TypeOK, HandlerInv, ClaimInv
<1> QED
  BY Zenon, <1>1, <1>2

\* Every variable keeps its type, whatever the times are.
THEOREM TypeCorrect == Spec => []TypeOK
<1>1. Init => TypeInv
  BY Zenon, InitTime DEF TimeInv
<1>2. TypeInv => TypeOK
  BY Zenon DEF TypeInv
<1> QED
  BY <1>1, <1>2, NextType, PTL DEF Spec

\* With a margin of the latency of one call between lease_ttl_s and ack_wait_s,
\* and handlers that are through before AckWait, a delivery never meets the claim
\* of an earlier delivery of its message, whatever is killed or fails
\* (config.py, lease_ttl_s).
THEOREM MarginIsEnough == Margins /\ Spec => []OwnClaimIsGone
<1>1. TimeInv => OwnClaimIsGone
  BY DEF TimeInv, HandlerInv, ClaimInv, OwnClaimIsGone
<1>2. Margins => (Spec => []TimeInv)
  <2> SUFFICES ASSUME Margins PROVE Spec => []TimeInv
    OBVIOUS
  <2>1. TimeInv /\ [Next]_vars => TimeInv'
    BY Zenon, NextTime
  <2> QED
    BY InitTime, <2>1, PTL DEF Spec
<1> QED
  BY <1>1, <1>2, PTL
------------------------------------------------------------------------------
(* What a kill costs *)

\* One message, executions that do not fail, and a margin for the lease too,
\* which is taken one call after the claim.
Single ==
    /\ \A m, n \in Message : m = n
    /\ MaxFailures = 0
    /\ LeaseTtl + 2 * Latency <= AckWait

\* ClaimInv, for the lease.
LeaseInv ==
    lease.left > 0 =>
       /\ lease.by \in Delivery
       /\ phase[lease.by] \notin {"none", "received", "claimed"}
       /\ lease.by[2] = num[lease.by[1]]
       /\ \/ status[lease.by[1]] = "gone"
          \/ /\ status[lease.by[1]] = "pending"
             /\ lease.left + AckWait <= timer[lease.by[1]] + LeaseTtl + 2 * Latency

Handled(m) ==
    \E d \in Delivery : d[1] = m /\ phase[d] \in {"received", "claimed", "running"}

\* A message that is out of every handler's hands has been paid for by kills.
WasteInv ==
    /\ failures = 0
    /\ LeaseInv
    /\ \A d \in Delivery : phase[d] = "running" => newest = d
    /\ \A m \in Message : num[m] <= 1 + kills
    /\ \A m \in Message : status[m] = "gone" \/ Handled(m) \/ num[m] <= kills

\* Deliver, Redeliver and Quarantine: a message is due again only after a kill or a
\* failure has been counted.
LEMMA BrokerWaste ==
    ASSUME Single, TimeInv, TimeInv', WasteInv, NEW m \in Message,
           Deliver(m) \/ Redeliver(m) \/ Quarantine(m)
    PROVE  WasteInv'
<1>1. CASE Deliver(m)
  <2> DEFINE d == <<m, num[m] + 1>>
  <2>1. d \in Delivery /\ d[1] = m /\ d[2] = num[m] + 1
    BY <1>1 DEF TimeInv, TypeInv, TypeOK, Deliver
  <2> HIDE DEF d
  <2>2. /\ phase' = [phase EXCEPT ![d] = "received"] /\ status[m] = "ready"
        /\ status' = [status EXCEPT ![m] = "pending"] /\ num' = [num EXCEPT ![m] = num[m] + 1]
        /\ UNCHANGED <<lease, newest, kills, failures>>
    BY Zenon, <1>1 DEF Deliver, Enter, d
  <2>3. phase'[d] = "received" /\ \A c \in Delivery : c # d => phase'[c] = phase[c]
    BY <2>1, <2>2 DEF TimeInv, TypeInv, TypeOK
  <2>4. ~ Handled(m) /\ num[m] \in Nat /\ kills \in Nat
    BY SMTT(30), <2>2 DEF Handled, TimeInv, TypeInv, TypeOK, HandlerInv
  <2>5. num'[m] <= 1 + kills'
    BY <2>2, <2>4 DEF WasteInv, TimeInv, TypeInv, TypeOK
  <2>6. \A n \in Message : n = m
    BY Zenon DEF Single
  <2>7. Handled(m)'
    BY Zenon, <2>1, <2>3 DEF Handled
  <2>8. lease.left = 0
    BY <2>2, <2>6 DEF WasteInv, LeaseInv, TimeInv, TypeInv, TypeOK, TimedKey
  <2>9. LeaseInv'
    BY <2>2, <2>8 DEF LeaseInv
  <2> QED
    BY Zenon, <2>2, <2>3, <2>5, <2>6, <2>7, <2>9 DEF WasteInv
<1>2. CASE Redeliver(m)
  <2>1. lease.left = 0
    BY <1>2 DEF Single, WasteInv, LeaseInv, TimeInv, TypeInv, TypeOK, TimedKey, Redeliver
  <2>2. \A n \in Message : status'[n] = "gone" <=> status[n] = "gone"
    BY <1>2 DEF TimeInv, TypeInv, TypeOK, Redeliver
  <2>3. \A n \in Message : Handled(n)' <=> Handled(n)
    BY Zenon, <1>2 DEF Handled, Redeliver
  <2> QED
    BY <1>2, <2>1, <2>2, <2>3 DEF WasteInv, LeaseInv, Redeliver
<1>3. CASE Quarantine(m)
  <2>1. /\ status' = [status EXCEPT ![m] = "gone"] /\ num' = num
        /\ UNCHANGED <<phase, lease, newest, kills, failures>> /\ status[m] = "exhausted"
    BY Zenon, <1>3 DEF Quarantine, settle
  <2>2. status'[m] = "gone" /\ \A n \in Message : n = m
    BY <2>1 DEF TimeInv, TypeInv, TypeOK, Single
  <2>3. LeaseInv'
    BY Zenon, <2>1, <2>2 DEF WasteInv, LeaseInv
  <2> QED
    BY Zenon, <2>1, <2>2, <2>3 DEF WasteInv
<1> QED
  BY Zenon, <1>1, <1>2, <1>3

\* Time alone wastes nothing.
LEMMA TickWaste ==
    ASSUME TimeInv, TimeInv', WasteInv, Tick PROVE WasteInv'
<1>1. ASSUME lease'.left > 0
      PROVE  lease.left \in Nat /\ lease.left > 1 /\ lease'.by = lease.by /\ lease'.left = lease.left - 1
  BY <1>1, Keys DEF TimeInv, TypeInv, TypeOK, Tick, TimedKey
<1>2. ASSUME lease'.left > 0, status[lease.by[1]] = "pending"
      PROVE  timer[lease.by[1]] \in Nat \ {0} /\ timer'[lease.by[1]] = timer[lease.by[1]] - 1
  BY <1>1, <1>2 DEF TimeInv, TypeInv, TypeOK, WasteInv, LeaseInv, Tick, Pred
<1>3. LeaseInv'
  BY <1>1, <1>2 DEF WasteInv, LeaseInv, Tick
<1>4. \A m \in Message : Handled(m)' <=> Handled(m)
  BY Zenon DEF Handled, Tick
<1> QED
  BY Zenon, <1>3, <1>4 DEF WasteInv, Tick

\* The one handler of the one message settles it and is through.
LEMMA SettleWaste ==
    ASSUME Single, TimeInv, TimeInv', WasteInv, NEW d \in Delivery,
           phase[d] \in {"received", "claimed", "running"}, settle(d[1]),
           phase' = [phase EXCEPT ![d] = phase'[d]], phase'[d] \in {"closing", "over"},
           lease' \in {lease, key_for(d)},
           UNCHANGED <<newest, kills, failures>>
    PROVE  WasteInv'
<1>1. d[1] \in Message /\ d[2] = num[d[1]] /\ \A m \in Message : m = d[1]
  BY Zenon DEF Single, TimeInv, HandlerInv
<1>2. status'[d[1]] = "gone" /\ num' = num
  BY Zenon, <1>1 DEF settle, TimeInv, TypeInv, TypeOK
<1>3. phase'[d] \in {"closing", "over"} /\ \A c \in Delivery : c # d => phase'[c] = phase[c]
  BY DEF TimeInv, TypeInv, TypeOK
<1>4. LeaseInv'
  BY <1>1, <1>2, <1>3, Keys DEF WasteInv, LeaseInv
<1> QED
  BY <1>1, <1>2, <1>3, <1>4 DEF WasteInv

\* Nor does a step of the one handler.
LEMMA StepWaste ==
    ASSUME Single, Margins, TimeInv, TimeInv', WasteInv, NEW d \in Delivery, Step(d)
    PROVE  WasteInv'
<1>1. \A m \in Message : m = d[1]
  BY Zenon DEF Single
<1>2. CASE Claim(d)
  <2>1. claim.left = 0
    BY SMTT(30), <1>1, <1>2 DEF Claim, TimeInv, TypeInv, TypeOK, TimedKey, HandlerInv,
       ClaimInv
  <2>2. CASE settle(d[1]) /\ Enter(d, "over", 0)
    <3>1. phase' = [phase EXCEPT ![d] = phase'[d]] /\ phase'[d] \in {"closing", "over"}
      BY <2>2 DEF Enter, TimeInv, TypeInv, TypeOK
    <3> QED
      BY Zenon, <1>2, <2>2, <3>1, SettleWaste DEF Claim
  <2>3. CASE Enter(d, "claimed", Latency) /\ UNCHANGED broker
    <3>1. /\ phase'[d] = "claimed" /\ phase[d] = "received"
          /\ \A c \in Delivery : c # d => phase'[c] = phase[c]
          /\ UNCHANGED <<status, num, timer, lease, newest, kills, failures>>
      BY SMTT(30), <1>2, <2>3 DEF Claim, Enter, broker, TimeInv, TypeInv, TypeOK
    <3>2. Handled(d[1])'
      BY Zenon, <3>1 DEF Handled
    <3>3. LeaseInv'
      BY Zenon, <3>1 DEF WasteInv, LeaseInv
    <3> QED
      BY <1>1, <3>1, <3>2, <3>3 DEF WasteInv
  <2> QED
    BY <1>2, <2>1, <2>2, <2>3 DEF Claim
<1>3. CASE Start(d)
  <2>1. phase[d] = "claimed" /\ lease.left = 0 /\ d[2] = num[d[1]] /\ status[d[1]] = "pending"
    BY SMTT(30), <1>1, <1>3 DEF Start, TimeInv, TypeInv, TypeOK, TimedKey, HandlerInv,
       WasteInv, LeaseInv
  <2>2. CASE settle(d[1]) /\ Enter(d, "closing", Latency) /\ lease' = key_for(d) /\ UNCHANGED newest
    <3>1. phase' = [phase EXCEPT ![d] = phase'[d]] /\ phase'[d] \in {"closing", "over"}
      BY <2>2 DEF Enter, TimeInv, TypeInv, TypeOK
    <3> QED
      BY Zenon, <1>3, <2>1, <2>2, <3>1, SettleWaste DEF Start
  <2>3. CASE Enter(d, "running", Duration) /\ UNCHANGED broker /\ lease' = key_for(d) /\ newest' = d
    <3>1. /\ phase'[d] = "running" /\ \A c \in Delivery : c # d => phase'[c] = phase[c]
          /\ UNCHANGED <<status, num, timer, kills, failures>>
      BY <1>3, <2>3 DEF Start, Enter, broker, TimeInv, TypeInv, TypeOK
    <3>2. Handled(d[1])'
      BY Zenon, <3>1 DEF Handled
    <3>3. left[d] \in Nat /\ timer[d[1]] \in Nat /\ AckWait <= timer[d[1]] + 2 * Latency
      BY <1>1, <2>1 DEF TimeInv, TypeInv, TypeOK, HandlerInv
    <3>4. LeaseInv'
      BY <2>1, <2>3, <3>1, <3>3, Keys DEF LeaseInv
    <3>5. \A c \in Delivery : phase'[c] = "running" => c = d
      BY <1>1, <2>1, <3>1 DEF TimeInv, HandlerInv
    <3> QED
      BY ZenonT(30), <1>1, <2>3, <3>1, <3>2, <3>4, <3>5 DEF WasteInv
  <2> QED
    BY <1>3, <2>1, <2>2, <2>3 DEF Start
<1>4. CASE Complete(d)
  <2>1. newest = d /\ phase[d] = "running"
    BY Zenon, <1>4 DEF Complete, Finished, WasteInv
  <2>2. phase' = [phase EXCEPT ![d] = phase'[d]] /\ phase'[d] \in {"closing", "over"}
    BY <1>4 DEF Complete, Enter, TimeInv, TypeInv, TypeOK
  <2> QED
    BY Zenon, <1>4, <2>1, <2>2, SettleWaste DEF Complete
<1>5. CASE Fail(d)
  BY <1>5 DEF Fail, Single, WasteInv
<1>6. CASE Release(d)
  <2>1. /\ phase'[d] = "over" /\ phase[d] = "closing"
        /\ \A c \in Delivery : c # d => phase'[c] = phase[c]
        /\ UNCHANGED <<status, num, timer, newest, kills, failures>>
    BY <1>6 DEF Release, Enter, broker, TimeInv, TypeInv, TypeOK
  <2>2. lease'.left > 0 => lease' = lease
    BY Zenon, <1>6, Keys DEF Release, TimeInv, TypeInv, TypeOK
  <2>3. LeaseInv'
    BY Zenon, <2>1, <2>2 DEF WasteInv, LeaseInv
  <2>4. \A m \in Message : Handled(m) => Handled(m)'
    BY Zenon, <2>1 DEF Handled
  <2> QED
    BY <2>1, <2>3, <2>4 DEF WasteInv
<1> QED
  BY Zenon, <1>2, <1>3, <1>4, <1>5, <1>6 DEF Step

\* A kill is counted before the delivery it costs.
LEMMA KillWaste ==
    ASSUME Single, TimeInv, TimeInv', WasteInv, NEW d \in Delivery, Kill(d) PROVE WasteInv'
<1>1. /\ phase'[d] = "over" /\ \A c \in Delivery : c # d => phase'[c] = phase[c]
      /\ UNCHANGED <<status, num, timer, lease, newest, failures>> /\ kills' = kills + 1
  BY DEF Kill, Enter, broker, TimeInv, TypeInv, TypeOK
<1>2. LeaseInv'
  BY Zenon, <1>1 DEF WasteInv, LeaseInv
<1>3. \A m \in Message : num'[m] <= kills'
  BY <1>1 DEF WasteInv, TimeInv, TypeInv, TypeOK
<1> QED
  BY <1>1, <1>2, <1>3 DEF WasteInv, TimeInv, TypeInv, TypeOK

\* A kill costs a job the delivery in hand and no other: with one message and
\* executions that do not fail, what the killed worker left behind is gone when
\* the message comes again (config.py, lease_ttl_s; README.md, "Lockstep
\* starvation").
THEOREM KillCostsOneDelivery == Margins /\ Single /\ Spec => []NothingWasted
<1>1. WasteInv => NothingWasted
  BY Zenon DEF NothingWasted, WasteInv
<1>2. Init => WasteInv
  <2> SUFFICES ASSUME Init PROVE WasteInv
    OBVIOUS
  <2>1. LeaseInv
    BY Keys DEF Init, LeaseInv
  <2> QED
    BY <2>1 DEF Init, WasteInv
<1>3. Margins /\ Single => (Spec => [](TimeInv /\ WasteInv))
  <2> SUFFICES ASSUME Margins, Single PROVE Spec => [](TimeInv /\ WasteInv)
    OBVIOUS
  <2>1. TimeInv /\ [Next]_vars => TimeInv'
    BY Zenon, NextTime
  <2>2. ASSUME TimeInv, TimeInv', WasteInv, [Next]_vars PROVE WasteInv'
    <3>1. CASE Next
      BY Zenon, <2>2, <3>1, BrokerWaste, TickWaste, StepWaste, KillWaste DEF Next
    <3>2. CASE UNCHANGED vars
      <4>1. \A m \in Message : Handled(m)' <=> Handled(m)
        BY Zenon, <3>2 DEF vars, Handled
      <4> QED
        BY Zenon, <2>2, <3>2, <4>1 DEF vars, WasteInv, LeaseInv
    <3> QED
      BY Zenon, <2>2, <3>1, <3>2
  <2> QED
    BY InitTime, <1>2, <2>1, <2>2, PTL DEF Spec
<1> QED
  BY <1>1, <1>3, PTL
------------------------------------------------------------------------------
(* How long bounces last *)

\* MaxDeliver bounces take longer than a worker that has claimed the job takes to
\* finish it.
Patient ==
    \E b \in Nat : /\ \A delay \in BounceDelay : b <= delay
                   /\ Latency + Duration < MaxDeliver * b

Shortest ==
    CHOOSE b \in Nat : /\ \A delay \in BounceDelay : b <= delay
                       /\ Latency + Duration < MaxDeliver * b

\* What n bounces take at least.
Bounces(n) == n * Shortest

\* All the bouncing so far happened within the time that a worker with rest to go
\* has had the job.
Within(rest) ==
    /\ \A m \in Message :
          /\ status[m] # "exhausted"
          /\ status[m] = "ready" => Bounces(num[m]) + rest <= Latency + Duration
          /\ status[m] = "delayed" => Bounces(num[m]) + rest <= Latency + Duration + timer[m]
    /\ \A d \in Delivery : phase[d] \in {"received", "claimed"} =>
          Bounces(d[2] - 1) + rest <= Latency + Duration

\* No worker has claimed the job yet.
Fresh ==
    /\ claim.left = 0 /\ lease.left = 0 /\ row = "queued"
    /\ \A d \in Delivery : phase[d] \in {"none", "received"}
    /\ \A m \in Message : \/ status[m] = "ready" /\ num[m] = 0
                          \/ status[m] = "pending" /\ num[m] = 1
                          \/ status[m] = "gone"

\* The job is claimed and not started.
Claimed ==
    /\ lease.left = 0 /\ row = "queued"
    /\ \A d \in Delivery : phase[d] # "running"
    /\ \E c \in Delivery : phase[c] = "claimed" /\ Within(left[c] + Duration)

\* One worker executes it, and its lease lasts.
Executing ==
    /\ row = "running" /\ newest \in Delivery /\ phase[newest] = "running"
    /\ \A d \in Delivery : phase[d] = "running" => d = newest
    /\ left[newest] < lease.left
    /\ Within(left[newest])

\* Every pending message is in the hands of a worker, and none has ended in vain.
Attended ==
    /\ \A m \in Message : status[m] = "pending" => Handled(m)
    /\ \A d \in Delivery : phase[d] # "closing"

SpareInv ==
    kills = 0 /\ failures = 0 =>
       row = "succeeded" \/ (Attended /\ (Fresh \/ Claimed \/ Executing))

\* The arithmetic of bounces.
LEMMA BouncesAdd ==
    ASSUME Patient
    PROVE  /\ \A n \in Nat : Bounces(n) \in Nat /\ Bounces(n + 1) = Bounces(n) + Shortest
           /\ Bounces(0) = 0 /\ Latency + Duration < Bounces(MaxDeliver)
           /\ Shortest \in Nat /\ \A delay \in BounceDelay : Shortest <= delay
<1>1. /\ Shortest \in Nat /\ (\A delay \in BounceDelay : Shortest <= delay)
      /\ Latency + Duration < MaxDeliver * Shortest
  BY Zenon DEF Patient, Shortest
<1> HIDE DEF Shortest
<1>2. ASSUME NEW n \in Nat
      PROVE  n * Shortest \in Nat /\ (n + 1) * Shortest = n * Shortest + Shortest
  BY <1>1
<1>3. 0 * Shortest = 0
  BY <1>1
<1> QED
  BY Zenon, <1>1, <1>2, <1>3 DEF Bounces

\* A delivery that bounces costs its message the delay.
LEMMA BounceWithin ==
    ASSUME Patient, TimeInv, Attended, NEW rest \in Nat, Within(rest),
           NEW d \in Delivery, phase[d] \in {"received", "claimed"},
           NEW delay \in BounceDelay, nak(d[1], delay), Enter(d, "over", 0)
    PROVE  Attended' /\ Within(rest)'
<1>1. /\ d[1] \in Message /\ d[2] \in 1..MaxDeliver /\ status[d[1]] = "pending" /\ num[d[1]] = d[2]
      /\ delay \in Nat
  BY Zenon DEF TimeInv, HandlerInv
<1>2. /\ status' = [status EXCEPT ![d[1]] = "delayed"]
      /\ timer' = [timer EXCEPT ![d[1]] = delay] /\ num' = num
      /\ phase' = [phase EXCEPT ![d] = "over"]
  BY Zenon, <1>1 DEF nak, Enter
<1>3. /\ status \in [Message -> {"ready", "pending", "delayed", "exhausted", "gone"}]
      /\ timer \in [Message -> Nat] /\ num \in [Message -> 0..MaxDeliver]
      /\ phase \in [Delivery -> Busy \union {"none", "over"}]
  BY Zenon DEF TimeInv, TypeInv, TypeOK
<1>4. Attended'
  <2>1. ASSUME NEW m \in Message, status'[m] = "pending" PROVE Handled(m)'
    <3>1. m # d[1] /\ status[m] = "pending"
      BY <1>1, <1>2, <1>3, <2>1
    <3>2. PICK c \in Delivery : c[1] = m /\ phase[c] \in {"received", "claimed", "running"}
      BY Zenon, <3>1 DEF Attended, Handled
    <3>3. phase'[c] = phase[c]
      BY <1>2, <1>3, <3>1, <3>2
    <3> QED
      BY Zenon, <3>2, <3>3 DEF Handled
  <2> QED
    BY <1>2, <1>3, <2>1 DEF Attended
<1>5. /\ d[2] - 1 \in Nat /\ Bounces(d[2] - 1) \in Nat /\ Shortest \in Nat /\ Shortest <= delay
      /\ Bounces(d[2]) = Bounces(d[2] - 1) + Shortest
  <2>1. d[2] - 1 \in Nat /\ (d[2] - 1) + 1 = d[2]
    BY <1>1
  <2> QED
    BY Zenon, <2>1, BouncesAdd
<1>6. Bounces(d[2] - 1) + rest <= Latency + Duration
  BY Zenon DEF Within
<1>7. Bounces(num[d[1]]) + rest <= Latency + Duration + delay
  BY <1>1, <1>5, <1>6
<1>8. \A n : Bounces(n)' = Bounces(n)
  BY Zenon DEF Bounces, Shortest
<1>9. Within(rest)'
  BY <1>1, <1>2, <1>3, <1>7, <1>8 DEF Within
<1> QED
  BY Zenon, <1>4, <1>9

\* Before anyone claims, nothing has bounced.
LEMMA InitSpare == Init => SpareInv
<1> SUFFICES ASSUME Init PROVE SpareInv
  OBVIOUS
<1>1. Attended
  BY DEF Init, Attended
<1>2. Fresh
  BY Keys DEF Init, Fresh
<1> QED
  BY Zenon, <1>1, <1>2 DEF SpareInv

\* A step of others leaves the worker that has the job as it is.
LEMMA HeldStays ==
    ASSUME TimeInv, UNCHANGED <<lease, row, newest>>, Claimed \/ Executing,
           \A rest \in Nat : Within(rest) => Within(rest)',
           \A c \in Delivery :
              /\ phase[c] = "running" \/ (row = "queued" /\ phase[c] = "claimed") =>
                    phase'[c] = phase[c] /\ left'[c] = left[c]
              /\ phase'[c] = "running" => phase[c] = "running"
    PROVE  Claimed' \/ Executing'
<1>0. left \in [Delivery -> Nat]
  BY Zenon DEF TimeInv, TypeInv, TypeOK
<1>1. CASE Claimed
  <2>1. PICK c \in Delivery : phase[c] = "claimed" /\ Within(left[c] + Duration)
    BY Zenon, <1>1 DEF Claimed
  <2>2. phase'[c] = "claimed" /\ left'[c] = left[c]
    BY Zenon, <1>1, <2>1 DEF Claimed
  <2>3. Within(left[c] + Duration)'
    <3>1. PICK rest \in Nat : rest = left[c] + Duration
      BY <1>0
    <3> QED
      BY Zenon, <2>1, <2>2, <3>1
  <2> QED
    BY Zenon, <1>1, <2>2, <2>3 DEF Claimed
<1>2. CASE Executing
  <2>1. newest \in Delivery /\ left'[newest] = left[newest] /\ phase'[newest] = "running"
    BY Zenon, <1>2 DEF Executing
  <2>2. Within(left[newest])'
    <3>1. PICK rest \in Nat : rest = left[newest]
      BY Zenon, <1>0, <2>1
    <3> QED
      BY Zenon, <1>2, <2>1, <3>1 DEF Executing
  <2> QED
    BY Zenon, <1>2, <2>1, <2>2 DEF Executing
<1> QED
  BY Zenon, <1>1, <1>2

\* Deliver: the message was ready, so its bounces were within the time.
LEMMA DeliverSpares ==
    ASSUME TimeInv, Attended, Fresh \/ Claimed \/ Executing, NEW m \in Message, Deliver(m)
    PROVE  Attended' /\ (Fresh' \/ Claimed' \/ Executing')
<1> DEFINE d == <<m, num[m] + 1>>
<1>1. num[m] \in Nat /\ d \in Delivery /\ d[1] = m /\ d[2] = num[m] + 1 /\ d[2] - 1 = num[m]
  BY DEF TimeInv, TypeInv, TypeOK, Deliver
<1> HIDE DEF d
<1>2. /\ phase' = [phase EXCEPT ![d] = "received"] /\ left' = [left EXCEPT ![d] = Latency]
      /\ status[m] = "ready"
      /\ status' = [status EXCEPT ![m] = "pending"] /\ timer' = [timer EXCEPT ![m] = AckWait]
      /\ num' = [num EXCEPT ![m] = num[m] + 1]
      /\ UNCHANGED <<claim, lease, row, newest>>
  BY Zenon DEF Deliver, Enter, d
<1>3. phase[d] \notin {"received", "claimed", "running"}
  BY Zenon, <1>1, <1>2 DEF TimeInv, HandlerInv
<1>4. /\ phase'[d] = "received" /\ \A c \in Delivery \ {d} : phase'[c] = phase[c] /\ left'[c] = left[c]
      /\ status'[m] = "pending" /\ num'[m] = num[m] + 1
      /\ \A o \in Message \ {m} : /\ status'[o] = status[o] /\ num'[o] = num[o]
                                  /\ timer'[o] = timer[o]
  BY <1>1, <1>2 DEF TimeInv, TypeInv, TypeOK
<1>5. Attended'
  BY <1>1, <1>3, <1>4 DEF Attended, Handled
<1>6. ASSUME NEW rest \in Nat, Within(rest) PROVE Within(rest)'
  <2>1. \A n : Bounces(n)' = Bounces(n)
    BY Zenon DEF Bounces, Shortest
  <2>2. Bounces(d[2] - 1) + rest <= Latency + Duration
    BY Zenon, <1>1, <1>2, <1>6 DEF Within
  <2> QED
    BY Zenon, <1>4, <1>6, <2>1, <2>2 DEF Within
<1>7. CASE Fresh
  <2>1. Fresh'
    BY <1>2, <1>4, <1>7 DEF Fresh
  <2> QED
    BY Zenon, <1>5, <2>1
<1>8. CASE Claimed \/ Executing
  BY Zenon, <1>2, <1>3, <1>4, <1>5, <1>6, <1>8, HeldStays
<1> QED
  BY Zenon, <1>7, <1>8

\* Redeliver: AckWait does not run out on an attended message, and too few bounces
\* fit into the time to use a message up.
LEMMA RedeliverSpares ==
    ASSUME Margins, Patient, TimeInv, Attended, Fresh \/ Claimed \/ Executing,
           NEW m \in Message, Redeliver(m)
    PROVE  Attended' /\ (Claimed' \/ Executing')
<1>0. /\ status \in [Message -> {"ready", "pending", "delayed", "exhausted", "gone"}]
      /\ timer \in [Message -> Nat] /\ num \in [Message -> 0..MaxDeliver]
  BY Zenon DEF TimeInv, TypeInv, TypeOK
<1>1. status[m] = "delayed" /\ timer[m] = 0
  <2>1. ASSUME status[m] = "pending" PROVE timer[m] > 0
    <3>1. PICK d \in Delivery : d[1] = m /\ phase[d] \in {"received", "claimed", "running"}
      BY Zenon, <2>1 DEF Attended, Handled
    <3>2. left[d] \in Nat
      BY Zenon DEF TimeInv, TypeInv, TypeOK
    <3> QED
      BY <1>0, <3>1, <3>2 DEF Margins, TimeInv, HandlerInv
  <2> QED
    BY <1>0, <2>1 DEF Redeliver
<1>2. ASSUME NEW rest \in Nat, Within(rest)
      PROVE  num[m] < MaxDeliver /\ Bounces(num[m]) + rest <= Latency + Duration
  <2>1. Bounces(num[m]) + rest <= Latency + Duration
    BY <1>1, <1>2 DEF Within
  <2>2. num[m] \in Nat /\ Bounces(num[m]) \in Nat /\ Latency + Duration < Bounces(MaxDeliver)
    BY <1>0, BouncesAdd
  <2>3. num[m] # MaxDeliver
    BY <2>1, <2>2
  <2> QED
    BY <1>0, <2>1, <2>3
<1>3. /\ UNCHANGED <<num, timer, phase, left, claim, lease, row, newest>>
      /\ status' = [status EXCEPT ![m] = IF num[m] < MaxDeliver THEN "ready" ELSE "exhausted"]
  BY Zenon DEF Redeliver
<1>4. Attended'
  BY <1>0, <1>3 DEF Attended, Handled
<1>5. ASSUME NEW rest \in Nat, Within(rest) PROVE Within(rest)'
  <2>1. \A n : Bounces(n)' = Bounces(n)
    BY Zenon DEF Bounces, Shortest
  <2>2. status'[m] = "ready" /\ \A o \in Message \ {m} : status'[o] = status[o]
    BY <1>0, <1>2, <1>3, <1>5
  <2> QED
    BY Zenon, <1>2, <1>3, <1>5, <2>1, <2>2 DEF Within
<1>6. ~ Fresh
  BY Zenon, <1>1 DEF Fresh
<1> QED
  BY Zenon, <1>3, <1>4, <1>5, <1>6, HeldStays

\* Claim: a bounce off the claim, or the first claim, or another after it expired.
LEMMA ClaimSpares ==
    ASSUME Patient, TimeInv, row # "succeeded", Attended, Fresh \/ Claimed \/ Executing,
           NEW d \in Delivery, Claim(d)
    PROVE  Attended' /\ (Claimed' \/ Executing')
<1>0. /\ phase \in [Delivery -> Busy \union {"none", "over"}] /\ left \in [Delivery -> Nat]
      /\ phase[d] = "received" /\ UNCHANGED <<lease, row, newest>>
  BY Zenon DEF TimeInv, TypeInv, TypeOK, Claim
<1>1. CASE claim.left > 0 /\ (\E delay \in BounceDelay : nak(d[1], delay)) /\ Enter(d, "over", 0)
  <2>1. PICK delay \in BounceDelay : nak(d[1], delay)
    BY Zenon, <1>1
  <2>2. Claimed \/ Executing
    BY <1>1 DEF Fresh
  <2>3. \A rest \in Nat : Within(rest) => Attended' /\ Within(rest)'
    BY Zenon, <1>0, <1>1, <2>1, BounceWithin
  <2>4. \E rest \in Nat : Within(rest)
    BY <1>0, <2>2 DEF Claimed, Executing
  <2>5. /\ \A c \in Delivery \ {d} : phase'[c] = phase[c] /\ left'[c] = left[c]
        /\ phase'[d] = "over"
    BY <1>0, <1>1 DEF Enter
  <2> QED
    BY Zenon, <1>0, <2>2, <2>3, <2>4, <2>5, HeldStays
<1>2. CASE Enter(d, "claimed", Latency) /\ UNCHANGED broker
  <2>1. /\ \A c \in Delivery \ {d} : phase'[c] = phase[c] /\ left'[c] = left[c]
        /\ phase'[d] = "claimed" /\ left'[d] = Latency
        /\ UNCHANGED <<status, num, timer>>
    BY <1>0, <1>2 DEF Enter, broker
  <2>2. Attended'
    BY <1>0, <2>1 DEF Attended, Handled
  <2>3. \A n : Bounces(n)' = Bounces(n)
    BY Zenon DEF Bounces, Shortest
  <2>4. ASSUME NEW rest \in Nat, Within(rest) PROVE Within(rest)'
    BY Zenon, <1>0, <2>1, <2>3, <2>4 DEF Within
  <2>5. CASE Fresh
    <3>1. ASSUME NEW c \in Delivery, phase[c] = "received" PROVE c[2] - 1 = 0
      BY <2>5, <3>1 DEF TimeInv, HandlerInv, Fresh
    <3>2. Bounces(0) = 0
      BY Zenon, BouncesAdd
    <3>3. Within(left[d] + Duration)'
      BY <1>0, <2>1, <2>3, <2>5, <3>1, <3>2 DEF Within, Fresh
    <3>4. Claimed'
      BY Zenon, <1>0, <2>1, <2>5, <3>3 DEF Fresh, Claimed
    <3> QED
      BY Zenon, <2>2, <3>4
  <2>6. CASE Claimed \/ Executing
    BY Zenon, <1>0, <2>1, <2>2, <2>4, <2>6, HeldStays
  <2> QED
    BY Zenon, <2>5, <2>6
<1> QED
  BY Zenon, <1>1, <1>2 DEF Claim

\* Start: the worker that claimed begins, with a lease that outlives it; one whose
\* claim came too early bounces off the lease.
LEMMA StartSpares ==
    ASSUME Patient, Duration < LeaseTtl, TimeInv, Attended, Fresh \/ Claimed \/ Executing,
           NEW d \in Delivery, Start(d)
    PROVE  Attended' /\ Executing'
<1>0. /\ phase \in [Delivery -> Busy \union {"none", "over"}] /\ left \in [Delivery -> Nat]
      /\ phase[d] = "claimed"
  BY Zenon DEF TimeInv, TypeInv, TypeOK, Start
<1>1. CASE Claimed
  <2>1. /\ lease' = key_for(d) /\ row' = "running" /\ newest' = d
        /\ phase' = [phase EXCEPT ![d] = "running"] /\ left' = [left EXCEPT ![d] = Duration]
        /\ UNCHANGED <<status, num, timer>>
    BY <1>1 DEF Claimed, Start, Enter, broker
  <2>2. PICK rest \in Nat : Within(rest + Duration)
    BY Zenon, <1>0, <1>1 DEF Claimed
  <2>3. \A n : Bounces(n)' = Bounces(n) /\ (n \in Nat => Bounces(n) \in Nat)
    BY Zenon, BouncesAdd DEF Bounces, Shortest
  <2>4. /\ phase'[d] = "running" /\ left'[d] = Duration
        /\ \A c \in Delivery \ {d} : phase'[c] = phase[c]
    BY <1>0, <2>1
  <2>5. Attended'
    BY <2>1, <2>4 DEF Attended, Handled
  <2>6. Within(Duration)'
    <3>1. /\ timer \in [Message -> Nat] /\ num \in [Message -> Nat]
          /\ \A c \in Delivery : c[2] - 1 \in Nat
      BY DEF TimeInv, TypeInv, TypeOK
    <3> QED
      BY <2>1, <2>2, <2>3, <2>4, <3>1 DEF Within
  <2>7. Executing'
    BY <1>1, <2>1, <2>4, <2>6, Keys DEF Claimed, Executing
  <2> QED
    BY Zenon, <2>5, <2>7
<1>2. CASE Executing
  <2>1. newest \in Delivery /\ newest # d /\ left[newest] \in Nat /\ lease.left > 0
    BY <1>0, <1>2 DEF Executing, TimeInv, TypeInv, TypeOK, TimedKey
  <2>2. PICK delay \in BounceDelay : nak(d[1], delay)
    BY <2>1 DEF Start
  <2>3. Enter(d, "over", 0) /\ UNCHANGED <<lease, row, newest>>
    BY <2>1 DEF Start
  <2>4. \A rest \in Nat : Within(rest) => Attended' /\ Within(rest)'
    BY Zenon, <1>0, <2>2, <2>3, BounceWithin
  <2>5. /\ \A c \in Delivery \ {d} : phase'[c] = phase[c] /\ left'[c] = left[c]
        /\ phase'[d] = "over"
    BY <1>0, <2>3 DEF Enter
  <2>6. row = "running" /\ Within(left[newest])
    BY Zenon, <1>2 DEF Executing
  <2>7. Claimed' \/ Executing'
    BY Zenon, <1>0, <1>2, <2>3, <2>4, <2>5, <2>6, HeldStays
  <2> QED
    BY Zenon, <2>1, <2>3, <2>4, <2>6, <2>7 DEF Claimed
<1>3. ~ Fresh
  BY Zenon, <1>0 DEF Fresh
<1> QED
  BY Zenon, <1>1, <1>2, <1>3

\* A second off every delay is a second off what the worker has to go.
LEMMA TickSpares ==
    ASSUME Patient, TimeInv, Attended, Fresh \/ Claimed \/ Executing, Tick
    PROVE  Attended' /\ (Fresh' \/ Claimed' \/ Executing')
<1>0. /\ left \in [Delivery -> Nat] /\ timer \in [Message -> Nat] /\ lease.left \in Nat
      /\ UNCHANGED <<status, num, phase, row, newest>>
  BY Zenon DEF TimeInv, TypeInv, TypeOK, TimedKey, Tick
<1>1. Attended'
  BY Zenon, <1>0 DEF Attended, Handled
<1>2. \A d \in Delivery : phase[d] \in Busy => left[d] > 0 /\ left'[d] = left[d] - 1
  BY <1>0 DEF Tick, Pred
<1>3. \A m \in Message : status[m] = "delayed" => timer'[m] = timer[m] - 1
  BY <1>0 DEF Tick, Pred
<1>4. /\ claim.left = 0 => claim'.left = 0
      /\ lease.left = 0 => lease'.left = 0
      /\ lease.left > 1 => lease'.left = lease.left - 1
  BY <1>0, Keys DEF TimeInv, TypeInv, TypeOK, TimedKey, Tick
<1>5. ASSUME NEW rest \in Nat \ {0}, Within(rest) PROVE Within(rest - 1)'
  <2>0. \A n : Bounces(n)' = Bounces(n) /\ (n \in Nat => Bounces(n) \in Nat)
    BY Zenon, BouncesAdd DEF Bounces, Shortest
  <2>1. /\ \A m \in Message : Bounces(num[m]) \in Nat /\ timer[m] \in Nat
        /\ \A d \in Delivery : Bounces(d[2] - 1) \in Nat
    BY <2>0 DEF TimeInv, TypeInv, TypeOK
  <2>2. ASSUME NEW m \in Message
        PROVE  /\ status[m] # "exhausted"
               /\ status[m] = "ready" => Bounces(num[m]) + (rest - 1) <= Latency + Duration
               /\ status[m] = "delayed" =>
                     Bounces(num[m]) + (rest - 1) <= Latency + Duration + timer'[m]
    BY <1>3, <1>5, <2>1 DEF Within
  <2>3. ASSUME NEW d \in Delivery, phase[d] \in {"received", "claimed"}
        PROVE  Bounces(d[2] - 1) + (rest - 1) <= Latency + Duration
    BY <1>5, <2>1, <2>3 DEF Within
  <2> QED
    BY Zenon, <1>0, <2>0, <2>2, <2>3 DEF Within
<1>6. CASE Fresh
  <2>1. Fresh'
    BY Zenon, <1>0, <1>4, <1>6 DEF Fresh
  <2> QED
    BY Zenon, <1>1, <2>1
<1>7. CASE Claimed
  <2>1. PICK c \in Delivery : phase[c] = "claimed" /\ Within(left[c] + Duration)
    BY Zenon, <1>7 DEF Claimed
  <2>2. left[c] \in Nat /\ left[c] > 0 /\ left'[c] = left[c] - 1
    BY <1>0, <1>2, <2>1 DEF Busy
  <2>3. Within(left[c] + Duration)'
    <3>1. PICK rest \in Nat \ {0} : rest = left[c] + Duration
      BY <2>2
    <3>2. rest - 1 = left'[c] + Duration
      BY <2>2, <3>1
    <3> QED
      BY Zenon, <1>5, <2>1, <3>1, <3>2
  <2> QED
    BY Zenon, <1>0, <1>1, <1>4, <1>7, <2>1, <2>3 DEF Claimed
<1>8. CASE Executing
  <2>1. newest \in Delivery /\ left[newest] > 0 /\ left'[newest] = left[newest] - 1
    BY Zenon, <1>2, <1>8 DEF Executing, Busy
  <2>2. Within(left[newest])'
    <3>1. PICK rest \in Nat \ {0} : rest = left[newest]
      BY <1>0, <2>1
    <3>2. rest - 1 = left'[newest']
      BY Zenon, <1>0, <2>1, <3>1
    <3> QED
      BY <1>5, <1>8, <3>1, <3>2 DEF Executing
  <2>3. left'[newest] < lease'.left
    BY <1>0, <1>4, <1>8, <2>1 DEF Executing
  <2> QED
    BY Zenon, <1>0, <1>1, <1>8, <2>2, <2>3 DEF Executing
<1> QED
  BY Zenon, <1>6, <1>7, <1>8

\* Every step keeps the job with the worker that has it, or lets it succeed.
LEMMA NextSpare ==
    ASSUME Margins, Patient, Duration < LeaseTtl, TimeInv, TimeInv', SpareInv, [Next]_vars
    PROVE  SpareInv'
<1> SUFFICES ASSUME kills' = 0, failures' = 0
             PROVE  row' = "succeeded" \/ (Attended' /\ (Fresh' \/ Claimed' \/ Executing'))
  BY Zenon DEF SpareInv
<1>0. kills \in Nat /\ failures \in Nat
  BY Zenon DEF TimeInv, TypeInv, TypeOK
<1>1. kills = 0 /\ failures = 0 /\ ~ \E d \in Delivery : Kill(d) \/ Fail(d)
  <2>1. \A d \in Delivery : ~ Kill(d) /\ ~ Fail(d)
    BY <1>0 DEF Kill, Fail
  <2> QED
    BY Zenon, <2>1, ZenonT(30) DEF Next, Step, vars, Deliver, Redeliver, Quarantine,
       Tick, Claim,
       Start, Complete, Release
<1>2. CASE row = "succeeded"
  BY Zenon, <1>1, <1>2, ZenonT(30) DEF Next, Step, vars, Deliver, Redeliver, Quarantine,
     Tick, Claim,
     Start, Complete, Release
<1>3. CASE row # "succeeded"
  <2>1. Attended /\ (Fresh \/ Claimed \/ Executing)
    BY Zenon, <1>1, <1>3 DEF SpareInv
  <2>2. ASSUME NEW m \in Message, Quarantine(m) PROVE FALSE
    BY Zenon, <2>1, <2>2 DEF Quarantine, Fresh, Claimed, Executing, Within
  <2>3. ASSUME NEW d \in Delivery, Release(d) PROVE FALSE
    BY Zenon, <2>1, <2>3 DEF Release, Attended
  <2>4. ASSUME NEW d \in Delivery, Complete(d) PROVE row' = "succeeded"
    BY Zenon, <2>1, <2>4 DEF Complete, Finished, Fresh, Claimed, Executing
  <2>5. CASE UNCHANGED vars
    BY Zenon, <2>1, <2>5, ZenonT(30) DEF vars, Attended, Handled, Fresh, Claimed,
       Executing, Within,
       Bounces, Shortest
  <2> QED
    BY Zenon, <1>1, <1>3, <2>1, <2>2, <2>3, <2>4, <2>5, DeliverSpares, RedeliverSpares,
       ClaimSpares,
       StartSpares, TickSpares DEF Next, Step
<1> QED
  BY Zenon, <1>2, <1>3


\* main.py's bounces: with MaxDeliver of them longer than an execution and a lease
\* that outlives it, a job nobody killed and nothing failed is never quarantined
\* under the worker that executes it, however many duplicates it has.
THEOREM BouncesOutlastTheJob ==
    Margins /\ Patient /\ Duration < LeaseTtl /\ Spec => []QuarantineSparesRunning
<1>1. SpareInv => QuarantineSparesRunning
  BY Zenon DEF SpareInv, Fresh, Claimed, Executing, QuarantineSparesRunning
<1>2. Margins /\ Patient /\ Duration < LeaseTtl => (Spec => [](TimeInv /\ SpareInv))
  <2> SUFFICES ASSUME Margins, Patient, Duration < LeaseTtl PROVE Spec => [](TimeInv /\ SpareInv)
    OBVIOUS
  <2>1. TimeInv /\ SpareInv /\ [Next]_vars => TimeInv' /\ SpareInv'
    BY Zenon, NextTime, NextSpare
  <2> QED
    BY InitTime, InitSpare, <2>1, PTL DEF Spec
<1> QED
  BY <1>1, <1>2, PTL
==============================================================================
