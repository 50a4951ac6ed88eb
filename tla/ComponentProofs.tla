--------------------------- MODULE ComponentProofs ---------------------------
(***************************************************************************)
(* Proofs about the parts around the fleet, each on its own and for any    *)
(* values of its constants: Outbox, FencedLease and Startup.               *)
(***************************************************************************)
EXTENDS Outbox, FencedLease, Startup, FiniteSetTheorems, TLAPS
------------------------------------------------------------------------------
(* Outbox *)

\* A transaction that reached its outbox row owns a fresh id.
Drawing ==
    \A r \in Request :
       /\ drawn[r] < next_id
       /\ api[r] \notin {"commit", "replied", "failed"} => drawn[r] = 0
       /\ api[r] = "commit" => drawn[r] # 0
       /\ \A q \in Request : drawn[r] = drawn[q] /\ drawn[r] # 0 => r = q

\* The UNIQUE constraint: a key belongs to one committed job, or to one
\* transaction in progress.
Keys ==
    /\ \A r, q \in Request :
          api[r] \in InTransaction /\ KeyOf[q] = KeyOf[r] =>
             q \notin jobs /\ (api[q] \in InTransaction => q = r)
    /\ \A j, k \in jobs : KeyOf[j] = KeyOf[k] => j = k

\* Jobs and outbox rows were committed together, with the id drawn for them,
\* and a marked row was published before.
Rows ==
    /\ \A o \in outbox : /\ o.job \in jobs /\ o.id = drawn[o.job]
                         /\ o.published => stored[o.id] > 0
    /\ \A j \in jobs : \E o \in outbox : o.job = j

\* A batch holds committed rows; what is no longer to do has been published.
Batches ==
    \A x \in Relay :
       /\ todo[x] \subseteq batch[x]
       /\ \A i \in batch[x] : /\ \E o \in outbox : o.id = i
                              /\ i \notin todo[x] => stored[i] > 0

\* The broker stores committed rows only, and remembers only what it stored.
Store ==
    \A i \in Id : /\ stored[i] > 0 => \E o \in outbox : o.id = i
                  /\ i \in window => stored[i] > 0

\* A reply names a committed job with the request's key, and only a creator is
\* told that it created it.
Replies ==
    /\ \A r \in Request : \A j \in reply[r] : j \in jobs /\ KeyOf[j] = KeyOf[r]
    /\ created \subseteq jobs

IInv == TypeOK /\ Drawing /\ Keys /\ Rows /\ Batches /\ Store /\ Replies

\* The initial state satisfies IInv.
LEMMA InitIInv == Init => IInv
<1> SUFFICES ASSUME Init PROVE IInv
  OBVIOUS
<1> USE OutboxAssumption DEF Init
<1>1. TypeOK
  BY DEF TypeOK, Id, OutboxRow
<1>2. Drawing /\ Keys /\ Rows
  BY DEF Drawing, Keys, Rows, InTransaction
<1>3. Batches /\ Store /\ Replies
  BY DEF Batches, Store, Replies
<1> QED BY Zenon, <1>1, <1>2, <1>3 DEF IInv

\* Steps of a request before its commit: nothing another process reads changes
\* but its own control point, the sequence and the admission counter.
LEMMA ApiIInv ==
    ASSUME IInv, NEW r \in Request,
           \/ Submit(r) \/ InsertJob(r) \/ InsertOutbox(r) \/ AbortSubmit(r)
    PROVE  IInv'
<1> USE OutboxAssumption DEF IInv
<1>0. /\ api \in [Request -> {"new"} \union Serving \union Answered]
      /\ drawn \in [Request -> 0..MaxId] /\ next_id \in 1..(MaxId + 1)
      /\ in_flight \in Int /\ MaxId \in Nat
  BY Zenon DEF TypeOK
<1>1. /\ UNCHANGED <<jobs, outbox, reply, created, batch, todo, open, failures>>
      /\ UNCHANGED <<stored, window, lapsed>>
      /\ in_flight' \in Int
      /\ \E l \in {"rejected", "insert_job", "select", "insert_outbox", "commit", "failed"} :
            Goto(r, l)
  <2>1. /\ UNCHANGED <<jobs, outbox, reply, created, relayVars, brokerVars>>
        /\ \/ UNCHANGED in_flight \/ try_acquire \/ release
        /\ \/ Goto(r, "rejected") \/ Goto(r, "insert_job") \/ Goto(r, "select")
           \/ Goto(r, "insert_outbox") \/ Goto(r, "commit") \/ Goto(r, "failed")
    BY Zenon DEF Submit, InsertJob, InsertOutbox, AbortSubmit
  <2>2. in_flight' \in Int
    BY <1>0, <2>1 DEF try_acquire, release
  <2> QED BY Zenon, <2>1, <2>2 DEF relayVars, brokerVars
<1>2. PICK l \in {"rejected", "insert_job", "select", "insert_outbox", "commit", "failed"} :
         Goto(r, l)
  BY Zenon, <1>1
<1>3. \/ UNCHANGED <<drawn, next_id>> /\ ~ InsertOutbox(r)
      \/ /\ InsertOutbox(r) /\ next_id <= MaxId
         /\ drawn' = [drawn EXCEPT ![r] = next_id] /\ next_id' = next_id + 1
  BY Zenon DEF Submit, InsertJob, InsertOutbox, AbortSubmit
<1>4. TypeOK'
  <2>1. drawn' \in [Request -> 0..MaxId] /\ next_id' \in 1..(MaxId + 1)
    BY <1>0, <1>3
  <2>2. api' \in [Request -> {"new"} \union Serving \union Answered]
    BY Zenon, <1>0, <1>2 DEF Goto, Serving, Answered, InTransaction
  <2> QED BY Zenon, <1>1, <2>1, <2>2 DEF TypeOK
<1>5. Drawing'
  <2>1. CASE InsertOutbox(r)
    <3>1. /\ api[r] = "insert_outbox" /\ api' = [api EXCEPT ![r] = "commit"]
          /\ drawn' = [drawn EXCEPT ![r] = next_id] /\ next_id' = next_id + 1
      BY Zenon, <2>1 DEF InsertOutbox, Goto
    <3> QED BY <1>0, <3>1 DEF Drawing
  <2>2. CASE ~ InsertOutbox(r)
    <3>1. api[r] = "new" \/ api[r] = "insert_job" \/ api' = [api EXCEPT ![r] = "failed"]
      BY Zenon, <2>2 DEF Submit, InsertJob, AbortSubmit, Goto
    <3>2. api' = [api EXCEPT ![r] = l] /\ UNCHANGED <<drawn, next_id>>
      BY Zenon, <1>2, <1>3, <2>2 DEF Goto
    <3>3. l # "commit"
      BY Zenon, <1>0, <2>2, <3>2 DEF Submit, InsertJob, AbortSubmit, Goto
    <3> QED BY Zenon, <1>0, <3>1, <3>2, <3>3 DEF Drawing
  <2> QED BY Zenon, <2>1, <2>2
<1>6. Keys'
  <2>1. \/ api[r] \in InTransaction
        \/ api'[r] \notin InTransaction
        \/ /\ \A q \in Request : KeyOf[q] = KeyOf[r] => api[q] \notin InTransaction
           /\ \A j \in jobs : KeyOf[j] # KeyOf[r]
    BY Zenon, <1>0 DEF Submit, InsertJob, InsertOutbox, AbortSubmit, Goto, InTransaction
  <2>2. \A q \in Request \ {r} : api'[q] = api[q]
    BY Zenon, <1>0, <1>2 DEF Goto
  <2>3. jobs' = jobs /\ jobs \subseteq Request
    BY Zenon, <1>1 DEF TypeOK
  <2> QED BY Zenon, <2>1, <2>2, <2>3 DEF Keys
<1>7. Rows'
  <2>1. \A o \in outbox : o.id \in Id /\ o.job \in Request
    BY Zenon DEF TypeOK, OutboxRow
  <2>2. \A q \in Request : drawn[q] # 0 => drawn'[q] = drawn[q]
    <3>1. InsertOutbox(r) => drawn[r] = 0
      BY Zenon DEF InsertOutbox, Drawing
    <3> QED BY Zenon, <1>0, <1>3, <3>1
  <2> QED BY <1>0, <1>1, <2>1, <2>2 DEF Rows, Id
<1>8. Batches' /\ Store' /\ Replies'
  BY Zenon, <1>1 DEF Batches, Store, Replies
<1> QED BY Zenon, <1>4, <1>5, <1>6, <1>7, <1>8

\* A request that finds its key taken is answered with the job that has it.
LEMMA SelectIInv == ASSUME IInv, NEW r \in Request, SelectExisting(r) PROVE IInv'
<1> USE DEF IInv
<1>1. PICK j \in jobs : KeyOf[j] = KeyOf[r] /\ reply' = [reply EXCEPT ![r] = {j}]
  BY Zenon DEF SelectExisting
<1>2. /\ api[r] = "select" /\ api' = [api EXCEPT ![r] = "replied"] /\ in_flight' \in Int
      /\ UNCHANGED <<jobs, outbox, next_id, drawn, created, batch, todo, open, failures,
                     stored, window, lapsed>>
  BY DEF SelectExisting, Goto, release, TypeOK, relayVars, brokerVars
<1>3. /\ api \in [Request -> {"new"} \union Serving \union Answered]
      /\ reply \in [Request -> SUBSET Request]
      /\ jobs \subseteq Request
  BY Zenon DEF TypeOK
<1>4. TypeOK'
  <2>1. /\ api' \in [Request -> {"new"} \union Serving \union Answered]
        /\ reply' \in [Request -> SUBSET Request]
    BY Zenon, <1>1, <1>2, <1>3 DEF Answered
  <2> QED BY Zenon, <1>2, <2>1 DEF TypeOK
<1>5. Drawing' /\ Keys'
  BY Zenon, <1>2, <1>3 DEF Drawing, Keys, InTransaction
<1>6. Rows' /\ Batches' /\ Store'
  BY Zenon, <1>2 DEF Rows, Batches, Store
<1>7. Replies'
  BY Zenon, <1>1, <1>2, <1>3 DEF Replies
<1> QED BY Zenon, <1>4, <1>5, <1>6, <1>7

\* COMMIT makes the job and its row visible at once.
LEMMA CommitIInv == ASSUME IInv, NEW r \in Request, CommitSubmit(r) PROVE IInv'
<1> USE DEF IInv
<1> DEFINE row == [id |-> drawn[r], job |-> r, published |-> FALSE]
<1>0. in_flight' \in Int
  BY DEF CommitSubmit, release, TypeOK
<1>1. /\ api[r] = "commit" /\ jobs' = jobs \union {r} /\ outbox' = outbox \union {row}
      /\ \/ /\ api' = [api EXCEPT ![r] = "replied"]
            /\ reply' = [reply EXCEPT ![r] = {r}] /\ created' = created \union {r}
         \/ api' = [api EXCEPT ![r] = "failed"] /\ reply' = reply /\ created' = created
      /\ UNCHANGED <<next_id, drawn, batch, todo, open, failures, stored, window, lapsed>>
  BY Zenon DEF CommitSubmit, Goto, relayVars, brokerVars
<1>2. /\ api \in [Request -> {"new"} \union Serving \union Answered]
      /\ reply \in [Request -> SUBSET Request]
      /\ drawn \in [Request -> 0..MaxId] /\ jobs \subseteq Request
      /\ outbox \subseteq OutboxRow
  BY Zenon DEF TypeOK
<1>3. drawn[r] \in Id
  BY OutboxAssumption, <1>1, <1>2 DEF Drawing, Id
<1>4. row \in OutboxRow /\ row.id = drawn[r] /\ row.job = r /\ row.published = FALSE
  BY Zenon, <1>3 DEF OutboxRow
<1> HIDE DEF row
<1>5. TypeOK'
  <2>1. api' \in [Request -> {"new"} \union Serving \union Answered]
    BY Zenon, <1>1, <1>2 DEF Answered
  <2>2. reply' \in [Request -> SUBSET Request]
    BY <1>1, <1>2
  <2>3. jobs' \subseteq Request /\ outbox' \subseteq OutboxRow /\ created' \subseteq Request
    BY Zenon, <1>1, <1>2, <1>4 DEF TypeOK
  <2> QED BY Zenon, <1>0, <1>1, <2>1, <2>2, <2>3 DEF TypeOK
<1>6. Drawing'
  BY Zenon, <1>1, <1>2 DEF Drawing
<1>7. Keys'
  <2>1. api'[r] \notin InTransaction /\ \A q \in Request \ {r} : api'[q] = api[q]
    BY Zenon, <1>1, <1>2 DEF InTransaction
  <2>2. \A q \in Request : KeyOf[q] = KeyOf[r] =>
           q \notin jobs /\ (api[q] \in InTransaction => q = r)
    BY Zenon, <1>1 DEF Keys, InTransaction
  <2>3. \A q, p \in Request :
           api[q] \in InTransaction /\ KeyOf[p] = KeyOf[q] =>
              p \notin jobs /\ (api[p] \in InTransaction => p = q)
    BY Zenon DEF Keys
  <2>4. \A j, k \in jobs : KeyOf[j] = KeyOf[k] => j = k
    BY Zenon DEF Keys
  <2> QED BY Zenon, <1>1, <1>2, <2>1, <2>2, <2>3, <2>4 DEF Keys
<1>8. Rows'
  <2>1. \A o \in outbox' : o = row \/ o \in outbox
    BY Zenon, <1>1
  <2>2. row \in outbox' /\ outbox \subseteq outbox'
    BY Zenon, <1>1
  <2> QED BY Zenon, <1>1, <1>4, <2>1, <2>2 DEF Rows
<1>9. Batches' /\ Store'
  <2>1. outbox \subseteq outbox'
    BY Zenon, <1>1
  <2> QED BY Zenon, <1>1, <2>1 DEF Batches, Store
<1>10. Replies'
  BY <1>1, <1>2 DEF Replies
<1> QED BY Zenon, <1>5, <1>6, <1>7, <1>8, <1>9, <1>10

\* The crash of the API process only ends requests.
LEMMA CrashIInv == ASSUME IInv, ApiCrash PROVE IInv'
<1> USE DEF IInv
<1>1. /\ api' = [r \in Request |-> IF api[r] \in Serving THEN "failed" ELSE api[r]]
      /\ in_flight' = 0
      /\ UNCHANGED <<jobs, outbox, next_id, drawn, reply, created, batch, todo, open, failures,
                     stored, window, lapsed>>
  BY Zenon DEF ApiCrash, relayVars, brokerVars
<1>2. TypeOK'
  <2>1. api' \in [Request -> {"new"} \union Serving \union Answered]
    BY Zenon, <1>1 DEF TypeOK, Answered
  <2> QED BY <1>1, <2>1 DEF TypeOK
<1>3. Drawing'
  BY Zenon, <1>1 DEF Drawing, Serving, InTransaction
<1>4. Keys'
  <2>1. \A r \in Request : api'[r] \notin InTransaction
    BY Zenon, <1>1 DEF Serving, InTransaction
  <2> QED BY Zenon, <1>1, <2>1 DEF Keys
<1>5. Rows' /\ Batches' /\ Store' /\ Replies'
  BY Zenon, <1>1 DEF Rows, Batches, Store, Replies
<1> QED BY Zenon, <1>2, <1>3, <1>4, <1>5

\* Fetching a batch, and losing or dropping one, touches relays only.
LEMMA FetchIInv ==
    ASSUME IInv, NEW x \in Relay,
           FetchBatch(x) \/ MarkRaises(x) \/ RelayCrash(x) \/ LoseSession(x)
    PROVE  IInv'
<1> USE DEF IInv
<1>0. /\ batch \in [Relay -> SUBSET Id] /\ todo \in [Relay -> SUBSET Id]
      /\ open \subseteq Relay /\ failures \in Nat /\ outbox \subseteq OutboxRow
  BY Zenon DEF TypeOK
<1>1. UNCHANGED <<jobs, outbox, next_id, in_flight, api, drawn, reply, created,
                  stored, window, lapsed>>
  BY Zenon DEF FetchBatch, MarkRaises, RelayCrash, LoseSession, apiVars, brokerVars
<1>2. \A i \in NextBatch : \E o \in outbox : o.id = i
  BY Zenon DEF NextBatch, Unpublished
<1>3. NextBatch \subseteq Id
  BY Zenon, <1>0, <1>2 DEF OutboxRow
<1>4. /\ open' \subseteq Relay /\ failures' \in Nat
      /\ \/ UNCHANGED <<batch, todo>>
         \/ batch' = [batch EXCEPT ![x] = {}] /\ todo' = [todo EXCEPT ![x] = {}]
         \/ batch' = [batch EXCEPT ![x] = NextBatch] /\ todo' = [todo EXCEPT ![x] = NextBatch]
  BY <1>0 DEF FetchBatch, MarkRaises, RelayCrash, LoseSession, Drop
<1>5. TypeOK'
  <2>1. batch' \in [Relay -> SUBSET Id] /\ todo' \in [Relay -> SUBSET Id]
    BY Zenon, <1>0, <1>3, <1>4
  <2> QED BY Zenon, <1>1, <1>4, <2>1 DEF TypeOK
<1>6. Batches'
  <2> HIDE DEF NextBatch
  <2> QED BY SMTT(30), <1>0, <1>1, <1>2, <1>4 DEF Batches
<1>7. Drawing' /\ Keys' /\ Rows' /\ Store' /\ Replies'
  BY Zenon, <1>1 DEF Drawing, Keys, Rows, Store, Replies
<1> QED BY Zenon, <1>5, <1>6, <1>7

\* What a publish does to the broker.
LEMMA PublishStep ==
    ASSUME IInv, NEW x \in Relay, Publish(x)
    PROVE  \E i \in todo[x] :
              /\ i \in Id /\ (\E o \in outbox : o.id = i)
              /\ todo' = [todo EXCEPT ![x] = @ \ {i}]
              /\ stored' = IF i \in window THEN stored ELSE [stored EXCEPT ![i] = @ + 1]
              /\ window' = window \union {i}
              /\ UNCHANGED <<jobs, outbox, next_id, in_flight, api, drawn, reply, created,
                             batch, open, failures, lapsed>>
<1>1. todo[x] \subseteq Id /\ \A i \in todo[x] : \E o \in outbox : o.id = i
  BY Zenon DEF IInv, TypeOK, Batches
<1> QED BY Zenon, <1>1 DEF Publish, store, apiVars

\* A publish stores a committed row, unless its id is remembered, in which case
\* it was stored before.
LEMMA PublishIInv == ASSUME IInv, NEW x \in Relay, Publish(x) PROVE IInv'
<1> USE DEF IInv
<1>1. PICK i \in todo[x] :
         /\ i \in Id /\ (\E o \in outbox : o.id = i)
         /\ todo' = [todo EXCEPT ![x] = @ \ {i}]
         /\ stored' = IF i \in window THEN stored ELSE [stored EXCEPT ![i] = @ + 1]
         /\ window' = window \union {i}
         /\ UNCHANGED <<jobs, outbox, next_id, in_flight, api, drawn, reply, created,
                        batch, open, failures, lapsed>>
  BY Zenon, PublishStep
<1>2. /\ todo \in [Relay -> SUBSET Id] /\ batch \in [Relay -> SUBSET Id]
      /\ stored \in [Id -> Nat] /\ lapsed \in [Id -> Nat] /\ window \subseteq Id
  BY Zenon DEF TypeOK
<1>3. TypeOK'
  <2>1. todo' \in [Relay -> SUBSET Id] /\ stored' \in [Id -> Nat] /\ window' \subseteq Id
    BY <1>1, <1>2
  <2> QED BY Zenon, <1>1, <2>1 DEF TypeOK
<1>4. /\ stored'[i] > 0
      /\ \A k \in Id : stored[k] > 0 => stored'[k] > 0
      /\ \A k \in Id \ {i} : stored'[k] = stored[k]
  BY <1>1, <1>2 DEF Store
<1>5. Rows'
  <2>1. \A o \in outbox : o.id \in Id
    BY Zenon DEF TypeOK, OutboxRow
  <2> QED BY Zenon, <1>1, <1>4, <2>1 DEF Rows
<1>6. Batches'
  BY <1>1, <1>2, <1>4 DEF Batches
<1>7. Store'
  BY <1>1, <1>2, <1>4 DEF Store
<1>8. Drawing' /\ Keys' /\ Replies'
  BY Zenon, <1>1 DEF Drawing, Keys, Replies
<1> QED BY Zenon, <1>3, <1>5, <1>6, <1>7, <1>8

\* Marking changes the flag of rows that were all published.
LEMMA MarkIInv == ASSUME IInv, NEW x \in Relay, MarkPublished(x) PROVE IInv'
<1> USE DEF IInv
<1> DEFINE mark(o) == IF o.id \in batch[x] THEN [o EXCEPT !.published = TRUE] ELSE o
<1>1. /\ todo[x] = {} /\ outbox' = {mark(o) : o \in outbox}
      /\ batch' = [batch EXCEPT ![x] = {}] /\ todo' = [todo EXCEPT ![x] = {}]
      /\ open' = open \ {x}
      /\ UNCHANGED <<jobs, next_id, in_flight, api, drawn, reply, created, failures,
                     stored, window, lapsed>>
  BY Zenon DEF MarkPublished, Drop, apiVars, brokerVars
<1>2. /\ batch \in [Relay -> SUBSET Id] /\ todo \in [Relay -> SUBSET Id]
      /\ open \subseteq Relay /\ outbox \subseteq OutboxRow
  BY Zenon DEF TypeOK
<1>3. \A o \in outbox : /\ mark(o) \in OutboxRow /\ mark(o).id = o.id /\ mark(o).job = o.job
                        /\ mark(o).published => o.published \/ o.id \in batch[x]
  BY Zenon, <1>2 DEF OutboxRow
<1> HIDE DEF mark
<1>4. /\ outbox' \subseteq OutboxRow
      /\ \A p \in outbox' : \E o \in outbox : p = mark(o)
      /\ \A o \in outbox : mark(o) \in outbox'
  BY Zenon, <1>1, <1>3
<1>5. TypeOK'
  <2>1. batch' \in [Relay -> SUBSET Id] /\ todo' \in [Relay -> SUBSET Id] /\ open' \subseteq Relay
    BY Zenon, <1>1, <1>2
  <2> QED BY Zenon, <1>1, <1>4, <2>1 DEF TypeOK
<1>6. Rows'
  <2>1. \A i \in batch[x] : stored[i] > 0
    BY Zenon, <1>1 DEF Batches
  <2> QED BY <1>1, <1>3, <1>4, <2>1 DEF Rows
<1>7. Batches'
  BY <1>1, <1>2, <1>3, <1>4 DEF Batches
<1>8. Store'
  BY <1>1, <1>3, <1>4 DEF Store
<1>9. Drawing' /\ Keys' /\ Replies'
  BY Zenon, <1>1 DEF Drawing, Keys, Replies
<1> QED BY Zenon, <1>5, <1>6, <1>7, <1>8, <1>9

\* The end of a duplicate window is counted.
LEMMA LapseIInv == ASSUME IInv, NEW i \in Id, WindowLapses(i) PROVE IInv'
<1> USE DEF IInv
<1>1. /\ i \in window /\ window' = window \ {i} /\ lapsed' = [lapsed EXCEPT ![i] = @ + 1]
      /\ UNCHANGED <<jobs, outbox, next_id, in_flight, api, drawn, reply, created,
                     batch, todo, open, failures, stored>>
  BY Zenon DEF WindowLapses, apiVars, relayVars
<1>2. stored \in [Id -> Nat] /\ lapsed \in [Id -> Nat] /\ window \subseteq Id
  BY Zenon DEF TypeOK
<1>3. TypeOK'
  <2>1. lapsed' \in [Id -> Nat] /\ window' \subseteq Id
    BY <1>1, <1>2
  <2> QED BY Zenon, <1>1, <2>1 DEF TypeOK
<1>4. Store'
  BY <1>1, <1>2 DEF Store
<1>5. Drawing' /\ Keys' /\ Rows' /\ Batches' /\ Replies'
  BY Zenon, <1>1 DEF Drawing, Keys, Rows, Batches, Replies
<1> QED BY Zenon, <1>3, <1>4, <1>5

\* IInv holds in every reachable state.
LEMMA SpecIInv == Spec => []IInv
<1>1. IInv /\ [Next]_vars => IInv'
  <2> SUFFICES ASSUME IInv, [Next]_vars PROVE IInv'
    OBVIOUS
  <2>1. CASE UNCHANGED vars
    BY Zenon, <2>1 DEF vars, apiVars, relayVars, brokerVars, IInv, TypeOK, Drawing, Keys,
       Rows,
       Batches, Store, Replies
  <2> QED BY Zenon, <2>1, ApiIInv, SelectIInv, CommitIInv, CrashIInv, FetchIInv,
             PublishIInv,
             MarkIInv, LapseIInv DEF Next
<1> QED BY <1>1, InitIInv, PTL DEF Spec

------------------------------------------------------------------------------
(* Admission *)

\* The requests that hold a slot.
Served == {r \in Request : api[r] \in Serving}

\* The counter counts them, for however many requests: Request need not be finite.
SlotInv == IsFiniteSet(Served) /\ in_flight = Cardinality(Served) /\ in_flight <= Capacity

\* The steps of one request: it takes a slot when it is admitted, gives it back on
\* each of its three ways out, and between the two keeps it.
LEMMA RequestSlots ==
    ASSUME TypeOK, SlotInv, NEW r \in Request,
           \/ Submit(r) \/ InsertJob(r) \/ SelectExisting(r) \/ InsertOutbox(r)
           \/ CommitSubmit(r) \/ AbortSubmit(r)
    PROVE  SlotInv'
<1> USE OutboxAssumption
<1>0. api \in [Request -> {"new"} \union Serving \union Answered] /\ Cardinality(Served) \in Nat
  BY Zenon, FS_CardinalityType DEF TypeOK, SlotInv
<1>1. ASSUME api[r] \in Serving, release,
             api' = [api EXCEPT ![r] = "replied"] \/ api' = [api EXCEPT ![r] = "failed"]
      PROVE  SlotInv'
  <2>1. r \in Served /\ Served' = Served \ {r}
    BY Zenon, <1>0, <1>1 DEF Served, Serving, InTransaction
  <2>2. IsFiniteSet(Served') /\ Cardinality(Served') = Cardinality(Served) - 1
    BY Zenon, <2>1, FS_RemoveElement DEF SlotInv
  <2>3. Cardinality(Served) > 0
    BY <1>0, <2>1, FS_EmptySet DEF SlotInv
  <2> QED BY <1>0, <1>1, <2>2, <2>3 DEF SlotInv, release
<1>2. ASSUME UNCHANGED in_flight, NEW l \in {"rejected", "select", "insert_outbox", "commit"},
             api' = [api EXCEPT ![r] = l], api[r] \in Serving <=> l \in Serving
      PROVE  SlotInv'
  <2>1. Served' = Served
    BY Zenon, <1>0, <1>2 DEF Served
  <2> QED BY Zenon, <1>2, <2>1 DEF SlotInv
<1>3. CASE Submit(r)
  <2>1. CASE in_flight >= Capacity /\ Goto(r, "rejected") /\ UNCHANGED in_flight
    <3>1. api[r] = "new" /\ api' = [api EXCEPT ![r] = "rejected"]
      BY Zenon, <1>3, <2>1 DEF Submit, Goto
    <3> QED BY Zenon, <1>2, <2>1, <3>1 DEF Serving, InTransaction
  <2>2. CASE try_acquire /\ Goto(r, "insert_job")
    <3>1. r \notin Served /\ Served' = Served \union {r}
      BY Zenon, <1>0, <1>3, <2>2 DEF Submit, Goto, Served, Serving, InTransaction
    <3>2. IsFiniteSet(Served') /\ Cardinality(Served') = Cardinality(Served) + 1
      BY Zenon, <3>1, FS_AddElement DEF SlotInv
    <3> QED BY <1>0, <2>2, <3>2 DEF SlotInv, try_acquire
  <2> QED BY Zenon, <1>3, <2>1, <2>2 DEF Submit
<1>4. CASE InsertJob(r) \/ InsertOutbox(r)
  <2>1. api[r] \in Serving /\ UNCHANGED in_flight
    BY Zenon, <1>4 DEF InsertJob, InsertOutbox, Serving, InTransaction
  <2>2. PICK l \in {"select", "insert_outbox", "commit"} : api' = [api EXCEPT ![r] = l]
    BY Zenon, <1>4 DEF InsertJob, InsertOutbox, Goto
  <2> QED BY Zenon, <1>2, <2>1, <2>2 DEF Serving, InTransaction
<1>5. CASE SelectExisting(r) \/ CommitSubmit(r) \/ AbortSubmit(r)
  <2>1. /\ api[r] \in Serving /\ release
        /\ api' = [api EXCEPT ![r] = "replied"] \/ api' = [api EXCEPT ![r] = "failed"]
    BY Zenon, <1>5 DEF SelectExisting, CommitSubmit, AbortSubmit, Goto, Serving,
       InTransaction
  <2> QED BY Zenon, <1>1, <2>1
<1> QED BY Zenon, <1>3, <1>4, <1>5

\* The crash of the API process frees every slot, and its successor counts from zero.
LEMMA CrashSlots == ASSUME ApiCrash PROVE SlotInv'
<1>1. Served' = {} /\ in_flight' = 0
  BY Zenon DEF ApiCrash, Served, Serving, InTransaction
<1> QED BY <1>1, FS_EmptySet, OutboxAssumption DEF SlotInv

\* The counter is right in every reachable state.
LEMMA SpecSlots == Spec => []SlotInv
<1>1. Init => SlotInv
  <2> SUFFICES ASSUME Init PROVE SlotInv
    OBVIOUS
  <2>1. Served = {}
    BY Zenon DEF Init, Served, Serving, InTransaction
  <2> QED BY <2>1, FS_EmptySet, OutboxAssumption DEF SlotInv, Init
<1>2. IInv /\ SlotInv /\ [Next]_vars => SlotInv'
  <2> SUFFICES ASSUME IInv, SlotInv, [Next]_vars PROVE SlotInv'
    OBVIOUS
  <2>1. CASE UNCHANGED <<api, in_flight>>
    BY Zenon, <2>1 DEF SlotInv, Served
  <2>2. CASE \E r \in Request :
                \/ Submit(r) \/ InsertJob(r) \/ SelectExisting(r) \/ InsertOutbox(r)
                \/ CommitSubmit(r) \/ AbortSubmit(r)
    BY Zenon, <2>2, RequestSlots DEF IInv
  <2>3. \/ UNCHANGED <<api, in_flight>> \/ ApiCrash
        \/ \E r \in Request :
              \/ Submit(r) \/ InsertJob(r) \/ SelectExisting(r) \/ InsertOutbox(r)
              \/ CommitSubmit(r) \/ AbortSubmit(r)
    BY Zenon DEF Next, FetchBatch, Publish, MarkPublished, MarkRaises, RelayCrash,
       LoseSession,
       WindowLapses, vars, apiVars
  <2> QED BY Zenon, <2>1, <2>2, <2>3, CrashSlots
<1> QED BY <1>1, <1>2, SpecIInv, PTL DEF Spec

------------------------------------------------------------------------------
(* Row locks *)

\* An id names one row.  The rows an open transaction has selected are unpublished,
\* and no other open transaction has them.
LockInv ==
    /\ \A o, p \in outbox : o.id = p.id => o = p
    /\ \A x \in open : \A o \in outbox : o.id \in batch[x] => ~o.published
    /\ \A x, y \in open : x # y => batch[x] \cap batch[y] = {}

\* Relays that have lost their lock on a row and will still publish it.
Strays(i) == {x \in Relay : x \notin open /\ i \in todo[x]}

\* A row that is marked, or published by the relay that holds its lock.
Through(i) ==
    \/ \E o \in outbox : o.id = i /\ o.published
    \/ \E x \in open : i \in batch[x] /\ i \notin todo[x]

\* Every message of a row, stored or still to come from a stray, is paid for by a
\* failure, but for the one of a relay that held the lock to the end.
RepeatInv ==
    \A i \in Id :
       /\ IsFiniteSet(Strays(i))
       /\ stored[i] + Cardinality(Strays(i)) <= failures + (IF Through(i) THEN 1 ELSE 0)

\* Two rows with one id would be two rows of one job; a commit adds a new job.
LEMMA CommitLocks ==
    ASSUME IInv, LockInv, NEW r \in Request, CommitSubmit(r)
    PROVE  LockInv'
<1> DEFINE row == [id |-> drawn[r], job |-> r, published |-> FALSE]
<1>1. /\ api[r] = "commit" /\ outbox' = outbox \union {row} /\ UNCHANGED <<batch, open>>
  BY Zenon DEF CommitSubmit, relayVars
<1>2. r \notin jobs /\ drawn[r] # 0
  BY Zenon, <1>1 DEF IInv, Keys, Drawing, InTransaction
<1>3. ASSUME NEW o \in outbox PROVE o.id # row.id
  <2>1. o.job \in jobs /\ o.id = drawn[o.job] /\ jobs \subseteq Request
    BY Zenon DEF IInv, Rows, TypeOK
  <2>2. o.job # r /\ o.job \in Request
    BY Zenon, <1>2, <2>1
  <2>3. drawn[o.job] # drawn[r]
    BY Zenon, <1>2, <2>2 DEF IInv, Drawing
  <2> QED BY Zenon, <2>1, <2>3
<1>4. ~row.published
  BY Zenon
<1> HIDE DEF row
<1>5. \A o, p \in outbox' : o.id = p.id => o = p
  BY Zenon, <1>1, <1>3 DEF LockInv
<1>6. \A x \in open' : \A o \in outbox' : o.id \in batch'[x] => ~o.published
  BY Zenon, <1>1, <1>4 DEF LockInv
<1>7. \A x, y \in open' : x # y => batch'[x] \cap batch'[y] = {}
  BY Zenon, <1>1 DEF LockInv
<1> QED BY Zenon, <1>5, <1>6, <1>7 DEF LockInv

\* The SELECT takes rows that are unpublished and not locked.
LEMMA FetchLocks ==
    ASSUME IInv, LockInv, NEW x \in Relay, FetchBatch(x)
    PROVE  LockInv'
<1>1. /\ batch[x] = {} /\ batch' = [batch EXCEPT ![x] = NextBatch] /\ outbox' = outbox
      /\ open' = open \/ open' = open \union {x}
      /\ batch \in [Relay -> SUBSET Id] /\ open \subseteq Relay
  BY Zenon DEF FetchBatch, IInv, TypeOK
<1>2. /\ batch'[x] = NextBatch
      /\ \A y \in open' : y # x => y \in open /\ batch'[y] = batch[y]
  BY Zenon, <1>1
<1>3. NextBatch \subseteq Unpublished
  BY Zenon DEF NextBatch
<1>4. ASSUME NEW i \in NextBatch
      PROVE  /\ \A o \in outbox : o.id = i => ~o.published
             /\ \A y \in open : i \notin batch[y]
  <2>1. i \in Unpublished
    BY Zenon, <1>3
  <2>2. PICK p \in outbox : p.id = i /\ ~p.published
    BY Zenon, <2>1 DEF Unpublished
  <2>3. \A y \in open : i \notin batch[y]
    BY Zenon, <2>1 DEF Unpublished, Locked
  <2> QED BY Zenon, <2>2, <2>3 DEF LockInv
<1>5. \A y \in open' : \A o \in outbox' : o.id \in batch'[y] => ~o.published
  <2> SUFFICES ASSUME NEW y \in open', NEW o \in outbox, o.id \in batch'[y] PROVE ~o.published
    BY Zenon, <1>1
  <2>1. CASE y = x
    BY Zenon, <1>2, <1>4, <2>1
  <2>2. CASE y # x
    BY Zenon, <1>2, <2>2 DEF LockInv
  <2> QED BY Zenon, <2>1, <2>2
<1>6. ASSUME NEW y \in open', NEW z \in open', y # z, NEW i \in batch'[y], i \in batch'[z]
      PROVE  FALSE
  <2>1. CASE y # x /\ z # x
    BY Zenon, <1>2, <1>6, <2>1 DEF LockInv
  <2>2. CASE y = x
    BY Zenon, <1>2, <1>4, <1>6, <2>2
  <2>3. CASE z = x
    BY Zenon, <1>2, <1>4, <1>6, <2>3
  <2> QED BY Zenon, <2>1, <2>2, <2>3
<1>7. \A y, z \in open' : y # z => batch'[y] \cap batch'[z] = {}
  BY Zenon, <1>6
<1> QED BY Zenon, <1>1, <1>5, <1>7 DEF LockInv

\* A relay that gives its batch up, marked or not, takes no lock.
LEMMA DropLocks ==
    ASSUME IInv, LockInv, NEW x \in Relay,
           MarkPublished(x) \/ MarkRaises(x) \/ RelayCrash(x) \/ LoseSession(x)
    PROVE  LockInv'
<1> DEFINE mark(o) == IF o.id \in batch[x] THEN [o EXCEPT !.published = TRUE] ELSE o
<1>1. /\ open' = open \ {x} /\ \A y \in open' : batch'[y] = batch[y]
      /\ batch \in [Relay -> SUBSET Id] /\ open \subseteq Relay /\ outbox \subseteq OutboxRow
  BY Zenon DEF MarkPublished, MarkRaises, RelayCrash, LoseSession, Drop, IInv, TypeOK
<1>2. \A y, z \in open' : y # z => batch'[y] \cap batch'[z] = {}
  BY Zenon, <1>1 DEF LockInv
<1>3. CASE outbox' = outbox
  BY Zenon, <1>1, <1>2, <1>3 DEF LockInv
<1>4. CASE MarkPublished(x)
  <2>1. x \in open /\ outbox' = {mark(o) : o \in outbox}
    BY Zenon, <1>4 DEF MarkPublished
  <2>2. \A o \in outbox : mark(o).id = o.id /\ (o.id \notin batch[x] => mark(o) = o)
    BY Zenon, <1>1 DEF OutboxRow
  <2> HIDE DEF mark
  <2>3. \A p \in outbox' : \E o \in outbox : p = mark(o)
    BY Zenon, <2>1
  <2>4. ASSUME NEW o \in outbox', NEW p \in outbox', o.id = p.id PROVE o = p
    <3>1. PICK a \in outbox : o = mark(a)
      BY Zenon, <2>3
    <3>2. PICK b \in outbox : p = mark(b)
      BY Zenon, <2>3
    <3>3. a.id = b.id
      BY Zenon, <2>2, <2>4, <3>1, <3>2
    <3>4. a = b
      BY Zenon, <3>3 DEF LockInv
    <3> QED BY Zenon, <3>1, <3>2, <3>4
  <2>5. ASSUME NEW y \in open', NEW p \in outbox', p.id \in batch'[y] PROVE ~p.published
    <3>1. PICK o \in outbox : p = mark(o)
      BY Zenon, <2>3
    <3>2. y \in open /\ y # x /\ o.id \in batch[y]
      BY Zenon, <1>1, <2>2, <2>5, <3>1
    <3>3. o.id \notin batch[x] /\ ~o.published
      BY Zenon, <2>1, <3>2 DEF LockInv
    <3> QED BY Zenon, <2>2, <3>1, <3>3
  <2> QED BY Zenon, <1>2, <2>4, <2>5 DEF LockInv
<1>5. MarkPublished(x) \/ outbox' = outbox
  BY Zenon DEF MarkRaises, RelayCrash, LoseSession
<1> QED BY Zenon, <1>3, <1>4, <1>5

\* What a step does to the account of one row: the stored messages and the strays
\* together grow by no more than the failures and the one message that goes through.
LEMMA RepeatBalance ==
    ASSUME IInv, RepeatInv, NEW i \in Id, failures' \in Nat, stored'[i] \in Nat,
           \/ /\ Strays(i)' = Strays(i) /\ stored'[i] = stored[i] /\ failures' = failures
              /\ Through(i) => Through(i)'
           \/ /\ Strays(i)' = Strays(i) /\ stored'[i] <= stored[i] + 1 /\ failures' = failures
              /\ ~Through(i) /\ Through(i)'
           \/ /\ \E x \in Strays(i) : Strays(i)' = Strays(i) \ {x}
              /\ stored'[i] <= stored[i] + 1 /\ failures' = failures
              /\ Through(i) => Through(i)'
           \/ /\ \E x : Strays(i)' = Strays(i) \ {x}
              /\ stored'[i] = stored[i] /\ failures' = failures + 1
           \/ /\ \E x : Strays(i)' = Strays(i) \union {x}
              /\ stored'[i] = stored[i] /\ failures' = failures + 1
              /\ ~Through(i)
    PROVE  /\ IsFiniteSet(Strays(i)')
           /\ stored'[i] + Cardinality(Strays(i)') <= failures' + (IF Through(i)' THEN 1 ELSE 0)
<1>1. /\ IsFiniteSet(Strays(i)) /\ stored[i] \in Nat /\ failures \in Nat
      /\ stored[i] + Cardinality(Strays(i)) <= failures + (IF Through(i) THEN 1 ELSE 0)
  BY Zenon DEF RepeatInv, IInv, TypeOK
<1>2. Cardinality(Strays(i)) \in Nat
  BY Zenon, <1>1, FS_CardinalityType
<1>3. CASE Strays(i)' = Strays(i)
  BY <1>1, <1>2, <1>3
<1>4. CASE \E x \in Strays(i) : Strays(i)' = Strays(i) \ {x} /\ stored'[i] <= stored[i] + 1
                                  /\ failures' = failures /\ (Through(i) => Through(i)')
  <2>1. PICK x \in Strays(i) : Strays(i)' = Strays(i) \ {x}
    BY Zenon, <1>4
  <2>2. IsFiniteSet(Strays(i)') /\ Cardinality(Strays(i)') = Cardinality(Strays(i)) - 1
    BY <1>1, <2>1, FS_RemoveElement
  <2> QED BY <1>1, <1>2, <1>4, <2>2
<1>5. CASE (\E x : Strays(i)' = Strays(i) \ {x}) /\ stored'[i] = stored[i]
              /\ failures' = failures + 1
  <2>1. PICK x : Strays(i)' = Strays(i) \ {x}
    BY Zenon, <1>5
  <2>2. /\ IsFiniteSet(Strays(i)')
        /\ \/ Cardinality(Strays(i)') = Cardinality(Strays(i)) - 1
           \/ Cardinality(Strays(i)') = Cardinality(Strays(i))
    <3>1. CASE x \in Strays(i)
      BY Zenon, <1>1, <2>1, <3>1, FS_RemoveElement
    <3>2. CASE x \notin Strays(i)
      <4>1. Strays(i)' = Strays(i)
        BY Zenon, <2>1, <3>2
      <4> QED BY Zenon, <1>1, <4>1
    <3> QED BY Zenon, <3>1, <3>2
  <2> QED BY <1>1, <1>2, <1>5, <2>2
<1>6. CASE (\E x : Strays(i)' = Strays(i) \union {x}) /\ stored'[i] = stored[i]
              /\ failures' = failures + 1 /\ ~Through(i)
  <2>1. PICK x : Strays(i)' = Strays(i) \union {x}
    BY Zenon, <1>6
  <2>2. /\ IsFiniteSet(Strays(i)')
        /\ \/ Cardinality(Strays(i)') = Cardinality(Strays(i)) + 1
           \/ Cardinality(Strays(i)') = Cardinality(Strays(i))
    BY <1>1, <2>1, FS_AddElement
  <2> QED BY <1>1, <1>2, <1>6, <2>2
<1> QED BY Zenon, <1>3, <1>4, <1>5, <1>6

\* Rows only appear, or nothing of this changes.
LEMMA RepeatKept ==
    ASSUME IInv, IInv', RepeatInv, UNCHANGED <<todo, batch, open, failures, stored>>,
           outbox \subseteq outbox'
    PROVE  RepeatInv'
<1> SUFFICES ASSUME NEW i \in Id
             PROVE  Strays(i)' = Strays(i) /\ (Through(i) => Through(i)')
  BY Zenon, RepeatBalance DEF RepeatInv, IInv, TypeOK
<1>1. Strays(i)' = Strays(i)
  BY Zenon DEF Strays
<1>2. Through(i) => Through(i)'
  BY Zenon DEF Through
<1> QED BY Zenon, <1>1, <1>2

\* The lock keeps others away: a row its holder has still to publish is not through.
LEMMA HeldNotThrough ==
    ASSUME IInv, LockInv, NEW x \in open, NEW i \in todo[x]
    PROVE  ~Through(i)
<1>1. i \in batch[x]
  BY Zenon DEF IInv, Batches, TypeOK
<1>2. ~ \E o \in outbox : o.id = i /\ o.published
  BY Zenon, <1>1 DEF LockInv
<1>3. ~ \E y \in open : i \in batch[y] /\ i \notin todo[y]
  BY Zenon, <1>1 DEF LockInv
<1> QED BY Zenon, <1>2, <1>3 DEF Through

\* Selecting rows makes no stray.
LEMMA FetchRepeat ==
    ASSUME IInv, RepeatInv, NEW x \in Relay, FetchBatch(x), IInv'
    PROVE  RepeatInv'
<1>1. /\ batch[x] = {} /\ todo[x] = {}
      /\ batch' = [batch EXCEPT ![x] = NextBatch] /\ todo' = [todo EXCEPT ![x] = NextBatch]
      /\ open' = (IF NextBatch = {} THEN open ELSE open \union {x})
      /\ UNCHANGED <<outbox, failures, stored>>
      /\ batch \in [Relay -> SUBSET Id] /\ todo \in [Relay -> SUBSET Id] /\ open \subseteq Relay
  BY Zenon DEF FetchBatch, IInv, TypeOK, Batches, brokerVars
<1> SUFFICES ASSUME NEW i \in Id
             PROVE  Strays(i)' = Strays(i) /\ (Through(i) => Through(i)')
  BY Zenon, <1>1, RepeatBalance DEF RepeatInv, IInv, TypeOK
<1>2. /\ todo'[x] = NextBatch /\ (x \notin open' => NextBatch = {})
      /\ \A y \in Relay : y # x => /\ todo'[y] = todo[y] /\ batch'[y] = batch[y]
                                   /\ y \in open' <=> y \in open
      /\ open \subseteq open'
  BY Zenon, <1>1
<1>3. Strays(i)' = Strays(i)
  <2> SUFFICES ASSUME NEW y \in Relay
               PROVE  (y \notin open' /\ i \in todo'[y]) <=> (y \notin open /\ i \in todo[y])
    BY Zenon DEF Strays
  <2>1. CASE y = x
    BY Zenon, <1>1, <1>2, <2>1
  <2>2. CASE y # x
    BY Zenon, <1>2, <2>2
  <2> QED BY Zenon, <2>1, <2>2
<1>4. Through(i) => Through(i)'
  <2>1. ASSUME NEW y \in open, i \in batch[y], i \notin todo[y]
        PROVE  y \in open' /\ i \in batch'[y] /\ i \notin todo'[y]
    BY Zenon, <1>1, <1>2, <2>1
  <2> QED BY Zenon, <1>1, <2>1 DEF Through
<1> QED BY Zenon, <1>3, <1>4

\* A publish takes a row through, or makes a stray of it no longer.
LEMMA PublishRepeat ==
    ASSUME IInv, LockInv, RepeatInv, NEW x \in Relay, Publish(x), IInv'
    PROVE  RepeatInv'
<1>1. PICK i \in todo[x] :
         /\ todo' = [todo EXCEPT ![x] = @ \ {i}]
         /\ stored' = IF i \in window THEN stored ELSE [stored EXCEPT ![i] = @ + 1]
         /\ UNCHANGED <<outbox, batch, open, failures>>
  BY Zenon, PublishStep DEF IInv
<1>2. /\ todo \in [Relay -> SUBSET Id] /\ stored \in [Id -> Nat] /\ i \in Id /\ i \in batch[x]
      /\ open \subseteq Relay
  BY Zenon DEF IInv, TypeOK, Batches
<1>3. /\ todo'[x] = todo[x] \ {i} /\ \A y \in Relay : y # x => todo'[y] = todo[y]
  BY Zenon, <1>1, <1>2
<1>4. stored'[i] <= stored[i] + 1 /\ \A k \in Id : k # i => stored'[k] = stored[k]
  BY <1>1, <1>2
<1>5. ASSUME NEW k \in Id, Through(k) PROVE Through(k)'
  <2>1. \A y \in open : k \notin todo[y] => k \notin todo'[y]
    BY Zenon, <1>2, <1>3
  <2> QED BY Zenon, <1>1, <1>5, <2>1 DEF Through
<1> SUFFICES ASSUME NEW k \in Id
             PROVE  \/ /\ Strays(k)' = Strays(k) /\ stored'[k] = stored[k]
                       /\ Through(k) => Through(k)'
                    \/ /\ Strays(k)' = Strays(k) /\ stored'[k] <= stored[k] + 1
                       /\ ~Through(k) /\ Through(k)'
                    \/ /\ \E y \in Strays(k) : Strays(k)' = Strays(k) \ {y}
                       /\ stored'[k] <= stored[k] + 1
                       /\ Through(k) => Through(k)'
  BY Zenon, <1>1, RepeatBalance DEF RepeatInv, IInv, TypeOK
<1>6. CASE k # i
  <2>1. \A y \in Relay : k \in todo'[y] <=> k \in todo[y]
    BY Zenon, <1>3, <1>6
  <2>2. Strays(k)' = Strays(k)
    BY Zenon, <1>1, <2>1 DEF Strays
  <2> QED BY Zenon, <1>4, <1>5, <1>6, <2>2
<1>7. CASE k = i /\ x \in open
  <2>1. \A y \in Relay : y \notin open => (i \in todo'[y] <=> i \in todo[y])
    BY Zenon, <1>3, <1>7
  <2>2. Strays(i)' = Strays(i)
    BY Zenon, <1>1, <2>1 DEF Strays
  <2>3. ~Through(i)
    BY Zenon, <1>1, <1>7, HeldNotThrough
  <2>4. Through(i)'
    BY Zenon, <1>1, <1>2, <1>3, <1>7 DEF Through
  <2> QED BY Zenon, <1>4, <1>7, <2>2, <2>3, <2>4
<1>8. CASE k = i /\ x \notin open
  <2>1. x \in Strays(i)
    BY Zenon, <1>1, <1>8 DEF Strays
  <2>2. \A y \in Relay : i \in todo'[y] <=> i \in todo[y] /\ y # x
    BY Zenon, <1>3
  <2>3. Strays(i)' = Strays(i) \ {x}
    BY Zenon, <1>1, <2>2 DEF Strays
  <2> QED BY Zenon, <1>4, <1>5, <1>8, <2>1, <2>3
<1> QED BY Zenon, <1>6, <1>7, <1>8

\* A relay with nothing left to publish makes no stray, and what it marks is through.
LEMMA MarkRepeat ==
    ASSUME IInv, RepeatInv, NEW x \in Relay, MarkPublished(x) \/ MarkRaises(x), IInv'
    PROVE  RepeatInv'
<1> DEFINE mark(o) == IF o.id \in batch[x] THEN [o EXCEPT !.published = TRUE] ELSE o
<1>1. /\ todo[x] = {} /\ UNCHANGED <<failures, stored>>
      /\ batch' = [batch EXCEPT ![x] = {}] /\ todo' = [todo EXCEPT ![x] = {}]
      /\ open' = open \ {x}
      /\ batch \in [Relay -> SUBSET Id] /\ todo \in [Relay -> SUBSET Id] /\ open \subseteq Relay
  BY Zenon DEF MarkPublished, MarkRaises, Drop, IInv, TypeOK, brokerVars
<1> SUFFICES ASSUME NEW i \in Id
             PROVE  Strays(i)' = Strays(i) /\ (Through(i) => Through(i)')
  BY Zenon, <1>1, RepeatBalance DEF RepeatInv, IInv, TypeOK
<1>2. /\ todo'[x] = {} /\ x \notin open'
      /\ \A y \in Relay : y # x => /\ todo'[y] = todo[y] /\ batch'[y] = batch[y]
                                   /\ y \in open' <=> y \in open
  BY Zenon, <1>1
<1>3. Strays(i)' = Strays(i)
  <2> SUFFICES ASSUME NEW y \in Relay
               PROVE  (y \notin open' /\ i \in todo'[y]) <=> (y \notin open /\ i \in todo[y])
    BY Zenon DEF Strays
  <2>1. CASE y = x
    BY Zenon, <1>1, <1>2, <2>1
  <2>2. CASE y # x
    BY Zenon, <1>2, <2>2
  <2> QED BY Zenon, <2>1, <2>2
<1>4. ASSUME NEW y \in open, y # x, i \in batch[y], i \notin todo[y] PROVE Through(i)'
  BY Zenon, <1>1, <1>2, <1>4 DEF Through
<1>5. CASE MarkRaises(x)
  <2>1. x \notin open /\ outbox' = outbox
    BY Zenon, <1>5 DEF MarkRaises
  <2> QED BY Zenon, <1>3, <1>4, <2>1 DEF Through
<1>6. CASE MarkPublished(x)
  <2>1. outbox' = {mark(o) : o \in outbox}
    BY Zenon, <1>6 DEF MarkPublished
  <2>2. ASSUME NEW o \in outbox, o.published \/ o.id \in batch[x]
        PROVE  mark(o).id = o.id /\ mark(o).published
    <3>1. o \in OutboxRow
      BY Zenon DEF IInv, TypeOK
    <3> QED BY Zenon, <2>2, <3>1 DEF OutboxRow
  <2> HIDE DEF mark
  <2>3. ASSUME NEW o \in outbox, o.id = i, o.published \/ o.id \in batch[x] PROVE Through(i)'
    <3>1. mark(o) \in outbox' /\ mark(o).id = i /\ mark(o).published
      BY Zenon, <2>1, <2>2, <2>3
    <3> QED BY Zenon, <3>1 DEF Through
  <2>4. i \in batch[x] => \E o \in outbox : o.id = i
    BY Zenon DEF IInv, Batches
  <2> QED BY Zenon, <1>3, <1>4, <2>3, <2>4 DEF Through
<1> QED BY Zenon, <1>5, <1>6

\* A failure pays for the message that one relay leaves without its mark.
LEMMA FailRepeat ==
    ASSUME IInv, LockInv, RepeatInv, NEW x \in Relay, RelayCrash(x) \/ LoseSession(x), IInv'
    PROVE  RepeatInv'
<1>1. /\ failures' = failures + 1 /\ stored' = stored /\ open' = open \ {x}
      /\ todo \in [Relay -> SUBSET Id] /\ open \subseteq Relay
  BY Zenon DEF RelayCrash, LoseSession, Drop, IInv, TypeOK, brokerVars
<1> SUFFICES ASSUME NEW i \in Id
             PROVE  \/ \E y : Strays(i)' = Strays(i) \ {y}
                    \/ (\E y : Strays(i)' = Strays(i) \union {y}) /\ ~Through(i)
  BY Zenon, <1>1, RepeatBalance DEF RepeatInv, IInv, TypeOK
<1>2. CASE RelayCrash(x)
  <2>1. \A y \in Relay : i \in todo'[y] <=> i \in todo[y] /\ y # x
    BY Zenon, <1>1, <1>2 DEF RelayCrash, Drop
  <2>2. Strays(i)' = Strays(i) \ {x}
    BY Zenon, <1>1, <2>1 DEF Strays
  <2> QED BY Zenon, <2>2
<1>3. CASE LoseSession(x)
  <2>1. todo' = todo /\ x \in open
    BY Zenon, <1>3 DEF LoseSession
  <2>2. CASE i \in todo[x]
    <3>1. Strays(i)' = Strays(i) \union {x}
      BY Zenon, <1>1, <2>1, <2>2 DEF Strays
    <3> QED BY Zenon, <2>1, <2>2, <3>1, HeldNotThrough
  <2>3. CASE i \notin todo[x]
    <3>1. Strays(i)' = Strays(i) \ {x}
      BY Zenon, <1>1, <2>1, <2>3 DEF Strays
    <3> QED BY Zenon, <3>1
  <2> QED BY Zenon, <2>2, <2>3
<1> QED BY Zenon, <1>2, <1>3

\* The locks and the account hold in every behaviour.
LEMMA SpecRepeat == Spec => [](LockInv /\ RepeatInv)
<1>1. Init => LockInv /\ RepeatInv
  <2> SUFFICES ASSUME Init PROVE LockInv /\ RepeatInv
    OBVIOUS
  <2>1. LockInv
    BY Zenon DEF Init, LockInv
  <2>2. \A i \in Id : Strays(i) = {}
    BY Zenon DEF Init, Strays
  <2>3. failures = 0 /\ \A i \in Id : stored[i] = 0
    BY Zenon DEF Init
  <2>4. RepeatInv
    BY <2>2, <2>3, FS_EmptySet DEF RepeatInv
  <2> QED BY Zenon, <2>1, <2>4
<1>2. IInv /\ IInv' /\ LockInv /\ RepeatInv /\ [Next]_vars => (LockInv /\ RepeatInv)'
  <2> SUFFICES ASSUME IInv, IInv', LockInv, RepeatInv, [Next]_vars
               PROVE  LockInv' /\ RepeatInv'
    OBVIOUS
  <2>1. CASE UNCHANGED <<outbox, todo, batch, open, failures, stored>>
    <3>1. LockInv'
      BY Zenon, <2>1 DEF LockInv
    <3> QED BY Zenon, <2>1, <3>1, RepeatKept
  <2>2. ASSUME NEW r \in Request, CommitSubmit(r) PROVE LockInv' /\ RepeatInv'
    <3>1. UNCHANGED <<todo, batch, open, failures, stored>> /\ outbox \subseteq outbox'
      BY Zenon, <2>2 DEF CommitSubmit, relayVars, brokerVars
    <3> QED BY Zenon, <2>2, <3>1, CommitLocks, RepeatKept
  <2>3. ASSUME NEW x \in Relay, FetchBatch(x) PROVE LockInv' /\ RepeatInv'
    BY Zenon, <2>3, FetchLocks, FetchRepeat
  <2>4. ASSUME NEW x \in Relay, Publish(x) PROVE LockInv' /\ RepeatInv'
    <3>1. LockInv'
      BY Zenon, <2>4 DEF Publish, LockInv
    <3> QED BY Zenon, <2>4, <3>1, PublishRepeat
  <2>5. ASSUME NEW x \in Relay,
               MarkPublished(x) \/ MarkRaises(x) \/ RelayCrash(x) \/ LoseSession(x)
        PROVE  LockInv' /\ RepeatInv'
    BY Zenon, <2>5, DropLocks, MarkRepeat, FailRepeat
  <2>6. \/ UNCHANGED <<outbox, todo, batch, open, failures, stored>>
        \/ \E r \in Request : CommitSubmit(r)
        \/ \E x \in Relay :
              \/ FetchBatch(x) \/ Publish(x) \/ MarkPublished(x) \/ MarkRaises(x)
              \/ RelayCrash(x) \/ LoseSession(x)
    BY Zenon DEF Next, Submit, InsertJob, SelectExisting, InsertOutbox, AbortSubmit,
       ApiCrash, WindowLapses, vars, relayVars, brokerVars
  <2> QED BY Zenon, <2>1, <2>2, <2>3, <2>4, <2>5, <2>6
<1> QED BY <1>1, <1>2, SpecIInv, PTL DEF Spec

------------------------------------------------------------------------------
(* Theorems *)

\* Every variable keeps its type, for any number of requests and relays.
THEOREM OutboxTypeCorrect == Spec => []TypeOK
BY SpecIInv, PTL DEF IInv

\* submit_job's INSERT ... ON CONFLICT and SELECT: all answers to one idempotency
\* key name one existing job, and one request at most is told it created it.
THEOREM SubmissionIsIdempotent == Spec => []RepliesAgree
<1>1. IInv => RepliesAgree
  BY Zenon DEF IInv, TypeOK, Keys, Replies, RepliesAgree
<1> QED BY <1>1, SpecIInv, PTL

\* The transactional outbox and relay_once: no job without a row, and no row
\* marked published that was not.
THEOREM OutboxLosesNothing == Spec => []NothingLost
<1>1. IInv => NothingLost
  BY Zenon DEF IInv, Rows, NothingLost
<1> QED BY <1>1, SpecIInv, PTL

\* The transactional outbox against a dual write: the broker holds no message of a
\* job whose transaction did not commit.
THEOREM OutboxInventsNothing == Spec => []NothingInvented
<1>1. IInv => NothingInvented
  BY Zenon DEF IInv, Rows, Store, NothingInvented
<1> QED BY <1>1, SpecIInv, PTL

\* AdmissionController around submit: in_flight is the number of requests being
\* served and never exceeds the capacity, whatever fails, is cancelled or crashes.
THEOREM AdmissionBalances == Spec => []SlotsBalance
<1>1. SlotInv => SlotsBalance
  BY Zenon DEF SlotInv, SlotsBalance, Served
<1> QED BY <1>1, SpecSlots, PTL

\* relay_once's FOR UPDATE SKIP LOCKED: any number of relays may poll side by side,
\* and still every message of a row beyond the first takes a failure of its own.
THEOREM DuplicatesNeedAFailure == Spec => []DuplicatesNeedFailure
<1>1. IInv /\ RepeatInv => DuplicatesNeedFailure
  <2> SUFFICES ASSUME IInv, RepeatInv, NEW i \in Id PROVE stored[i] <= 1 + failures
    BY Zenon DEF DuplicatesNeedFailure
  <2>1. stored[i] \in Nat /\ failures \in Nat
    BY Zenon DEF IInv, TypeOK
  <2>2. Cardinality(Strays(i)) \in Nat
    BY Zenon, FS_CardinalityType DEF RepeatInv
  <2>3. stored[i] + Cardinality(Strays(i)) <= failures + (IF Through(i) THEN 1 ELSE 0)
    BY Zenon DEF RepeatInv
  <2> QED BY <2>1, <2>2, <2>3
<1> QED BY <1>1, SpecIInv, SpecRepeat, PTL

\* submit_job and relay_once implement the hand-off, its safety part: the commit
\* accepts the job, a publish the broker stores hands it over, and every other
\* step leaves both alone.
THEOREM ImplementsHandoff == Spec => H!Safety
<1> DEFINE queued == [r \in Request |-> IF drawn[r] = 0 THEN 0 ELSE stored[drawn[r]]]
<1>1. Init => H!Init
  BY Zenon DEF Init, H!Init
<1>2. IInv /\ [Next]_vars => [H!Next]_(H!vars)
  <2> SUFFICES ASSUME IInv, [Next]_vars PROVE H!Next \/ UNCHANGED <<jobs, queued>>
    BY Zenon DEF H!vars
  <2>0. /\ drawn \in [Request -> 0..MaxId] /\ stored \in [Id -> Nat]
        /\ next_id \in Nat /\ MaxId \in Nat
    BY OutboxAssumption DEF IInv, TypeOK
  <2>1. ASSUME NEW r \in Request, CommitSubmit(r) PROVE H!Next
    <3>1. /\ jobs' = jobs \union {r} /\ UNCHANGED <<drawn, stored>> /\ api[r] = "commit"
      BY Zenon, <2>1 DEF CommitSubmit, brokerVars
    <3>2. \A k \in jobs : KeyOf[k] # KeyOf[r]
      BY Zenon, <3>1 DEF IInv, TypeOK, Keys, InTransaction
    <3>3. H!Accept(r)
      BY Zenon, <3>1, <3>2 DEF H!Accept
    <3> QED BY Zenon, <3>3 DEF H!Next
  <2>2. ASSUME NEW r \in Request, InsertOutbox(r) PROVE UNCHANGED <<jobs, queued>>
    <3>1. /\ jobs' = jobs /\ stored' = stored /\ next_id \in Id
          /\ drawn' = [drawn EXCEPT ![r] = next_id] /\ api[r] = "insert_outbox"
      BY <2>2 DEF InsertOutbox, brokerVars, IInv, TypeOK, Id
    <3>2. drawn[r] = 0
      BY Zenon, <3>1 DEF IInv, Drawing
    <3>3. stored[next_id] = 0
      <4>1. \A o \in outbox : o.id # next_id
        BY <2>0 DEF IInv, TypeOK, Rows, Drawing
      <4>2. ~ (stored[next_id] > 0)
        BY Zenon, <3>1, <4>1 DEF IInv, Store
      <4> QED BY <2>0, <3>1, <4>2
    <3>4. next_id # 0
      BY <3>1 DEF Id
    <3>5. \A q \in Request : (IF drawn'[q] = 0 THEN 0 ELSE stored'[drawn'[q]])
                             = (IF drawn[q] = 0 THEN 0 ELSE stored[drawn[q]])
      BY Zenon, <2>0, <3>1, <3>2, <3>3, <3>4
    <3> QED BY <3>1, <3>5
  <2>3. ASSUME NEW x \in Relay, Publish(x) PROVE H!Next \/ UNCHANGED <<jobs, queued>>
    <3>1. PICK i \in Id :
             /\ \E o \in outbox : o.id = i
             /\ stored' = IF i \in window THEN stored ELSE [stored EXCEPT ![i] = @ + 1]
             /\ UNCHANGED <<jobs, drawn>>
      BY Zenon, <2>3, PublishStep
    <3>2. PICK o \in outbox : o.id = i
      BY Zenon, <3>1
    <3>3. o.job \in jobs /\ o.job \in Request /\ drawn[o.job] = i /\ i # 0
      BY <3>2 DEF IInv, TypeOK, Rows, Id
    <3>4. CASE i \in window
      BY Zenon, <3>1, <3>4
    <3>5. CASE i \notin window
      <4>1. \A q \in Request \ {o.job} : drawn[q] # i
        BY Zenon, <3>3 DEF IInv, Drawing
      <4>2. stored' = [stored EXCEPT ![i] = @ + 1]
        BY Zenon, <3>1, <3>5
      <4>3. queued' = [queued EXCEPT ![o.job] = @ + 1]
        <5>1. /\ queued'[o.job] = queued[o.job] + 1
              /\ \A q \in Request \ {o.job} : queued'[q] = queued[q]
          BY <2>0, <3>1, <3>3, <4>1, <4>2 DEF Id
        <5> QED BY <5>1
      <4>4. H!HandOver(o.job)
        BY Zenon, <3>1, <3>3, <4>3 DEF H!HandOver
      <4> QED BY Zenon, <3>3, <4>4 DEF H!Next
    <3> QED BY Zenon, <3>4, <3>5
  <2>4. CASE UNCHANGED <<jobs, drawn, stored>>
    BY Zenon, <2>4
  <2>5. \/ UNCHANGED <<jobs, drawn, stored>>
        \/ \E r \in Request : CommitSubmit(r) \/ InsertOutbox(r)
        \/ \E x \in Relay : Publish(x)
    BY Zenon DEF Next, Submit, InsertJob, SelectExisting, AbortSubmit, ApiCrash, FetchBatch,
       MarkPublished, MarkRaises, RelayCrash, LoseSession, WindowLapses, vars, apiVars, brokerVars
  <2> HIDE DEF queued
  <2> QED BY Zenon, <2>1, <2>2, <2>3, <2>4, <2>5
<1> QED BY <1>1, <1>2, SpecIInv, PTL DEF Spec, H!Safety
------------------------------------------------------------------------------
(* FencedLease *)

\* The token order.  Tokens in circulation are distinct and not ahead of the
\* counter, so a new one is new; accepted writes are sorted by token; and a
\* token belongs to one holder, in the history as well as in circulation.
TokenInv ==
    /\ \A h \in Holder : token[h] <= counter
    /\ \A h \in Holder : phase[h] # "idle" => token[h] # 0
    /\ \A g, h \in Holder : g # h /\ token[g] # 0 => token[g] # token[h]
    /\ newest_accepted <= counter

WriteInv ==
    /\ \A i \in 1..Len(writes) : writes[i][2] # 0 /\ writes[i][2] <= newest_accepted
    /\ \A i, k \in 1..Len(writes) : i < k => writes[i][2] <= writes[k][2]
    /\ \A i, k \in 1..Len(writes) : writes[i][2] = writes[k][2] => writes[i] = writes[k]
    /\ \A i \in 1..Len(writes), h \in Holder :
          writes[i][2] = token[h] => writes[i] = <<h, token[h]>>

LeaseInv == LeaseTypeOK /\ TokenInv /\ WriteInv

\* The state FencedLease starts in satisfies the inductive invariant.
LEMMA InitLease == LeaseInit => LeaseInv
BY DEF LeaseInit, LeaseInv, LeaseTypeOK, TokenInv, WriteInv, Absent, Phase

\* A step that leaves the history alone and brings no token of the history back into
\* circulation keeps the order of the history.
LEMMA SameWrites ==
    ASSUME WriteInv, UNCHANGED <<writes, newest_accepted>>,
           \A g \in Holder : \/ token'[g] = token[g]
                             \/ \A i \in 1..Len(writes) : writes[i][2] # token'[g]
    PROVE  WriteInv'
<1>1. /\ writes' = writes /\ newest_accepted' = newest_accepted
      /\ \A i \in 1..Len(writes) : writes[i][2] # 0 /\ writes[i][2] <= newest_accepted
      /\ \A i, k \in 1..Len(writes) : i < k => writes[i][2] <= writes[k][2]
      /\ \A i, k \in 1..Len(writes) : writes[i][2] = writes[k][2] => writes[i] = writes[k]
  BY Zenon DEF WriteInv
<1>2. ASSUME NEW i \in 1..Len(writes), NEW g \in Holder, writes[i][2] = token'[g]
      PROVE  writes[i] = <<g, token'[g]>>
  <2>1. token'[g] = token[g]
    BY Zenon, <1>2
  <2> QED BY <1>2, <2>1 DEF WriteInv
<1> QED BY <1>1, <1>2 DEF WriteInv

\* FencedWriter.check accepted the write: it goes to the end of the history, where
\* its token belongs.
LEMMA AcceptedWrite ==
    ASSUME LeaseInv, NEW h \in Holder, phase[h] = "holding", check(h),
           newest_accepted' = token[h], writes' = Append(writes, <<h, token[h]>>),
           UNCHANGED token
    PROVE  WriteInv'
<1> DEFINE n == Len(writes)
           w == <<h, token[h]>>
<1>1. writes \in Seq(Holder \X Nat) /\ w \in Holder \X Nat /\ w[2] = token[h]
  BY Zenon DEF LeaseInv, LeaseTypeOK
<1>2. /\ n \in Nat /\ Len(writes') = n + 1 /\ writes'[n+1] = w
      /\ \A i \in 1..n : writes'[i] = writes[i] /\ writes[i][2] \in Nat
  BY <1>1
<1>3. /\ token[h] \in Nat /\ token[h] # 0
      /\ newest_accepted \in Nat /\ newest_accepted <= token[h]
  BY Zenon DEF LeaseInv, LeaseTypeOK, TokenInv, check
<1>4. \A i \in 1..n : writes[i][2] # 0 /\ writes[i][2] <= newest_accepted
  BY Zenon DEF LeaseInv, WriteInv
<1>5. \A i \in 1..n : writes[i][2] = token[h] => writes[i] = w
  BY Zenon DEF LeaseInv, WriteInv
<1> HIDE DEF n, w
<1>6. \A i \in 1..Len(writes') : i \in 1..n \/ i = n + 1
  BY <1>2
<1>7. \A i \in 1..n : writes[i][2] <= token[h]
  BY <1>2, <1>3, <1>4
<1>8. token[h] <= token[h]
  BY <1>3
<1>9. \A i \in 1..Len(writes') : writes'[i][2] # 0 /\ writes'[i][2] <= newest_accepted'
  BY Zenon, <1>1, <1>2, <1>3, <1>4, <1>6, <1>7, <1>8
<1>10. \A i, k \in 1..Len(writes') : i < k => writes'[i][2] <= writes'[k][2]
  <2>1. \A i, k \in 1..n : i < k => writes[i][2] <= writes[k][2]
    BY Zenon DEF LeaseInv, WriteInv, n
  <2>2. \A k \in 1..n : ~ (n + 1 < k)
    BY <1>2
  <2> QED BY <1>1, <1>2, <1>6, <1>7, <1>8, <2>1, <2>2
<1>11. \A i, k \in 1..Len(writes') : writes'[i][2] = writes'[k][2] => writes'[i] = writes'[k]
  <2>1. \A i, k \in 1..n : writes[i][2] = writes[k][2] => writes[i] = writes[k]
    BY Zenon DEF LeaseInv, WriteInv, n
  <2>2. \A i \in 1..n : writes[i][2] = w[2] => writes[i] = w
    BY Zenon, <1>1, <1>5
  <2>3. ASSUME NEW i \in 1..Len(writes'), NEW k \in 1..Len(writes'),
               writes'[i][2] = writes'[k][2]
        PROVE  writes'[i] = writes'[k]
    <3>1. CASE i \in 1..n /\ k \in 1..n
      BY Zenon, <1>2, <2>1, <2>3, <3>1
    <3>2. CASE i = n + 1 \/ k = n + 1
      BY Zenon, <1>2, <1>6, <2>2, <2>3, <3>2
    <3> QED BY Zenon, <1>6, <3>1, <3>2
  <2> QED BY Zenon, <2>3
<1>12. \A i \in 1..Len(writes'), g \in Holder :
          writes'[i][2] = token'[g] => writes'[i] = <<g, token'[g]>>
  <2>1. \A i \in 1..n, g \in Holder : writes[i][2] = token[g] => writes[i] = <<g, token[g]>>
    BY Zenon DEF LeaseInv, WriteInv, n
  <2>2. \A g \in Holder : token[h] = token[g] => g = h
    BY Zenon, <1>3 DEF LeaseInv, TokenInv
  <2>3. \A g \in Holder : w[2] = token[g] => w = <<g, token[g]>>
    BY Zenon, <1>1, <2>2 DEF w
  <2> QED BY <1>2, <1>6, <2>1, <2>3
<1> QED BY Zenon, <1>9, <1>10, <1>11, <1>12 DEF WriteInv

\* A client that goes on with the token it drew.
LEMMA TokenKept ==
    ASSUME LeaseInv, NEW h \in Holder, phase[h] # "idle",
           NEW p \in Phase, phase' = [phase EXCEPT ![h] = p],
           lease' \in {lease, <<h, token[h]>>},
           UNCHANGED <<counter, token, newest_accepted, writes>>
    PROVE  LeaseInv'
<1>1. LeaseTypeOK'
  BY DEF LeaseInv, LeaseTypeOK
<1>2. TokenInv'
  BY Zenon DEF LeaseInv, LeaseTypeOK, TokenInv
<1> QED BY Zenon, <1>1, <1>2, SameWrites DEF LeaseInv

\* A client that is done with its token: it lost the race for the lease, released it
\* or died.
LEMMA TokenDropped ==
    ASSUME LeaseInv, NEW h \in Holder,
           phase' = [phase EXCEPT ![h] = "idle"], token' = [token EXCEPT ![h] = 0],
           lease' \in {lease, Absent}, UNCHANGED <<counter, newest_accepted, writes>>
    PROVE  LeaseInv'
<1>1. LeaseTypeOK'
  BY Zenon DEF LeaseInv, LeaseTypeOK, Phase
<1>2. TokenInv'
  BY DEF LeaseInv, LeaseTypeOK, TokenInv
<1>3. \A g \in Holder : token'[g] \in {token[g], 0}
  BY Zenon DEF LeaseInv, LeaseTypeOK
<1>4. \A i \in 1..Len(writes) : writes[i][2] # 0
  BY Zenon DEF LeaseInv, WriteInv
<1> QED BY Zenon, <1>1, <1>2, <1>3, <1>4, SameWrites DEF LeaseInv

\* Every command of LeaseManager and FencedWriter, every death and every expiry
\* preserves the inductive invariant.
LEMMA NextLease == LeaseInv /\ [LeaseNext]_leaseVars => LeaseInv'
<1> SUFFICES ASSUME LeaseInv, [LeaseNext]_leaseVars PROVE LeaseInv'
  OBVIOUS
<1>0. LeaseTypeOK /\ TokenInv /\ WriteInv /\ {"acquiring", "holding", "releasing"} \subseteq Phase
  BY Zenon DEF LeaseInv, Phase
<1>1. ASSUME NEW h \in Holder, AcquireIncr(h) PROVE LeaseInv'
  <2>1. /\ counter' = counter + 1 /\ token' = [token EXCEPT ![h] = counter + 1]
        /\ phase' = [phase EXCEPT ![h] = "acquiring"]
        /\ UNCHANGED <<lease, newest_accepted, writes>>
    BY Zenon, <1>1 DEF AcquireIncr
  <2>2. LeaseTypeOK'
    BY <1>0, <2>1 DEF LeaseTypeOK
  <2>3. TokenInv'
    BY <1>0, <2>1 DEF LeaseTypeOK, TokenInv
  <2>4. \A i \in 1..Len(writes) : writes[i][2] # counter + 1
    <3>1. writes \in Seq(Holder \X Nat)
      BY Zenon, <1>0 DEF LeaseTypeOK
    <3>2. \A i \in 1..Len(writes) : writes[i][2] \in Nat
      BY <3>1
    <3>3. newest_accepted \in Nat /\ counter \in Nat /\ newest_accepted <= counter
      BY Zenon, <1>0 DEF LeaseTypeOK, TokenInv
    <3>4. \A i \in 1..Len(writes) : writes[i][2] <= newest_accepted
      BY Zenon, <1>0 DEF WriteInv
    <3> QED BY <3>2, <3>3, <3>4
  <2>5. \A g \in Holder : token'[g] \in {token[g], counter + 1}
    BY Zenon, <1>0, <2>1 DEF LeaseTypeOK
  <2> QED BY Zenon, <1>0, <2>1, <2>2, <2>3, <2>4, <2>5, SameWrites DEF LeaseInv
<1>2. ASSUME NEW h \in Holder, AcquireSetNx(h) PROVE LeaseInv'
  <2>1. CASE lease = Absent
    <3>1. /\ lease' = <<h, token[h]>> /\ phase[h] = "acquiring"
          /\ phase' = [phase EXCEPT ![h] = "holding"]
          /\ UNCHANGED <<counter, token, newest_accepted, writes>>
      BY Zenon, <1>2, <2>1 DEF AcquireSetNx, nx_reply, set_if_absent
    <3> QED BY Zenon, <1>0, <3>1, TokenKept
  <2>2. CASE lease # Absent
    <3>1. /\ phase' = [phase EXCEPT ![h] = "idle"] /\ token' = [token EXCEPT ![h] = 0]
          /\ UNCHANGED <<lease, counter, newest_accepted, writes>>
      BY Zenon, <1>2, <2>2 DEF AcquireSetNx, nx_reply, set_if_absent
    <3> QED BY Zenon, <3>1, TokenDropped
  <2> QED BY Zenon, <2>1, <2>2
<1>3. ASSUME NEW h \in Holder, Write(h) PROVE LeaseInv'
  <2>1. CASE check(h)
    <3>1. /\ newest_accepted' = token[h] /\ phase[h] = "holding"
          /\ writes' = Append(writes, <<h, token[h]>>)
          /\ UNCHANGED <<phase, counter, lease, token>>
      BY Zenon, <1>3, <2>1 DEF Write
    <3>2. LeaseTypeOK'
      BY <1>0, <3>1 DEF LeaseTypeOK
    <3>3. TokenInv'
      BY Zenon, <1>0, <3>1 DEF LeaseTypeOK, TokenInv
    <3> QED BY Zenon, <2>1, <3>1, <3>2, <3>3, AcceptedWrite DEF LeaseInv
  <2>2. CASE ~check(h)
    <3>1. /\ phase[h] = "holding" /\ phase' = [phase EXCEPT ![h] = "releasing"]
          /\ UNCHANGED <<newest_accepted, writes, counter, lease, token>>
      BY Zenon, <1>3, <2>2 DEF Write
    <3> QED BY Zenon, <1>0, <3>1, TokenKept
  <2> QED BY Zenon, <2>1, <2>2
<1>4. ASSUME NEW h \in Holder, Finish(h) PROVE LeaseInv'
  BY Zenon, <1>0, <1>4, TokenKept DEF Finish
<1>5. ASSUME NEW h \in Holder, Release(h) PROVE LeaseInv'
  BY Zenon, <1>5, TokenDropped DEF Release, compare_and_delete
<1>6. ASSUME NEW h \in Holder, Die(h) PROVE LeaseInv'
  BY Zenon, <1>6, TokenDropped DEF Die
<1>7. CASE Expire
  <2>1. /\ lease' = Absent
        /\ UNCHANGED <<counter, phase, token, newest_accepted, writes>>
    BY Zenon, <1>7 DEF Expire
  <2>2. LeaseTypeOK' /\ TokenInv'
    BY Zenon, <1>0, <2>1 DEF LeaseTypeOK, TokenInv
  <2> QED BY Zenon, <1>0, <2>1, <2>2, SameWrites DEF LeaseInv
<1>8. CASE UNCHANGED leaseVars
  <2>1. LeaseTypeOK' /\ TokenInv'
    BY Zenon, <1>0, <1>8 DEF leaseVars, LeaseTypeOK, TokenInv
  <2> QED BY Zenon, <1>0, <1>8, <2>1, SameWrites DEF leaseVars, LeaseInv
<1> QED
  BY Zenon, <1>1, <1>2, <1>3, <1>4, <1>5, <1>6, <1>7, <1>8 DEF LeaseNext

\* The inductive invariant holds in every reachable state of FencedLease.
LEMMA SpecLease == LeaseSpec => []LeaseInv
BY InitLease, NextLease, PTL DEF LeaseSpec

\* Every variable of FencedLease keeps its type.
THEOREM LeaseTypeCorrect == LeaseSpec => []LeaseTypeOK
<1>1. LeaseInv => LeaseTypeOK
  BY Zenon DEF LeaseInv
<1> QED BY <1>1, SpecLease, PTL

\* FencedWriter.check keeps writers apart: for any number of holders, between
\* two accepted writes under one token nobody else's write is accepted.
THEOREM WritersDoNotInterleave == LeaseSpec => []NoInterleavedWriters
<1>1. LeaseInv => NoInterleavedWriters
  <2> SUFFICES ASSUME LeaseInv,
                      NEW i \in 1..Len(writes), NEW k \in 1..Len(writes),
                      i < k, writes[i][2] = writes[k][2],
                      NEW m \in i..k
               PROVE  writes[m] = writes[i]
    BY Zenon DEF NoInterleavedWriters
  <2>1. Len(writes) \in Nat /\ m \in 1..Len(writes)
    <3>1. writes \in Seq(Holder \X Nat)
      BY Zenon DEF LeaseInv, LeaseTypeOK
    <3>2. Len(writes) \in Nat
      BY <3>1
    <3> QED BY <3>2
  <2>2. /\ writes[i][2] \in Nat /\ writes[m][2] \in Nat /\ writes[k][2] \in Nat
    <3>1. \A x \in 1..Len(writes) : writes[x] \in Holder \X Nat
      BY DEF LeaseInv, LeaseTypeOK
    <3> QED BY <3>1
  <2>3. writes[i][2] <= writes[m][2] /\ writes[m][2] <= writes[k][2]
    <3>1. i = m \/ i < m
      BY <2>1
    <3>2. m = k \/ m < k
      BY <2>1
    <3> QED BY Zenon, <2>1, <3>1, <3>2 DEF LeaseInv, WriteInv
  <2>4. writes[i][2] = writes[m][2]
    BY <2>2, <2>3
  <2> QED BY Zenon, <2>1, <2>4 DEF LeaseInv, WriteInv
<1> QED BY <1>1, SpecLease, PTL

\* LeaseManager.release: a release that deletes the lease key deletes the
\* releasing client's own entry, never a successor's.
THEOREM ReleaseIsSafe == LeaseSpec => ReleaseSparesSuccessor
<1> DEFINE Spares == \A h \in Holder :
          phase[h] = "releasing" /\ phase'[h] = "idle" /\ lease' # lease
            => lease = <<h, token[h]>>
<1>1. LeaseInv /\ [LeaseNext]_leaseVars => [Spares]_leaseVars
  <2> SUFFICES ASSUME LeaseInv, LeaseNext, NEW h \in Holder,
                      phase[h] = "releasing", phase'[h] = "idle", lease' # lease
               PROVE  lease = <<h, token[h]>>
    OBVIOUS
  <2>1. phase \in [Holder -> Phase]
    BY Zenon DEF LeaseInv, LeaseTypeOK
  <2>2. ASSUME NEW g \in Holder,
               AcquireIncr(g) \/ Write(g) \/ Finish(g) \/ Die(g)
        PROVE  FALSE
    BY Zenon, <2>2 DEF AcquireIncr, Write, Finish, Die
  <2>3. ASSUME NEW g \in Holder, AcquireSetNx(g) PROVE FALSE
    BY Zenon, <2>1, <2>3 DEF AcquireSetNx
  <2>4. ASSUME NEW g \in Holder, Release(g) PROVE lease = <<h, token[h]>>
    BY <2>4 DEF Release, compare_and_delete
  <2>5. CASE Expire
    BY Zenon, <2>5 DEF Expire
  <2> QED BY Zenon, <2>2, <2>3, <2>4, <2>5 DEF LeaseNext
<1> QED BY <1>1, SpecLease, PTL DEF LeaseSpec, ReleaseSparesSuccessor
------------------------------------------------------------------------------
(* Startup *)

Points == {"down", "lock", "check", "create", "subscribe", "up"} \union Ensured

\* Whoever is between the lock and the end of the transaction holds the lock, no
\* two do, and what it found missing is missing still.
SchemaInv ==
    /\ pc \in [Process -> Points] /\ missing \in [Process -> BOOLEAN]
    /\ \A p \in Process : pc[p] \in {"check", "create"} => lock = {p}
    /\ \A p \in Process : pc[p] = "create" /\ missing[p] => ~tables
    /\ ~collided

\* The steps outside apply_schema, to a point outside it.
LEMMA SchemaElsewhere ==
    ASSUME SchemaInv, UNCHANGED db,
           NEW p \in Process, NEW l \in Points \ {"check", "create"},
           pc' = pc \/ Reach(p, l)
    PROVE  SchemaInv'
<1>1. UNCHANGED <<tables, missing, lock, collided>>
  BY Zenon DEF db
<1>2. \A q \in Process : pc'[q] = pc[q] \/ pc'[q] = l
  BY Zenon DEF Reach, SchemaInv
<1>3. pc' \in [Process -> Points]
  BY Zenon DEF Reach, SchemaInv
<1> QED BY Zenon, <1>1, <1>2, <1>3 DEF SchemaInv

\* Every step keeps the schema whole.
LEMMA NextSchema == SchemaInv /\ [BootNext]_bootVars => SchemaInv'
<1> SUFFICES ASSUME SchemaInv, [BootNext]_bootVars PROVE SchemaInv'
  OBVIOUS
<1>0. /\ pc \in [Process -> Points] /\ missing \in [Process -> BOOLEAN]
      /\ RelayProcess \subseteq Process
  BY Zenon DEF SchemaInv, Process
<1>1. CASE UNCHANGED <<pc, db>>
  BY Zenon, <1>1 DEF SchemaInv, db
<1>2. ASSUME NEW p \in Process,
             Start(p) \/ Ensure(p) \/ EnsureFails(p) \/ Subscribe(p)
      PROVE  SchemaInv'
  <2>1. /\ UNCHANGED db
        /\ \E l \in {"lock", "workers", "ORBITER_ADVISORIES", "dlq-listener", "up",
                     "subscribe", "down"} : Reach(p, l)
    BY Zenon, <1>2 DEF Start, Ensure, EnsureFails, Subscribe, After
  <2>2. ASSUME NEW l \in {"lock", "workers", "ORBITER_ADVISORIES", "dlq-listener", "up",
                          "subscribe", "down"}
        PROVE  l \in Points \ {"check", "create"}
    BY Zenon DEF Points, Ensured
  <2> QED BY Zenon, <2>1, <2>2, SchemaElsewhere
<1>3. ASSUME NEW p \in Process, LockSchema(p) PROVE SchemaInv'
  <2>1. /\ lock = {} /\ lock' = {p} /\ pc' = [pc EXCEPT ![p] = "check"]
        /\ UNCHANGED <<tables, missing, collided>>
    BY Zenon, <1>3 DEF LockSchema, Reach
  <2>2. \A q \in Process : pc[q] \notin {"check", "create"}
    BY Zenon, <2>1 DEF SchemaInv
  <2>3. /\ pc' \in [Process -> Points]
        /\ \A q \in Process : pc'[q] # "create" /\ (pc'[q] = "check" => q = p)
    BY Zenon, <1>0, <2>1, <2>2 DEF Points
  <2> QED BY Zenon, <2>1, <2>3 DEF SchemaInv
<1>4. ASSUME NEW p \in Process, CheckTables(p) PROVE SchemaInv'
  <2>1. /\ pc[p] = "check" /\ pc' = [pc EXCEPT ![p] = "create"] /\ lock = {p}
        /\ missing' = [missing EXCEPT ![p] = ~tables] /\ UNCHANGED <<tables, lock, collided>>
    BY Zenon, <1>4 DEF CheckTables, Reach, SchemaInv
  <2>2. \A q \in Process \ {p} : pc[q] \notin {"check", "create"} /\ pc'[q] = pc[q]
    BY Zenon, <1>0, <2>1 DEF SchemaInv
  <2>3. missing' \in [Process -> BOOLEAN] /\ missing'[p] = ~tables
    BY Zenon, <1>0, <2>1
  <2>4. pc' \in [Process -> Points]
    BY Zenon, <1>0, <2>1 DEF Points
  <2> QED BY Zenon, <2>1, <2>2, <2>3, <2>4 DEF SchemaInv
<1>5. ASSUME NEW p \in Process, CreateTables(p) PROVE SchemaInv'
  <2>1. /\ pc[p] = "create" /\ lock = {p} /\ ~ (missing[p] /\ tables)
    BY Zenon, <1>5 DEF CreateTables, SchemaInv
  <2>2. \A q \in Process \ {p} : pc[q] \notin {"check", "create"}
    BY Zenon, <2>1 DEF SchemaInv
  <2>3. /\ ~ collided' /\ UNCHANGED missing
        /\ pc' = [pc EXCEPT ![p] = Connected(p)]
    BY Zenon, <1>5, <2>1 DEF CreateTables, Reach, SchemaInv
  <2>4. Connected(p) \in Points \ {"check", "create"}
    BY Zenon DEF Connected, Points, Ensured
  <2>5. /\ pc' \in [Process -> Points]
        /\ \A q \in Process : pc'[q] \notin {"check", "create"}
    BY Zenon, <1>0, <2>2, <2>3, <2>4
  <2> QED BY Zenon, <1>0, <2>3, <2>5 DEF SchemaInv
<1>6. ASSUME NEW p \in Process, Crash(p) PROVE SchemaInv'
  <2>1. /\ lock' = lock \ {p} /\ pc' = [pc EXCEPT ![p] = "down"]
        /\ UNCHANGED <<tables, missing, collided>>
    BY Zenon, <1>6 DEF Crash, Reach
  <2>2. /\ pc' \in [Process -> Points]
        /\ \A q \in Process : pc'[q] \in {"check", "create"} => q # p /\ pc[q] = pc'[q]
    BY Zenon, <1>0, <2>1 DEF Points
  <2> QED BY Zenon, <2>1, <2>2 DEF SchemaInv
<1>7. ASSUME NEW m \in Poison, NEW r \in RelayProcess, PublishPoison(r, m) PROVE SchemaInv'
  <2>1. UNCHANGED db /\ (pc' = pc \/ Reach(r, "down"))
    BY Zenon, <1>7 DEF PublishPoison
  <2>2. "down" \in Points \ {"check", "create"}
    BY Zenon DEF Points
  <2> QED BY Zenon, <1>0, <2>1, <2>2, SchemaElsewhere
<1>8. \/ UNCHANGED <<pc, db>>
      \/ \E p \in Process :
            \/ Start(p) \/ Ensure(p) \/ EnsureFails(p) \/ Subscribe(p)
            \/ LockSchema(p) \/ CheckTables(p) \/ CreateTables(p) \/ Crash(p)
      \/ \E m \in Poison, r \in RelayProcess : PublishPoison(r, m)
  BY Zenon DEF BootNext, ComeUp, Exhaust, Quarantine, bootVars
<1> QED BY Zenon, <1>1, <1>2, <1>3, <1>4, <1>5, <1>6, <1>7, <1>8

\* apply_schema's advisory lock: however many processes start together, crash and
\* start again, CREATE TABLE never meets a table it did not see.
THEOREM SchemaIsSerialized == BootSpec => []NoSchemaCollision
<1>1. BootInit => SchemaInv
  BY Zenon DEF BootInit, SchemaInv, Points
<1>2. SchemaInv => NoSchemaCollision
  BY Zenon DEF SchemaInv, NoSchemaCollision
<1> QED BY <1>1, <1>2, NextSchema, PTL DEF BootSpec

\* A listener that was up found its stream, streams stay, and an advisory is
\* captured at most when its message is exhausted.
CaptureInv == /\ heard => "ORBITER_ADVISORIES" \in streams
              /\ captured \subseteq exhausted

\* run of the listener creates ORBITER_ADVISORIES before it subscribes: from then
\* on every exhausted message leaves an advisory, whether a listener is up or not.
THEOREM AdvisoriesSurviveDowntime == BootSpec => DowntimeLosesNothing
<1> DEFINE Captures == heard /\ exhausted' # exhausted => captured' # captured
<1>1. BootInit => CaptureInv
  BY Zenon DEF BootInit, CaptureInv
<1>2. CaptureInv /\ [BootNext]_bootVars => CaptureInv' /\ [Captures]_bootVars
  <2> SUFFICES ASSUME CaptureInv, [BootNext]_bootVars PROVE CaptureInv' /\ Captures
    OBVIOUS
  <2>1. ASSUME NEW m \in Poison, Exhaust(m) PROVE CaptureInv' /\ Captures
    BY Zenon, <2>1 DEF Exhaust, CaptureInv
  <2>2. ASSUME NEW m \in Poison, Quarantine(m) PROVE CaptureInv' /\ Captures
    BY Zenon, <2>2 DEF Quarantine, CaptureInv
  <2>3. ASSUME NEW p \in Process, Ensure(p) \/ Subscribe(p)
        PROVE  CaptureInv' /\ Captures
    <3>1. streams \subseteq streams' /\ UNCHANGED <<exhausted, captured>>
      BY Zenon, <2>3 DEF Ensure, Subscribe, messages
    <3>2. heard' => heard \/ "ORBITER_ADVISORIES" \in streams
      BY Zenon, <2>3 DEF Ensure, Subscribe, StreamOf
    <3> QED BY Zenon, <3>1, <3>2 DEF CaptureInv
  <2>4. CASE UNCHANGED <<streams, exhausted, captured, heard>>
    BY Zenon, <2>4 DEF CaptureInv
  <2>5. \/ UNCHANGED <<streams, exhausted, captured, heard>>
        \/ \E p \in Process : Ensure(p) \/ Subscribe(p)
        \/ \E m \in Poison : Exhaust(m) \/ Quarantine(m)
    BY Zenon DEF BootNext, ComeUp, Start, LockSchema, CheckTables,
       CreateTables, EnsureFails, Crash, PublishPoison, messages, bootVars
  <2> QED BY Zenon, <2>1, <2>2, <2>3, <2>4, <2>5
<1> QED BY <1>1, <1>2, PTL DEF BootSpec, DowntimeLosesNothing
==============================================================================
