-------------------------- MODULE QuarantineProofs ---------------------------
(***************************************************************************)
(* That no message is deleted before it is copied and no quarantine is     *)
(* lost, for any numbers of workers that meet their deadlines, of          *)
(* listeners, jobs and messages.                                           *)
(***************************************************************************)
EXTENDS DeadLetterProofs

\* A worker that may still reply to its delivery.
Handling(w) == pc[w] \notin Away \union {"unlock", "unwind"}

\* A punctual fleet: a delivery in hand is the current one of its message, and an
\* advisory is about a message that is delivered no more.
DeliveryInv ==
    /\ \A w \in Worker : Handling(w) => stream[msg[w]].status = "pending"
    /\ \A v, w \in Worker : Handling(v) /\ Handling(w) /\ msg[v] = msg[w] => v = w
    /\ \A m \in advisories : stream[m].status \in {"exhausted", "gone"}

\* The job has finished, or its audit trail shows a quarantine.
Resolved(j) == is_terminal(jobs[j].state) \/ Recorded(j, "dead_lettered") # {}

\* A row is past "submitted", and one in quarantine has the event in its log.
RowInv ==
    \A j \in Job :
       /\ jobs[j].state # "submitted"
       /\ jobs[j].state = "dead_letter" => Recorded(j, "dead_lettered") # {}

\* How far each quarantine has come.
QuarantineInv ==
    /\ \A m \in advisories : stream[m].status = "gone" => m \in copied /\ Resolved(stream[m].job)
    /\ Flaky \/ \A m \in acked : m \in advisories /\ stream[m].status = "gone"
    /\ \A l \in Listener :
          /\ lpc[l] # "idle" => adv[l] \in advisories
          /\ lpc[l] \in {"record", "delete"} => adv[l] \in copied
          /\ lpc[l] = "delete" => Resolved(stream[adv[l]].job)
          /\ lpc[l] = "ack" => Flaky \/ stream[adv[l]].status = "gone"

\* The steps of the fleet by what they do to deliveries.
LEMMA FleetMoves ==
    ASSUME BaseInv, [Next]_vars
    PROVE  \/ /\ UNCHANGED <<stream, advisories>>
              /\ \A w \in Worker : Handling(w)' => Handling(w) /\ msg'[w] = msg[w]
           \/ \E w \in Worker, m \in Message :
                 /\ deliver(m) /\ msg'[w] = m
                 /\ \A v \in Worker \ {w} : pc'[v] = pc[v] /\ msg'[v] = msg[v]
           \/ \E w \in Worker :
                 /\ Handling(w) /\ ~Handling(w)'
                 /\ give_back(msg[w]) \/ (pc[w] \in {"ack", "term"} /\ settle(msg[w]))
                 /\ \A v \in Worker \ {w} : pc'[v] = pc[v] /\ msg'[v] = msg[v]
           \/ \E m \in Message :
                 /\ stream[m].status = "pending" /\ give_back(m) /\ UNCHANGED <<pc, msg>>
                 /\ Punctual => \A w \in Worker : msg[w] # m
<1> DEFINE Still == /\ UNCHANGED <<stream, advisories>>
                    /\ \A w \in Worker : Handling(w)' => Handling(w) /\ msg'[w] = msg[w]
           Given == \E w \in Worker, m \in Message :
                       /\ deliver(m) /\ msg'[w] = m
                       /\ \A v \in Worker \ {w} : pc'[v] = pc[v] /\ msg'[v] = msg[v]
           Replied == \E w \in Worker :
                         /\ Handling(w) /\ ~Handling(w)'
                         /\ give_back(msg[w]) \/ (pc[w] \in {"ack", "term"} /\ settle(msg[w]))
                         /\ \A v \in Worker \ {w} : pc'[v] = pc[v] /\ msg'[v] = msg[v]
           Timeout == \E m \in Message :
                         /\ stream[m].status = "pending" /\ give_back(m) /\ UNCHANGED <<pc, msg>>
                         /\ Punctual => \A w \in Worker : msg[w] # m
<1>0. pc \in [Worker -> PC] /\ msg \in [Worker -> Message \union {NoMsg}]
  BY Zenon DEF BaseInv, TypeOK
<1>1. ASSUME NEW w \in Worker,
             \/ BeginFetch(w) \/ FetchTimeout(w) \/ Stop(w) \/ GetDone(w) \/ SetClaim(w)
             \/ IncrToken(w) \/ SetLease(w) \/ Execute(w) \/ SetDone(w) \/ DropClaim(w)
             \/ release_claim(w)
      PROVE  Still
  <2>1. /\ \E l : pc' = [pc EXCEPT ![w] = l] /\ (Handling(w) \/ l \in Away)
        /\ UNCHANGED <<stream, advisories, msg>>
    BY Zenon, <1>1 DEF BeginFetch, FetchTimeout, Stop, GetDone, SetClaim, IncrToken,
       SetLease, Execute,
       SetDone, DropClaim, release_claim, Goto, Handling, Away, Exited, brokerVars, localVars
  <2>2. PICK l : pc' = [pc EXCEPT ![w] = l] /\ (Handling(w) \/ l \in Away)
    BY Zenon, <2>1
  <2> QED BY ZenonT(30), <1>0, <2>1, <2>2 DEF Handling
<1>2. ASSUME NEW w \in Worker, RecordStarted(w) \/ RecordCompleted(w) \/ RecordFailure(w)
      PROVE  Still
  <2>1. /\ pc[w] \in {"start", "complete", "fail"} /\ UNCHANGED <<stream, msg>>
        /\ \E l : pc' = [pc EXCEPT ![w] = l]
    BY Zenon, <1>2, WriteStep DEF Goto
  <2>2. advisories' = advisories
    BY Zenon, <1>2 DEF RecordStarted, RecordCompleted, RecordFailure, brokerVars
  <2>3. PICK l : pc' = [pc EXCEPT ![w] = l]
    BY Zenon, <2>1
  <2> QED BY Zenon, <1>0, <2>1, <2>2, <2>3 DEF Handling, Away, Exited
<1>3. ASSUME NEW w \in Worker, ReleaseLease(w) \/ Die(w) PROVE Still
  <2>1. /\ Leave(w, "idle") \/ Leave(w, "dead")
        /\ UNCHANGED <<stream, advisories>>
    BY Zenon, <1>3 DEF ReleaseLease, Die, brokerVars
  <2> QED BY Zenon, <1>0, <2>1 DEF Leave, Goto, Handling, Away, Exited
<1>4. ASSUME NEW w \in Worker, NEW m \in Message, Fetch(w, m) PROVE Given
  <2>1. /\ deliver(m) /\ msg'[w] = m
        /\ \A v \in Worker \ {w} : pc'[v] = pc[v] /\ msg'[v] = msg[v]
    BY Zenon, <1>0, <1>4 DEF Fetch, Goto
  <2> QED BY Zenon, <2>1
<1>5. ASSUME NEW w \in Worker, Poisoned(w) \/ Nak(w) \/ AckOrTerm(w) PROVE Replied
  <2>1. /\ Handling(w)
        /\ give_back(msg[w]) \/ (pc[w] \in {"ack", "term"} /\ settle(msg[w]))
        /\ \/ Leave(w, "idle")
           \/ Goto(w, "unlock") /\ UNCHANGED msg
    BY Zenon, <1>5 DEF Poisoned, Nak, AckOrTerm, AfterReply, localVars, Handling, Away,
       Exited
  <2>2. /\ ~Handling(w)'
        /\ \A v \in Worker \ {w} : pc'[v] = pc[v] /\ msg'[v] = msg[v]
    BY Zenon, <1>0, <2>1 DEF Leave, Goto, Handling, Away
  <2> QED BY Zenon, <2>1, <2>2
<1>6. ASSUME NEW m \in Message, AckWaitExpires(m) PROVE Timeout
  BY Zenon, <1>6 DEF AckWaitExpires, localVars
<1>7. ASSUME \/ \E w \in Worker : request_shutdown(w)
             \/ \E j \in Job : ClaimExpires(j) \/ LeaseExpires(j) \/ DoneExpires(j)
             \/ UNCHANGED vars
      PROVE  Still
  <2>1. UNCHANGED <<stream, advisories, pc, msg>>
    BY Zenon, <1>7 DEF request_shutdown, ClaimExpires, LeaseExpires, DoneExpires, vars,
       brokerVars, localVars
  <2> QED BY Zenon, <2>1 DEF Handling
<1> HIDE DEF Still, Given, Replied, Timeout
<1>8. Still \/ Given \/ Replied \/ Timeout
  BY ZenonT(30), <1>1, <1>2, <1>3, <1>4, <1>5, <1>6, <1>7 DEF Next, Run
<1> QED BY Zenon, <1>8 DEF Still, Given, Replied, Timeout

\* In a punctual fleet, no step of a worker or of AckWait touches a message whose
\* advisory is out, and no message leaves the stream in the step that raises it.
LEMMA FleetDelivery ==
    ASSUME Punctual, BaseInv, DeliveryInv, [Next]_vars
    PROVE  /\ DeliveryInv'
           /\ advisories \subseteq advisories'
           /\ \A m \in Message : stream'[m].job = stream[m].job
           /\ \A m \in advisories' :
                 IF m \in advisories THEN stream'[m] = stream[m] ELSE stream'[m].status = "exhausted"
<1> DEFINE Goal == /\ DeliveryInv'
                   /\ advisories \subseteq advisories'
                   /\ \A m \in Message : stream'[m].job = stream[m].job
                   /\ \A m \in advisories' :
                         IF m \in advisories THEN stream'[m] = stream[m]
                                             ELSE stream'[m].status = "exhausted"
<1>0. /\ stream \in [Message -> [job : Job, num_delivered : Nat, status : Status]]
      /\ advisories \subseteq Message
      /\ \A w \in Worker : Handling(w) => msg[w] \in Message
  BY Zenon DEF BaseInv, TypeOK, ControlInv, Handling
<1>1. ASSUME UNCHANGED <<stream, advisories>>,
             \A w \in Worker : Handling(w)' => Handling(w) /\ msg'[w] = msg[w]
      PROVE  Goal
  BY Zenon, <1>1 DEF DeliveryInv
<1>2. ASSUME NEW w \in Worker, NEW m \in Message, deliver(m), msg'[w] = m,
             \A v \in Worker \ {w} : pc'[v] = pc[v] /\ msg'[v] = msg[v]
      PROVE  Goal
  <2>1. Moved(m, "pending") /\ stream[m].status = "ready" /\ advisories' = advisories
    BY Zenon, <1>0, <1>2, MessageMoves
  <2>2. \A v \in Worker \ {w} : Handling(v)' => Handling(v)
    BY Zenon, <1>2 DEF Handling
  <2>3. \A v \in Worker \ {w} : Handling(v) => msg[v] \in Message \ {m}
    BY Zenon, <1>0, <2>1 DEF DeliveryInv
  <2>4. m \notin advisories
    BY Zenon, <2>1 DEF DeliveryInv
  <2>5. \A v \in Worker : Handling(v)' => stream'[msg'[v]].status = "pending"
    BY <1>2, <2>1, <2>2, <2>3 DEF DeliveryInv, Moved
  <2>6. \A u, v \in Worker : Handling(u)' /\ Handling(v)' /\ msg'[u] = msg'[v] => u = v
    BY <1>2, <2>2, <2>3 DEF DeliveryInv
  <2>7. \A n \in advisories' : stream'[n] = stream[n]
    BY Zenon, <1>0, <2>1, <2>4 DEF Moved
  <2>8. \A n \in advisories' : stream'[n].status \in {"exhausted", "gone"}
    BY Zenon, <2>1, <2>7 DEF DeliveryInv
  <2>9. DeliveryInv'
    BY ZenonT(30), <2>5, <2>6, <2>8 DEF DeliveryInv
  <2> QED BY Zenon, <2>1, <2>7, <2>9 DEF Moved
<1>3. ASSUME NEW w \in Worker, Handling(w), ~Handling(w)',
             give_back(msg[w]) \/ settle(msg[w]),
             \A v \in Worker \ {w} : pc'[v] = pc[v] /\ msg'[v] = msg[v]
      PROVE  Goal
  <2>1. /\ msg[w] \in Message /\ stream[msg[w]].status = "pending" /\ msg[w] \notin advisories
        /\ \A v \in Worker \ {w} : Handling(v) => msg[v] # msg[w]
    BY ZenonT(30), <1>0, <1>3 DEF DeliveryInv
  <2>2. \/ \E s : Moved(msg[w], s) /\ advisories' = advisories
        \/ Moved(msg[w], "exhausted") /\ advisories' = advisories \union {msg[w]}
    BY Zenon, <1>0, <1>3, <2>1, MessageMoves
  <2>3. \A v \in Worker : Handling(v)' => v # w /\ Handling(v) /\ msg'[v] = msg[v]
    BY Zenon, <1>3 DEF Handling
  <2> QED BY <1>0, <2>1, <2>2, <2>3 DEF DeliveryInv, Moved
<1>4. ASSUME NEW m \in Message, stream[m].status = "pending", give_back(m), UNCHANGED <<pc, msg>>,
             \A w \in Worker : msg[w] # m
      PROVE  Goal
  <2>1. m \notin advisories
    BY Zenon, <1>4 DEF DeliveryInv
  <2>2. \/ Moved(m, "ready") /\ advisories' = advisories
        \/ Moved(m, "exhausted") /\ advisories' = advisories \union {m}
    BY Zenon, <1>0, <1>4, MessageMoves
  <2>3. \A w \in Worker : Handling(w)' => Handling(w)
    BY Zenon, <1>4 DEF Handling
  <2> QED BY <1>0, <1>4, <2>1, <2>2, <2>3 DEF DeliveryInv, Moved
<1> HIDE DEF Goal
<1>5. Goal
  BY Zenon, <1>1, <1>2, <1>3, <1>4, FleetMoves
<1> QED BY Zenon, <1>5 DEF Goal

\* A committed event: rows stay as RowInv says, what was resolved stays resolved,
\* and DEAD_LETTERED resolves its job.
LEMMA RowWrite ==
    ASSUME RepoTypeOK, RowInv, NEW j \in Job, NEW e \in WorkerEvent \union PlainEvent,
           apply(jobs[j].state, e) # IllegalTransition,
           jobs'[j].state = apply(jobs[j].state, e),
           \A i \in Job \ {j} : jobs'[i] = jobs[i] /\ job_events'[i] = job_events[i],
           Len(job_events'[j]) = Len(job_events[j]) + 1,
           job_events'[j][Len(job_events[j]) + 1].event = e,
           \A i \in 1..Len(job_events[j]) : job_events'[j][i] = job_events[j][i]
    PROVE  /\ RowInv'
           /\ \A i \in Job : Resolved(i) => Resolved(i)'
           /\ e = "dead_lettered" => Resolved(j)'
<1> DEFINE s == jobs[j].state
           s2 == jobs'[j].state
           Dead(i) == Recorded(i, "dead_lettered") # {}
<1>1. s \in JobState /\ Len(job_events[j]) \in Nat
  BY DEF RepoTypeOK, JobRow
<1>2. /\ s \notin {"succeeded", "failed"} /\ s2 # "submitted"
      /\ s2 = "dead_letter" => e = "dead_lettered"
  BY <1>1, ApplyWorkerEvents, ApplyPlainEvents DEF WorkerEvent, PlainEvent
<1>3. e = "dead_lettered" => Dead(j)'
  <2>1. Len(job_events[j]) + 1 \in 1..Len(job_events'[j])
    BY <1>1
  <2> QED BY Zenon, <2>1 DEF Recorded
<1>4. Dead(j) => Dead(j)'
  <2>1. 1..Len(job_events[j]) \subseteq 1..Len(job_events'[j])
    BY <1>1
  <2> QED BY Zenon, <2>1 DEF Recorded
<1>5. \A i \in Job \ {j} : Dead(i) => Dead(i)'
  BY Zenon DEF Recorded
<1>6. ~is_terminal(s)
  BY ZenonT(30), <1>2 DEF is_terminal, TERMINAL_STATES
<1> HIDE DEF Dead
<1>7. RowInv'
  BY ZenonT(30), <1>2, <1>3, <1>5 DEF RowInv, Dead
<1>8. \A i \in Job : Resolved(i) => Resolved(i)'
  BY Zenon, <1>4, <1>5, <1>6 DEF Resolved, Dead
<1> QED BY Zenon, <1>3, <1>7, <1>8 DEF Resolved, Dead

\* A step that writes no row.
LEMMA RowKept ==
    ASSUME RowInv, jobs' = jobs, job_events' = job_events
    PROVE  RowInv' /\ \A i \in Job : Resolved(i) => Resolved(i)'
BY Zenon DEF RowInv, Resolved, Recorded

\* A write of the listener or of the operator.  One by the listener resolves the
\* job even when it is refused: the job has then finished, or is in quarantine.
LEMMA PlainRows ==
    ASSUME RepoTypeOK, RowInv, NEW j \in Job, NEW e \in PlainEvent, NEW a \in Nat,
           record_event(j, e, a, NoToken)
    PROVE  /\ RowInv'
           /\ \A i \in Job : Resolved(i) => Resolved(i)'
           /\ e = "dead_lettered" => Resolved(j)'
<1>1. CASE Verdict(j, e, NoToken) # "ok"
  <2>1. jobs' = jobs /\ job_events' = job_events
    BY Zenon, <1>1, Rollback
  <2>2. jobs[j].state \in JobState /\ jobs[j].fence_token \in Nat
    BY Zenon DEF RepoTypeOK, JobRow
  <2>3. apply(jobs[j].state, e) = IllegalTransition
    BY <1>1, <2>2 DEF Verdict, EffectiveToken
  <2>4. e = "dead_lettered" => jobs[j].state \notin {"queued", "running"}
    BY Zenon, <2>2, <2>3, ApplyPlainEvents DEF IllegalTransition
  <2>5. e = "dead_lettered" => Resolved(j)
    BY ZenonT(30), <2>2, <2>4 DEF RowInv, Resolved, is_terminal, TERMINAL_STATES, JobState
  <2> QED BY Zenon, <2>1, <2>5, RowKept
<1>2. CASE Verdict(j, e, NoToken) = "ok"
  <2>1. /\ apply(jobs[j].state, e) # IllegalTransition
        /\ jobs'[j].state = apply(jobs[j].state, e)
        /\ \A i \in Job \ {j} : jobs'[i] = jobs[i] /\ job_events'[i] = job_events[i]
        /\ Len(job_events'[j]) = Len(job_events[j]) + 1
        /\ job_events'[j][Len(job_events[j]) + 1].event = e
        /\ \A i \in 1..Len(job_events[j]) : job_events'[j][i] = job_events[j][i]
    BY Zenon, <1>2, PlainCommit
  <2>2. e \in WorkerEvent \union PlainEvent
    OBVIOUS
  <2> QED BY Zenon, <2>1, <2>2, RowWrite
<1> QED BY Zenon, <1>1, <1>2

\* A write of a worker.
LEMMA WorkerRows ==
    ASSUME RepoTypeOK, RowInv, NEW j \in Job, NEW e \in WorkerEvent,
           NEW a \in Nat, NEW t \in Nat \ {0}, record_event(j, e, a, t)
    PROVE  RowInv' /\ \A i \in Job : Resolved(i) => Resolved(i)'
<1>1. CASE Verdict(j, e, t) # "ok"
  BY ZenonT(30), <1>1, Rollback, RowKept
<1>2. CASE Verdict(j, e, t) = "ok"
  <2>1. /\ apply(jobs[j].state, e) # IllegalTransition
        /\ jobs'[j].state = apply(jobs[j].state, e)
        /\ \A i \in Job \ {j} : jobs'[i] = jobs[i] /\ job_events'[i] = job_events[i]
        /\ Len(job_events'[j]) = Len(job_events[j]) + 1
        /\ job_events'[j][Len(job_events[j]) + 1] = [event |-> e, attempt |-> a, fence_token |-> t]
        /\ \A i \in 1..Len(job_events[j]) : job_events'[j][i] = job_events[j][i]
    BY SMTT(30), <1>2, Commit
  <2>2. job_events'[j][Len(job_events[j]) + 1].event = e /\ e \in WorkerEvent \union PlainEvent
    BY <2>1
  <2> QED BY ZenonT(30), <2>1, <2>2, RowWrite
<1> QED BY Zenon, <1>1, <1>2

\* A step of the fleet.
LEMMA FleetRows ==
    ASSUME BaseInv, RowInv, [Next]_vars
    PROVE  RowInv' /\ \A i \in Job : Resolved(i) => Resolved(i)'
<1>1. ASSUME NEW w \in Worker, RecordStarted(w) \/ RecordCompleted(w) \/ RecordFailure(w)
      PROVE  RowInv' /\ \A i \in Job : Resolved(i) => Resolved(i)'
  <2>1. PICK e \in WorkerEvent : record_event(JobOf(w), e, attempt[w], token[w])
    BY ZenonT(30), <1>1, WriteStep
  <2>2. /\ JobOf(w) \in Job /\ attempt[w] \in Nat /\ token[w] \in Nat \ {0} /\ RepoTypeOK
    BY ZenonT(30), <1>1, WriteStep, JobOfType DEF BaseInv, TypeOK, ControlInv, NoToken,
       Leased, Away, Exited
  <2> QED BY ZenonT(30), <2>1, <2>2, WorkerRows
<1>2. ASSUME ~ \E w \in Worker : RecordStarted(w) \/ RecordCompleted(w) \/ RecordFailure(w)
      PROVE  jobs' = jobs /\ job_events' = job_events
  <2>1. CASE \E w \in Worker : IncrToken(w)
    BY ZenonT(30), <2>1 DEF IncrToken, repoVars
  <2> QED BY Zenon, <1>2, <2>1, QuietStep
<1> QED BY ZenonT(30), <1>1, <1>2, RowKept

\* What the listener's progress needs of a step that is not the listener's own:
\* messages with an advisory keep still, new ones are still in the stream.
LEMMA KeepsStill ==
    ASSUME IInv, ListenInv, QuarantineInv, UNCHANGED <<lpc, adv, acked, copied>>,
           advisories \subseteq advisories',
           \A m \in Message : stream'[m].job = stream[m].job,
           \A m \in advisories' :
              IF m \in advisories THEN stream'[m] = stream[m] ELSE stream'[m].status = "exhausted",
           \A i \in Job : Resolved(i) => Resolved(i)'
    PROVE  QuarantineInv'
<1>1. /\ advisories \subseteq Message
      /\ \A m \in Message : stream[m].job \in Job
  BY ZenonT(30) DEF IInv, BaseInv, TypeOK
<1>2. \A m \in advisories : Resolved(stream[m].job) => Resolved(stream[m].job)'
  BY <1>1 DEF Resolved, Recorded
<1>3. \A m \in advisories' : stream'[m].status = "gone" => m \in copied' /\ Resolved(stream[m].job)'
  BY Zenon, <1>1, <1>2 DEF QuarantineInv
<1>4. Flaky \/ \A m \in acked' : m \in advisories' /\ stream'[m].status = "gone"
  BY Zenon DEF QuarantineInv
<1>5. \A l \in Listener :
          /\ lpc'[l] # "idle" => adv'[l] \in advisories'
          /\ lpc'[l] \in {"record", "delete"} => adv'[l] \in copied'
          /\ lpc'[l] = "delete" => Resolved(stream[adv[l]].job)'
          /\ lpc'[l] = "ack" => Flaky \/ stream'[adv'[l]].status = "gone"
  BY ZenonT(30), <1>1, <1>2 DEF QuarantineInv
<1> QED BY ZenonT(30), <1>3, <1>4, <1>5 DEF QuarantineInv

\* A step of the listener that touches neither database nor broker.
LEMMA ListenerStep ==
    ASSUME QuarantineInv, ListenInv, UNCHANGED vars, NEW l \in Listener, NEW label \in LPC,
           lpc' = [lpc EXCEPT ![l] = label],
           \A k \in Listener \ {l} : adv'[k] = adv[k],
           copied \subseteq copied', acked \subseteq acked',
           Flaky \/ \A m \in acked' \ acked : m \in advisories /\ stream[m].status = "gone",
           label # "idle" => adv'[l] \in advisories,
           label \in {"record", "delete"} => adv'[l] \in copied',
           label # "delete",
           label = "ack" => Flaky \/ stream[adv'[l]].status = "gone"
    PROVE  QuarantineInv'
<1>1. UNCHANGED <<jobs, job_events, stream, advisories>>
  BY Zenon DEF vars
<1>2. \A m : Resolved(stream[m].job) <=> Resolved(stream[m].job)'
  BY Zenon, <1>1 DEF Resolved, Recorded
<1>3. \A k \in Listener \ {l} : lpc'[k] = lpc[k] /\ adv'[k] = adv[k]
  BY Zenon DEF ListenInv, ListenerTypeOK
<1>4. lpc'[l] = label
  BY ZenonT(30) DEF ListenInv, ListenerTypeOK
<1>5. \A k \in Listener : lpc'[k] = "delete" => Resolved(stream[adv[k]].job)'
  <2> SUFFICES ASSUME NEW k \in Listener, lpc'[k] = "delete" PROVE Resolved(stream[adv[k]].job)'
    OBVIOUS
  <2>1. k # l
    BY ZenonT(30), <1>4
  <2>2. adv'[k] = adv[k] /\ Resolved(stream[adv[k]].job)
    BY Zenon, <1>3, <2>1 DEF QuarantineInv
  <2> QED BY ZenonT(30), <1>1, <2>2 DEF Resolved, Recorded
<1>6. \A m \in advisories' : stream'[m].status = "gone" => m \in copied' /\ Resolved(stream[m].job)'
  BY ZenonT(30), <1>1, <1>2 DEF QuarantineInv
<1>7. \A k \in Listener :
          /\ lpc'[k] # "idle" => adv'[k] \in advisories'
          /\ lpc'[k] \in {"record", "delete"} => adv'[k] \in copied'
          /\ lpc'[k] = "ack" => Flaky \/ stream'[adv'[k]].status = "gone"
  BY ZenonT(30), <1>1, <1>3, <1>4 DEF QuarantineInv
<1>8. Flaky \/ \A m \in acked' : m \in advisories' /\ stream'[m].status = "gone"
  BY Zenon, <1>1 DEF QuarantineInv
<1> QED BY ZenonT(30), <1>5, <1>6, <1>7, <1>8 DEF QuarantineInv

NotLostInv == DeliveryInv /\ RowInv /\ QuarantineInv

\* Every step keeps the quarantines on their way.
LEMMA NextNotLost ==
    ASSUME Punctual, IInv, ListenInv, NotLostInv, [DNext]_allVars
    PROVE  NotLostInv'
<1>0. /\ BaseInv /\ RepoTypeOK
      /\ DeliveryInv /\ RowInv /\ QuarantineInv
      /\ stream \in [Message -> [job : Job, num_delivered : Nat, status : Status]]
      /\ advisories \subseteq Message
      /\ \A w \in Worker : Handling(w) => msg[w] \in Message
      /\ lpc \in [Listener -> LPC] /\ adv \in [Listener -> Message \union {NoMsg}]
  BY Zenon DEF NotLostInv, IInv, BaseInv, TypeOK, ControlInv, Handling, ListenInv,
     ListenerTypeOK
<1>1. ASSUME Next \/ UNCHANGED vars, UNCHANGED dlqVars PROVE NotLostInv'
  <2>1. UNCHANGED <<lpc, adv, acked, copied>>
    BY Zenon, <1>1 DEF dlqVars
  <2>2. RowInv' /\ \A i \in Job : Resolved(i) => Resolved(i)'
    BY ZenonT(30), <1>0, <1>1, FleetRows
  <2>3. /\ DeliveryInv'
        /\ advisories \subseteq advisories'
        /\ \A m \in Message : stream'[m].job = stream[m].job
        /\ \A m \in advisories' :
              IF m \in advisories THEN stream'[m] = stream[m] ELSE stream'[m].status = "exhausted"
    BY ZenonT(30), <1>0, <1>1, FleetDelivery
  <2>4. QuarantineInv'
    BY Zenon, <1>0, <2>1, <2>2, <2>3, KeepsStill
  <2> QED BY Zenon, <2>2, <2>3, <2>4 DEF NotLostInv
<1>2. ASSUME UNCHANGED vars, QuarantineInv' PROVE NotLostInv'
  <2>1. DeliveryInv'
    BY Zenon, <1>0, <1>2 DEF DeliveryInv, Handling, vars
  <2>2. RowInv'
    BY Zenon, <1>0, <1>2, RowKept DEF vars
  <2> QED BY ZenonT(30), <1>2, <2>1, <2>2 DEF NotLostInv
<1>3. ASSUME NEW l \in Listener, NEW m \in Message, FetchAdvisory(l, m) PROVE NotLostInv'
  <2>1. QuarantineInv'
    BY ZenonT(30), <1>0, <1>3, ListenerStep DEF FetchAdvisory, LGoto, LPC, Quarantining
  <2> QED BY ZenonT(30), <1>2, <1>3, <2>1 DEF FetchAdvisory
<1>4. ASSUME NEW l \in Listener, GetMsg(l) PROVE NotLostInv'
  <2>1. adv[l] \in advisories
    BY Zenon, <1>0, <1>4 DEF GetMsg, QuarantineInv
  <2>2. QuarantineInv'
    BY ZenonT(30), <1>0, <1>4, <2>1, ListenerStep DEF GetMsg, LGoto, LPC, Quarantining
  <2> QED BY Zenon, <1>2, <1>4, <2>2 DEF GetMsg
<1>5. ASSUME NEW l \in Listener, CopyMsg(l) PROVE NotLostInv'
  <2>1. adv[l] \in advisories
    BY Zenon, <1>0, <1>5 DEF CopyMsg, QuarantineInv
  <2>2. QuarantineInv'
    BY ZenonT(30), <1>0, <1>5, <2>1, ListenerStep DEF CopyMsg, LGoto, LPC, Quarantining
  <2> QED BY Zenon, <1>2, <1>5, <2>2 DEF CopyMsg
<1>6. ASSUME NEW l \in Listener, AckAdvisory(l) \/ ListenerCrash(l) PROVE NotLostInv'
  <2>1. /\ lpc[l] # "idle" /\ lpc' = [lpc EXCEPT ![l] = "idle"] /\ UNCHANGED vars
        /\ adv' = [adv EXCEPT ![l] = NoMsg] /\ copied' = copied
        /\ acked' = acked \/ (lpc[l] = "ack" /\ acked' = acked \union {adv[l]})
    BY Zenon, <1>6 DEF AckAdvisory, ListenerCrash, LGoto
  <2>2. QuarantineInv'
    <3>1. Flaky \/ \A m \in acked' \ acked : m \in advisories /\ stream[m].status = "gone"
      BY Zenon, <1>0, <2>1 DEF QuarantineInv
    <3> QED BY ZenonT(30), <1>0, <2>1, <3>1, ListenerStep DEF LPC
  <2> QED BY Zenon, <1>2, <2>1, <2>2
<1>7. ASSUME NEW j \in Job, replay_job(j) PROVE NotLostInv'
  <2>1. /\ record_event(j, "replayed", 0, NoToken)
        /\ UNCHANGED <<stream, advisories, pc, msg, lpc, adv, acked, copied>>
    BY Zenon, <1>7 DEF replay_job, brokerVars, localVars
  <2>2. RowInv' /\ \A i \in Job : Resolved(i) => Resolved(i)'
    BY ZenonT(30), <1>0, <2>1, PlainRows DEF PlainEvent
  <2>3. DeliveryInv'
    BY ZenonT(30), <1>0, <2>1 DEF DeliveryInv, Handling
  <2>4. QuarantineInv'
    BY Zenon, <1>0, <2>1, <2>2, KeepsStill
  <2> QED BY Zenon, <2>2, <2>3, <2>4 DEF NotLostInv
<1>8. ASSUME NEW j \in Job, RelayReplay(j) PROVE NotLostInv'
  <2>1. PICK m \in Message : publish(m)
    BY Zenon, <1>8 DEF RelayReplay, Unsent
  <2>2. UNCHANGED <<jobs, job_events, pc, msg, lpc, adv, acked, copied>>
    BY ZenonT(30), <1>8 DEF RelayReplay, repoVars, localVars
  <2>3. Moved(m, "ready") /\ stream[m].status = "unsent" /\ advisories' = advisories
    BY ZenonT(30), <1>0, <2>1, MessageMoves
  <2>4. RowInv' /\ \A i \in Job : Resolved(i) => Resolved(i)'
    BY ZenonT(30), <1>0, <2>2, RowKept
  <2>5. DeliveryInv'
    <3>1. \A w \in Worker : Handling(w)' => Handling(w) /\ msg[w] # m
      BY ZenonT(30), <1>0, <2>2, <2>3 DEF DeliveryInv, Handling
    <3>2. \A w \in Worker : Handling(w)' => stream'[msg'[w]].status = "pending"
      BY SMTT(30), <1>0, <2>2, <2>3, <3>1 DEF DeliveryInv, Moved
    <3>3. \A v, w \in Worker : Handling(v)' /\ Handling(w)' /\ msg'[v] = msg'[w] => v = w
      BY Zenon, <1>0, <2>2, <3>1 DEF DeliveryInv
    <3>4. \A n \in advisories' : n \in Message \ {m} /\ stream[n].status \in {"exhausted", "gone"}
      BY Zenon, <1>0, <2>3 DEF DeliveryInv
    <3>5. \A n \in advisories' : stream'[n].status \in {"exhausted", "gone"}
      BY Zenon, <2>3, <3>4 DEF Moved
    <3> QED BY ZenonT(30), <3>2, <3>3, <3>5 DEF DeliveryInv
  <2>6. \A n \in advisories : n # m
    BY ZenonT(30), <1>0, <2>3 DEF DeliveryInv
  <2>7. QuarantineInv'
    BY ZenonT(30), <1>0, <2>2, <2>3, <2>4, <2>6, KeepsStill DEF Moved
  <2> QED BY ZenonT(30), <2>4, <2>5, <2>7 DEF NotLostInv
<1>9. ASSUME NEW l \in Listener, RecordDeadLettered(l) PROVE NotLostInv'
  <2>1. adv[l] \in advisories /\ adv[l] \in copied /\ adv[l] \in Message
    BY Zenon, <1>0, <1>9 DEF RecordDeadLettered, QuarantineInv
  <2>j. PICK j \in Job : j = stream[adv[l]].job
    BY ZenonT(30), <1>0, <2>1
  <2>2. /\ record_event(j, "dead_lettered", stream[adv[l]].num_delivered, NoToken)
        /\ lpc' = [lpc EXCEPT ![l] = "delete"]
        /\ UNCHANGED <<stream, advisories, pc, msg, adv, acked, copied>>
    BY Zenon, <1>9, <2>j DEF RecordDeadLettered, LGoto, brokerVars, localVars
  <2>3. stream[adv[l]].num_delivered \in Nat
    BY ZenonT(30), <1>0, <2>1
  <2>4. RowInv' /\ Resolved(j)' /\ \A i \in Job : Resolved(i) => Resolved(i)'
    BY ZenonT(30), <1>0, <2>2, <2>3, PlainRows DEF PlainEvent
  <2>5. DeliveryInv'
    BY ZenonT(30), <1>0, <2>2 DEF DeliveryInv, Handling
  <2>6. \A m \in Message : Resolved(stream[m].job) => Resolved(stream[m].job)'
    BY ZenonT(30), <1>0, <2>2, <2>4 DEF Resolved, Recorded
  <2>7. Resolved(stream[adv[l]].job)'
    BY ZenonT(30), <2>j, <2>2, <2>4 DEF Resolved, Recorded
  <2>8. \A m \in advisories' : stream'[m].status = "gone" => m \in copied' /\ Resolved(stream[m].job)'
    BY ZenonT(30), <1>0, <2>2, <2>6 DEF QuarantineInv
  <2>9. \A k \in Listener : lpc'[k] = "delete" => Resolved(stream[adv[k]].job)'
    BY ZenonT(30), <1>0, <2>2, <2>6, <2>7 DEF QuarantineInv
  <2>10. \A k \in Listener :
            /\ lpc'[k] # "idle" => adv'[k] \in advisories'
            /\ lpc'[k] \in {"record", "delete"} => adv'[k] \in copied'
            /\ lpc'[k] = "ack" => Flaky \/ stream'[adv'[k]].status = "gone"
    BY ZenonT(30), <1>0, <2>1, <2>2 DEF QuarantineInv
  <2>11. Flaky \/ \A m \in acked' : m \in advisories' /\ stream'[m].status = "gone"
    BY ZenonT(30), <1>0, <2>2 DEF QuarantineInv
  <2>12. QuarantineInv'
    BY ZenonT(30), <2>8, <2>9, <2>10, <2>11 DEF QuarantineInv
  <2> QED BY ZenonT(30), <2>4, <2>5, <2>12 DEF NotLostInv
<1>10. ASSUME NEW l \in Listener, DeleteMsg(l) PROVE NotLostInv'
  <2> DEFINE m == adv[l]
  <2>1. m \in advisories /\ m \in copied /\ m \in Message /\ Resolved(stream[m].job)
    BY ZenonT(30), <1>0, <1>10 DEF DeleteMsg, QuarantineInv
  <2>2. /\ settle(m) /\ lpc' = [lpc EXCEPT ![l] = "ack"]
        /\ UNCHANGED <<jobs, job_events, pc, msg, adv, acked, copied>>
    BY ZenonT(30), <1>10 DEF DeleteMsg, LGoto, repoVars, localVars
  <2> HIDE DEF m
  <2>3. Moved(m, "gone") /\ advisories' = advisories
    BY ZenonT(30), <1>0, <2>1, <2>2, MessageMoves
  <2>4. RowInv'
    BY ZenonT(30), <1>0, <2>2, RowKept
  <2>5. DeliveryInv'
    <3>1. \A w \in Worker : Handling(w)' => Handling(w) /\ msg[w] # m
      BY ZenonT(30), <1>0, <2>1, <2>2 DEF DeliveryInv, Handling
    <3>2. \A w \in Worker : Handling(w)' => stream'[msg'[w]].status = "pending"
      BY ZenonT(30), <1>0, <2>2, <2>3, <3>1 DEF DeliveryInv, Moved
    <3>3. \A v, w \in Worker : Handling(v)' /\ Handling(w)' /\ msg'[v] = msg'[w] => v = w
      BY ZenonT(30), <1>0, <2>2, <3>1 DEF DeliveryInv
    <3>4. \A n \in advisories' : stream'[n].status \in {"exhausted", "gone"}
      BY ZenonT(30), <1>0, <2>3 DEF DeliveryInv, Moved
    <3> QED BY ZenonT(30), <3>2, <3>3, <3>4 DEF DeliveryInv
  <2>6. \A n \in Message : Resolved(stream[n].job) => Resolved(stream[n].job)'
    BY ZenonT(30), <2>2, <2>3 DEF Resolved, Recorded, Moved
  <2>7. \A n \in advisories' : stream'[n].status = "gone" => n \in copied' /\ Resolved(stream[n].job)'
    BY ZenonT(30), <1>0, <2>1, <2>2, <2>3, <2>6 DEF QuarantineInv, Moved
  <2>8. \A k \in Listener : lpc'[k] = "delete" => Resolved(stream[adv[k]].job)'
    <3> SUFFICES ASSUME NEW k \in Listener, lpc'[k] = "delete" PROVE Resolved(stream[adv[k]].job)'
      OBVIOUS
    <3>1. lpc[k] = "delete"
      BY ZenonT(30), <1>0, <2>2
    <3>2. adv[k] \in Message /\ Resolved(stream[adv[k]].job)
      BY ZenonT(30), <1>0, <3>1 DEF QuarantineInv
    <3> QED BY ZenonT(30), <2>2, <2>3, <3>2 DEF Resolved, Recorded, Moved
  <2>9. \A k \in Listener :
           /\ lpc'[k] # "idle" => adv'[k] \in advisories'
           /\ lpc'[k] \in {"record", "delete"} => adv'[k] \in copied'
    BY ZenonT(30), <1>0, <2>1, <2>2, <2>3 DEF QuarantineInv, m
  <2>10. \A k \in Listener : lpc'[k] = "ack" => Flaky \/ stream'[adv'[k]].status = "gone"
    <3> SUFFICES ASSUME NEW k \in Listener, lpc'[k] = "ack", ~Flaky PROVE stream'[adv[k]].status = "gone"
      BY Zenon, <2>2
    <3>1. CASE adv[k] = m
      BY ZenonT(30), <2>3, <3>1 DEF Moved
    <3>2. CASE adv[k] # m
      <4>1. lpc[k] = "ack"
        BY ZenonT(30), <1>0, <2>2, <3>2 DEF m
      <4> QED BY ZenonT(30), <1>0, <2>3, <3>2, <4>1 DEF QuarantineInv, Moved
    <3> QED BY ZenonT(30), <3>1, <3>2
  <2>11. Flaky \/ \A n \in acked' : n \in advisories' /\ stream'[n].status = "gone"
    BY ZenonT(30), <1>0, <2>2, <2>3 DEF QuarantineInv, Moved
  <2>12. QuarantineInv'
    BY ZenonT(30), <2>7, <2>8, <2>9, <2>10, <2>11 DEF QuarantineInv
  <2> QED BY ZenonT(30), <2>4, <2>5, <2>12 DEF NotLostInv
<1>11. UNCHANGED allVars => UNCHANGED vars /\ UNCHANGED dlqVars
  BY Zenon DEF allVars
<1>12. ASSUME NEW l \in Listener, QuarantineRaises(l) PROVE NotLostInv'
  <2>1. adv[l] \in advisories
    BY Zenon, <1>0, <1>12 DEF QuarantineRaises, QuarantineInv, Quarantining
  <2>2. QuarantineInv'
    BY ZenonT(30), <1>0, <1>12, <2>1, ListenerStep DEF QuarantineRaises, LGoto, LPC
  <2> QED BY Zenon, <1>2, <1>12, <2>2 DEF QuarantineRaises
<1> QED BY Zenon, <1>1, <1>3, <1>4, <1>5, <1>6, <1>7, <1>8, <1>9, <1>10, <1>11, <1>12
           DEF DNext, Listen

\* A platform that has just started has no quarantine.
LEMMA InitNotLost == DInit => NotLostInv
<1> SUFFICES ASSUME DInit PROVE NotLostInv
  BY ZenonT(30)
<1>1. /\ jobs = [j \in Job |-> SubmittedRow] /\ SubmittedRow.state = "queued"
      /\ advisories = {} /\ acked = {} /\ pc = [w \in Worker |-> "idle"]
      /\ lpc = [l \in Listener |-> "idle"]
  BY Zenon DEF DInit, FreshStart, SubmittedRow
<1>2. RowInv
  BY ZenonT(30), <1>1 DEF RowInv
<1>3. DeliveryInv
  BY ZenonT(30), <1>1 DEF DeliveryInv, Handling, Away
<1>4. QuarantineInv
  BY Zenon, <1>1 DEF QuarantineInv
<1> QED BY Zenon, <1>2, <1>3, <1>4 DEF NotLostInv

\* The invariant holds in every state of a punctual platform.
LEMMA SpecNotLost == Punctual /\ DSpec => [](IInv /\ ListenInv /\ NotLostInv)
<1>1. Punctual => (DSpec => []NotLostInv)
  <2> SUFFICES ASSUME Punctual PROVE DSpec => []NotLostInv
    OBVIOUS
  <2>1. IInv /\ ListenInv /\ NotLostInv /\ [DNext]_allVars => NotLostInv'
    BY Zenon, NextNotLost
  <2> QED BY SpecD, InitNotLost, <2>1, PTL DEF DSpec
<1> QED BY <1>1, SpecD, PTL

\* Copy before delete (_quarantine_inner): where workers keep to their leases, any
\* number of listeners may overlap, crash and re-run anywhere, and their calls may
\* raise, and still no exhausted message leaves the stream before it is copied.
THEOREM CopyComesFirst == Punctual /\ DSpec => []CopyBeforeDelete
<1>1. NotLostInv => CopyBeforeDelete
  BY Zenon DEF NotLostInv, QuarantineInv, CopyBeforeDelete
<1> QED BY <1>1, SpecNotLost, PTL

\* No quarantine is lost (quarantine, run): where workers keep to their leases and
\* no call of the quarantine raises, any number of listeners may crash and re-run
\* anywhere, and still an advisory is acked only once its message is copied and
\* deleted and its job finished or recorded as dead-lettered.
THEOREM NoQuarantineIsLost == Punctual /\ ~Flaky /\ DSpec => []QuarantineNotLost
<1> SUFFICES ASSUME ~Flaky PROVE Punctual /\ DSpec => []QuarantineNotLost
  OBVIOUS
<1>1. NotLostInv => QuarantineNotLost
  BY Zenon DEF NotLostInv, QuarantineInv, QuarantineNotLost, Resolved
<1> QED BY <1>1, SpecNotLost, PTL
==============================================================================
