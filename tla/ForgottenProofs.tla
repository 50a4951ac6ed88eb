-------------------------- MODULE ForgottenProofs ---------------------------
(***************************************************************************)
(* That no job is forgotten: in a platform whose workers keep to their     *)
(* leases, every job that is queued or running has something on the way    *)
(* that will move it, for any numbers of workers, listeners, jobs and      *)
(* messages.                                                               *)
(***************************************************************************)
EXTENDS QuarantineProofs

Active(state) == state \in {"queued", "running"}

\* A worker that will settle its message whatever becomes of the job: it is on its
\* way to an ack or a term, or its execution is no longer the one that counts.
Spent(w) ==
    \/ pc[w] \in {"mark_done", "unclaim", "ack", "release_term", "term"}
    \/ pc[w] \in {"execute", "complete"} /\ jobs[JobOf(w)].state # "running"

\* A message that will still move its job: it is to be delivered, or in the hands
\* of a worker that is not spent, or its advisory is not dealt with yet.
Carries(m) ==
    \/ stream[m].status = "ready"
    \/ stream[m].status = "pending" /\ \A w \in Worker : msg[w] = m => ~Spent(w)
    \/ /\ stream[m].status = "exhausted" /\ m \in advisories
       /\ \A l \in Listener : lpc[l] = "delete" => adv[l] # m

CarryInv ==
    \A j \in Job : Active(jobs[j].state) =>
       outbox[j] > 0 \/ \E m \in Message : stream[m].job = j /\ Carries(m)

\* A step of the fleet that writes no row makes no worker spent whose job is active.
LEMMA QuietSpends ==
    ASSUME BaseInv, DoneInv, [Next]_vars, jobs' = jobs,
           \A m \in Message : stream'[m].job = stream[m].job,
           ~ \E v \in Worker : RecordStarted(v) \/ RecordCompleted(v) \/ RecordFailure(v),
           NEW w \in Worker, msg'[w] \in Message, Spent(w)', Active(jobs'[stream'[msg'[w]].job].state)
    PROVE  Spent(w) /\ msg'[w] = msg[w]
<1> DEFINE Goal == Spent(w) /\ msg'[w] = msg[w]
           Spending == {"mark_done", "unclaim", "ack", "release_term", "term", "execute", "complete"}
<1>0. /\ pc \in [Worker -> PC] /\ msg \in [Worker -> Message \union {NoMsg}]
      /\ pc'[w] \in Spending
  BY Zenon DEF BaseInv, TypeOK, Spent
<1>1. ASSUME pc'[w] = pc[w], msg'[w] = msg[w] PROVE Goal
  BY Zenon, <1>1 DEF Spent, JobOf
<1>2. ASSUME NEW v \in Worker,
             \/ BeginFetch(v) \/ FetchTimeout(v) \/ Stop(v) \/ SetClaim(v) \/ IncrToken(v) \/ SetLease(v)
      PROVE  Goal
  <2>1. /\ msg' = msg
        /\ \E l : pc' = [pc EXCEPT ![v] = l] /\ l \notin Spending
    BY <1>2 DEF BeginFetch, FetchTimeout, Stop, SetClaim, IncrToken, SetLease, Goto,
       localVars
  <2> QED BY Zenon, <1>0, <1>1, <2>1
<1>3. ASSUME NEW v \in Worker, Poisoned(v) \/ Nak(v) \/ AckOrTerm(v) \/ ReleaseLease(v) \/ Die(v)
      PROVE  Goal
  <2>1. \/ Leave(v, "idle") \/ Leave(v, "dead")
        \/ Goto(v, "unlock") /\ UNCHANGED msg
    BY Zenon, <1>3 DEF Poisoned, Nak, AckOrTerm, AfterReply, ReleaseLease, Die, localVars
  <2> QED BY Zenon, <1>0, <1>1, <2>1 DEF Leave, Goto
<1>4. ASSUME NEW v \in Worker, NEW m \in Message, Fetch(v, m) PROVE Goal
  BY Zenon, <1>0, <1>1, <1>4 DEF Fetch, Goto
<1>5. ASSUME NEW v \in Worker, SetDone(v) \/ DropClaim(v) \/ release_claim(v) PROVE Goal
  <2>1. /\ msg' = msg /\ pc[v] \in {"mark_done", "unclaim", "release_nak", "release_term"}
        /\ \E l : pc' = [pc EXCEPT ![v] = l] /\ (l \notin Spending \/ pc[v] # "release_nak")
    BY Zenon, <1>5 DEF SetDone, DropClaim, release_claim, Goto, localVars
  <2> QED BY Zenon, <1>0, <1>1, <2>1 DEF Spent
<1>6. ASSUME NEW v \in Worker, Execute(v) PROVE Goal
  <2>1. /\ msg' = msg /\ pc[v] = "execute"
        /\ \E l \in {"complete", "fail"} : pc' = [pc EXCEPT ![v] = l]
    BY Zenon, <1>6 DEF Execute, Goto, localVars
  <2> QED BY Zenon, <1>0, <1>1, <2>1 DEF Spent, JobOf
<1>7. ASSUME NEW v \in Worker, GetDone(v) PROVE Goal
  <2>1. /\ msg' = msg /\ pc' = [pc EXCEPT ![v] = IF JobOf(v) \in done THEN "ack" ELSE "claim"]
    BY Zenon, <1>7 DEF GetDone, Goto, localVars
  <2>2. ASSUME v = w PROVE FALSE
    <3>1. JobOf(w) \in done
      BY Zenon, <1>0, <2>1, <2>2
    <3> QED BY Zenon, <2>1, <3>1 DEF DoneInv, Active, JobOf
  <2> QED BY Zenon, <1>0, <1>1, <2>1, <2>2
<1>8. ASSUME \/ \E m \in Message : AckWaitExpires(m)
             \/ \E v \in Worker : request_shutdown(v)
             \/ \E j \in Job : ClaimExpires(j) \/ LeaseExpires(j) \/ DoneExpires(j)
             \/ UNCHANGED vars
      PROVE  Goal
  <2>1. UNCHANGED <<pc, msg>>
    BY Zenon, <1>8 DEF AckWaitExpires, request_shutdown, ClaimExpires, LeaseExpires,
       DoneExpires, vars, localVars
  <2> QED BY Zenon, <1>1, <2>1
<1> HIDE DEF Goal
<1>9. Goal
  BY ZenonT(30), <1>2, <1>3, <1>4, <1>5, <1>6, <1>7, <1>8 DEF Next, Run
<1> QED BY Zenon, <1>9 DEF Goal

\* What the three writes of a worker do, by their verdicts.
LEMMA WriteOutcome ==
    ASSUME BaseInv, NEW v \in Worker, RecordStarted(v) \/ RecordCompleted(v) \/ RecordFailure(v)
    PROVE  LET j == JobOf(v) IN
           /\ \A i \in Job \ {j} : jobs'[i] = jobs[i]
           /\ \A w \in Worker \ {v} : pc'[w] = pc[w]
           /\ jobs'[j].state = jobs[j].state \/ (pc'[v] = "release_nak" /\ pc[v] = "fail")
                 \/ jobs'[j].state \in {"running", "succeeded", "failed"}
           /\ Active(jobs'[j].state) => Active(jobs[j].state)
           /\ pc[v] = "start" => \/ pc'[v] = "execute" /\ jobs'[j].state = "running"
                                 \/ pc'[v] = "unlock"
                                 \/ pc'[v] = "release_term" /\ ~Active(jobs'[j].state)
           /\ pc[v] = "complete" => \/ ~Active(jobs'[j].state)
                                    \/ pc'[v] = "unlock"
                                    \/ jobs[j].state # "running"
           /\ pc[v] = "fail" => \/ pc'[v] \in {"unwind", "release_nak"}
                                \/ ~Active(jobs'[j].state)
<1> DEFINE j == JobOf(v)
<1>0. /\ j \in Job /\ attempt[v] \in Nat /\ token[v] \in Nat \ {0} /\ RepoTypeOK
      /\ pc \in [Worker -> PC]
  BY ZenonT(30), WriteStep, JobOfType DEF BaseInv, TypeOK, ControlInv, NoToken, Leased,
     Away, Exited
<1>1. jobs[j].state \in JobState
  BY Zenon, <1>0 DEF RepoTypeOK, JobRow
<1>2. ASSUME NEW e \in WorkerEvent, record_event(j, e, attempt[v], token[v])
      PROVE  /\ \A i \in Job \ {j} : jobs'[i] = jobs[i]
             /\ Verdict(j, e, token[v]) = "ok" =>
                   /\ jobs'[j].state = apply(jobs[j].state, e)
                   /\ apply(jobs[j].state, e) # IllegalTransition
             /\ Verdict(j, e, token[v]) # "ok" => jobs' = jobs
  BY ZenonT(30), <1>0, <1>2, Commit, Rollback
<1>3. \A e : Verdict(j, e, token[v]) \notin {"ok", "StaleLeaseError"} => apply(jobs[j].state, e) = IllegalTransition
  BY Zenon DEF Verdict
<1> HIDE DEF j
<1>4. CASE RecordStarted(v)
  <2>1. /\ record_event(j, "started", attempt[v], token[v]) /\ pc[v] = "start"
        /\ pc' = [pc EXCEPT ![v] = CASE Verdict(j, "started", token[v]) = "ok" -> "execute"
                                     [] Verdict(j, "started", token[v]) = "StaleLeaseError" -> "unlock"
                                     [] OTHER -> "release_term"]
    BY Zenon, <1>4 DEF RecordStarted, AfterWrite, Goto, j
  <2>2. "started" \in WorkerEvent
    BY Zenon DEF WorkerEvent
  <2>3. apply(jobs[j].state, "started") =
           IF jobs[j].state \in {"queued", "running"} THEN "running" ELSE IllegalTransition
    BY Zenon, <1>1, ApplyWorkerEvents
  <2> QED BY Zenon, <1>0, <1>2, <1>3, <2>1, <2>2, <2>3 DEF Active, IllegalTransition, j
<1>5. CASE RecordCompleted(v)
  <2>1. /\ record_event(j, "completed", attempt[v], token[v]) /\ pc[v] = "complete"
        /\ pc' = [pc EXCEPT ![v] = CASE Verdict(j, "completed", token[v]) = "ok" -> "mark_done"
                                     [] Verdict(j, "completed", token[v]) = "StaleLeaseError" -> "unlock"
                                     [] OTHER -> "release_term"]
    BY Zenon, <1>5 DEF RecordCompleted, AfterWrite, Goto, j
  <2>2. "completed" \in WorkerEvent
    BY Zenon DEF WorkerEvent
  <2>3. apply(jobs[j].state, "completed") =
           IF jobs[j].state = "running" THEN "succeeded" ELSE IllegalTransition
    BY Zenon, <1>1, ApplyWorkerEvents
  <2> QED BY Zenon, <1>0, <1>2, <1>3, <2>1, <2>2, <2>3 DEF Active, IllegalTransition, j
<1>6. CASE RecordFailure(v)
  <2>1. PICK e \in {"requeued", "failed"} :
           /\ record_event(j, e, attempt[v], token[v]) /\ pc[v] = "fail"
           /\ pc' = [pc EXCEPT ![v] = IF Verdict(j, e, token[v]) # "ok" THEN "unwind"
                                      ELSE IF e = "requeued" THEN "release_nak" ELSE "release_term"]
    BY Zenon, <1>6 DEF RecordFailure, Goto, j
  <2>2. e \in WorkerEvent
    BY Zenon DEF WorkerEvent
  <2>3. /\ apply(jobs[j].state, "failed") \in {"failed", IllegalTransition}
        /\ apply(jobs[j].state, "requeued") # IllegalTransition => jobs[j].state = "running"
    BY Zenon, <1>1, ApplyWorkerEvents
  <2> QED BY Zenon, <1>0, <1>2, <2>1, <2>2, <2>3 DEF Active, j
<1> QED BY Zenon, <1>4, <1>5, <1>6 DEF j

\* A write makes a worker spent only where the writer gives its own message back.
LEMMA WriteSpends ==
    ASSUME BaseInv, NEW v \in Worker, RecordStarted(v) \/ RecordCompleted(v) \/ RecordFailure(v),
           NEW w \in Worker, JobOf(w) \in Job, Spent(w)', Active(jobs'[JobOf(w)].state)
    PROVE  Spent(w) \/ (JobOf(w) = JobOf(v) /\ pc[v] = "fail" /\ pc'[v] = "release_nak")
<1> DEFINE j == JobOf(v)
<1>0. /\ UNCHANGED <<stream, msg>> /\ pc[v] \in {"start", "complete", "fail"}
  BY ZenonT(30), WriteStep
<1>1. JobOf(w)' = JobOf(w)
  BY Zenon, <1>0 DEF JobOf
<1>2. /\ \A i \in Job \ {j} : jobs'[i] = jobs[i]
      /\ \A u \in Worker \ {v} : pc'[u] = pc[u]
      /\ jobs'[j].state = jobs[j].state \/ (pc'[v] = "release_nak" /\ pc[v] = "fail")
            \/ jobs'[j].state \in {"running", "succeeded", "failed"}
      /\ pc[v] = "start" => \/ pc'[v] = "execute" /\ jobs'[j].state = "running"
                            \/ pc'[v] = "unlock"
                            \/ pc'[v] = "release_term" /\ ~Active(jobs'[j].state)
      /\ pc[v] = "complete" => \/ ~Active(jobs'[j].state)
                               \/ pc'[v] = "unlock"
                               \/ jobs[j].state # "running"
      /\ pc[v] = "fail" => \/ pc'[v] \in {"unwind", "release_nak"}
                           \/ ~Active(jobs'[j].state)
  BY Zenon, WriteOutcome
<1>3. \/ pc'[w] \in {"mark_done", "unclaim", "ack", "release_term", "term"}
      \/ pc'[w] \in {"execute", "complete"} /\ jobs'[JobOf(w)].state # "running"
  BY Zenon, <1>1 DEF Spent
<1> HIDE DEF j
<1>4. CASE w # v
  BY Zenon, <1>2, <1>3, <1>4 DEF Spent, Active, j
<1>5. CASE w = v
  BY Zenon, <1>0, <1>2, <1>3, <1>5 DEF Spent, j
<1> QED BY Zenon, <1>4, <1>5

\* A step of the fleet leaves every active job carried.
LEMMA FleetCarries ==
    ASSUME Punctual, IInv, NotLostInv, CarryInv, [Next]_vars, UNCHANGED <<lpc, adv, outbox>>
    PROVE  CarryInv'
<1> SUFFICES ASSUME NEW j \in Job, Active(jobs'[j].state), ~(outbox[j] > 0)
             PROVE  \E m \in Message : stream'[m].job = j /\ Carries(m)'
  BY Zenon DEF CarryInv
<1>0. /\ BaseInv /\ DoneInv /\ DeliveryInv /\ QuarantineInv
      /\ stream \in [Message -> [job : Job, num_delivered : Nat, status : Status]]
      /\ msg \in [Worker -> Message \union {NoMsg}]
  BY Zenon DEF NotLostInv, IInv, BaseInv, TypeOK
<1>a. \A w \in Worker : Spent(w) => Handling(w) /\ msg[w] \in Message
  BY Zenon, <1>0 DEF Spent, Handling, Away, Exited, BaseInv, ControlInv
<1>b. \A m \in Message : stream'[m].job = stream[m].job
  BY Zenon, <1>0, Stable
<1>1. CASE \E v \in Worker : RecordStarted(v) \/ RecordCompleted(v) \/ RecordFailure(v)
  <2>1. PICK v \in Worker : RecordStarted(v) \/ RecordCompleted(v) \/ RecordFailure(v)
    BY Zenon, <1>1
  <2>2. /\ UNCHANGED <<stream, msg>> /\ pc[v] \in {"start", "complete", "fail"}
    BY ZenonT(30), <1>0, <2>1, WriteStep
  <2>3. advisories' = advisories
    BY Zenon, <2>1 DEF RecordStarted, RecordCompleted, RecordFailure, brokerVars
  <2>4. /\ \A i \in Job \ {JobOf(v)} : jobs'[i] = jobs[i]
        /\ \A w \in Worker \ {v} : pc'[w] = pc[w]
        /\ Active(jobs'[JobOf(v)].state) => Active(jobs[JobOf(v)].state)
    BY Zenon, <1>0, <2>1, WriteOutcome
  <2>5. PICK m \in Message : stream[m].job = j /\ Carries(m)
    BY Zenon, <2>4 DEF CarryInv
  <2>6. CASE JobOf(v) = j /\ pc[v] = "fail" /\ pc'[v] = "release_nak"
    <3>1. Handling(v) /\ msg[v] \in Message
      BY Zenon, <1>0, <2>6 DEF Handling, Away, Exited, BaseInv, ControlInv
    <3>2. stream[msg[v]].status = "pending" /\ stream[msg[v]].job = j
      BY Zenon, <1>0, <2>6, <3>1 DEF DeliveryInv, JobOf
    <3>3. \A w \in Worker : msg[w] = msg[v] => ~Spent(w)'
      <4> SUFFICES ASSUME NEW w \in Worker, msg[w] = msg[v], Spent(w)' PROVE FALSE
        OBVIOUS
      <4>1. w # v
        BY Zenon, <2>6 DEF Spent
      <4>2. Handling(w)
        BY Zenon, <2>4, <4>1 DEF Spent, Handling, Away, Exited
      <4> QED BY Zenon, <1>0, <3>1, <4>1, <4>2 DEF DeliveryInv
    <3> QED BY Zenon, <2>2, <3>1, <3>2, <3>3 DEF Carries
  <2>7. CASE ~(JobOf(v) = j /\ pc[v] = "fail" /\ pc'[v] = "release_nak")
    <3>1. ASSUME NEW w \in Worker, msg[w] = m, Spent(w)' PROVE Spent(w)
      <4>1. JobOf(w) = j
        BY Zenon, <2>5, <3>1 DEF JobOf
      <4> QED BY ZenonT(30), <1>0, <2>1, <2>7, <3>1, <4>1, WriteSpends
    <3> QED BY Zenon, <2>2, <2>3, <2>5, <3>1 DEF Carries
  <2> QED BY Zenon, <2>6, <2>7
<1>2. CASE ~ \E v \in Worker : RecordStarted(v) \/ RecordCompleted(v) \/ RecordFailure(v)
  <2>1. jobs' = jobs
    <3>1. CASE \E w \in Worker : IncrToken(w)
      BY ZenonT(30), <3>1 DEF IncrToken, repoVars
    <3> QED BY Zenon, <1>0, <1>2, <3>1, QuietStep
  <2>2. PICK m \in Message : stream[m].job = j /\ Carries(m)
    BY Zenon, <2>1 DEF CarryInv
  <2>3. \A w \in Worker : msg'[w] = m /\ Spent(w)' => Spent(w) /\ msg[w] = m
    BY ZenonT(30), <1>0, <1>2, <1>b, <2>1, <2>2, QuietSpends
  <2>4. ASSUME stream'[m].status = "pending" PROVE Carries(m)'
    <3> SUFFICES ASSUME NEW w \in Worker, msg'[w] = m, Spent(w)' PROVE FALSE
      BY Zenon, <2>4 DEF Carries
    <3>1. Spent(w) /\ msg[w] = m /\ stream[m].status = "pending"
      BY Zenon, <1>0, <1>a, <2>3 DEF DeliveryInv
    <3> QED BY Zenon, <2>2, <3>1 DEF Carries
  <2>5. ASSUME stream'[m] = stream[m], advisories \subseteq advisories' PROVE Carries(m)'
    BY Zenon, <2>2, <2>4, <2>5 DEF Carries
  <2>6. ASSUME stream[m].status = "pending",
               \/ Moved(m, "ready") /\ advisories' = advisories
               \/ Moved(m, "exhausted") /\ advisories' = advisories \union {m}
        PROVE  Carries(m)'
    <3>1. \A l \in Listener : lpc[l] # "idle" => adv[l] # m
      BY Zenon, <1>0, <2>6 DEF QuarantineInv, DeliveryInv
    <3> QED BY Zenon, <2>6, <3>1 DEF Carries, Moved
  <2>7. ASSUME NEW w \in Worker, Handling(w),
               give_back(msg[w]) \/ (pc[w] \in {"ack", "term"} /\ settle(msg[w]))
        PROVE  Carries(m)'
    <3>1. msg[w] \in Message /\ stream[msg[w]].status = "pending"
      BY Zenon, <1>0, <2>7 DEF DeliveryInv, Handling, BaseInv, ControlInv
    <3>2. CASE give_back(msg[w])
      <4>1. \/ Moved(msg[w], "ready") /\ advisories' = advisories
            \/ Moved(msg[w], "exhausted") /\ advisories' = advisories \union {msg[w]}
        BY Zenon, <1>0, <3>1, <3>2, MessageMoves
      <4> QED BY Zenon, <2>5, <2>6, <3>1, <4>1 DEF Moved
    <3>3. CASE pc[w] \in {"ack", "term"} /\ settle(msg[w])
      <4>1. Moved(msg[w], "gone") /\ advisories' = advisories
        BY Zenon, <1>0, <3>1, <3>3, MessageMoves
      <4>2. msg[w] # m
        BY Zenon, <2>2, <3>1, <3>3 DEF Carries, Spent
      <4> QED BY Zenon, <2>5, <4>1, <4>2 DEF Moved
    <3> QED BY Zenon, <2>7, <3>2, <3>3
  <2>8. ASSUME NEW n \in Message, stream[n].status = "pending", give_back(n) PROVE Carries(m)'
    <3>1. \/ Moved(n, "ready") /\ advisories' = advisories
          \/ Moved(n, "exhausted") /\ advisories' = advisories \union {n}
      BY Zenon, <1>0, <2>8, MessageMoves
    <3> QED BY Zenon, <2>5, <2>6, <2>8, <3>1 DEF Moved
  <2>9. ASSUME NEW n \in Message, deliver(n) PROVE Carries(m)'
    <3>1. Moved(n, "pending") /\ advisories' = advisories
      BY Zenon, <1>0, <2>9, MessageMoves
    <3> QED BY Zenon, <2>4, <2>5, <3>1 DEF Moved
  <2>10. Carries(m)'
    BY ZenonT(30), <1>0, <2>5, <2>7, <2>8, <2>9, FleetMoves
  <2> QED BY Zenon, <1>b, <2>2, <2>10
<1> QED BY Zenon, <1>1, <1>2

\* A message keeps carrying its job through a step that moves neither the message,
\* a worker nor the job's row, and starts no deletion of it.
LEMMA CarriesOn ==
    ASSUME NEW m \in Message, Carries(m), stream'[m] = stream[m], UNCHANGED <<advisories, pc, msg>>,
           jobs'[stream[m].job].state = jobs[stream[m].job].state,
           \A l \in Listener : lpc'[l] = "delete" /\ adv'[l] = m => lpc[l] = "delete" /\ adv[l] = m
    PROVE  Carries(m)'
<1>1. \A w \in Worker : msg[w] = m => (Spent(w)' <=> Spent(w))
  BY Zenon DEF Spent, JobOf
<1> QED BY Zenon, <1>1 DEF Carries

\* Every step of the platform leaves every active job carried.
LEMMA NextCarry ==
    ASSUME Punctual, IInv, ListenInv, NotLostInv, CarryInv, [DNext]_allVars
    PROVE  CarryInv'
<1>0. /\ BaseInv /\ RepoTypeOK /\ DeliveryInv /\ QuarantineInv
      /\ stream \in [Message -> [job : Job, num_delivered : Nat, status : Status]]
      /\ lpc \in [Listener -> LPC] /\ adv \in [Listener -> Message \union {NoMsg}]
      /\ outbox \in [Job -> Nat]
  BY Zenon DEF NotLostInv, IInv, BaseInv, TypeOK, ListenInv, ListenerTypeOK
<1>1. ASSUME Next \/ UNCHANGED vars, UNCHANGED dlqVars PROVE CarryInv'
  BY ZenonT(30), <1>1, FleetCarries DEF dlqVars
<1>2. ASSUME NEW l \in Listener,
             \/ \E m \in Message : FetchAdvisory(l, m)
             \/ GetMsg(l) \/ CopyMsg(l) \/ AckAdvisory(l) \/ QuarantineRaises(l) \/ ListenerCrash(l)
      PROVE  CarryInv'
  <2>1. /\ UNCHANGED vars /\ outbox' = outbox
        /\ \E label \in LPC \ {"delete"} : lpc' = [lpc EXCEPT ![l] = label]
        /\ adv' = adv \/ \E a : adv' = [adv EXCEPT ![l] = a]
    BY Zenon, <1>2 DEF FetchAdvisory, GetMsg, CopyMsg, AckAdvisory, QuarantineRaises,
       ListenerCrash,
       LGoto, LPC, Quarantining
  <2>2. UNCHANGED <<jobs, stream, advisories, pc, msg>>
    BY Zenon, <2>1 DEF vars
  <2>3. \A k \in Listener : lpc'[k] = "delete" => lpc[k] = "delete" /\ adv'[k] = adv[k]
    BY Zenon, <1>0, <2>1
  <2>4. \A m \in Message : Carries(m) => Carries(m)'
    BY Zenon, <2>2, <2>3, CarriesOn
  <2> QED BY Zenon, <2>1, <2>2, <2>4 DEF CarryInv
<1>3. ASSUME NEW l \in Listener, RecordDeadLettered(l) PROVE CarryInv'
  <2>1. adv[l] \in Message
    BY Zenon, <1>3 DEF RecordDeadLettered, ListenInv
  <2>2. PICK j \in Job : j = stream[adv[l]].job
    BY Zenon, <1>0, <2>1
  <2>3. /\ record_event(j, "dead_lettered", stream[adv[l]].num_delivered, NoToken)
        /\ lpc' = [lpc EXCEPT ![l] = "delete"]
        /\ UNCHANGED <<stream, advisories, pc, msg, adv, outbox>>
    BY Zenon, <1>3, <2>2 DEF RecordDeadLettered, LGoto, brokerVars, localVars
  <2>4. stream[adv[l]].num_delivered \in Nat /\ "dead_lettered" \in PlainEvent
    BY Zenon, <1>0, <2>1 DEF PlainEvent
  <2>5. jobs[j].state \in JobState /\ jobs[j].fence_token \in Nat
    BY Zenon, <1>0 DEF RepoTypeOK, JobRow
  <2>6. ~Active(jobs'[j].state) /\ \A i \in Job \ {j} : jobs'[i] = jobs[i]
    <3>1. CASE Verdict(j, "dead_lettered", NoToken) = "ok"
      <4>1. /\ jobs'[j].state = apply(jobs[j].state, "dead_lettered")
            /\ apply(jobs[j].state, "dead_lettered") # IllegalTransition
            /\ \A i \in Job \ {j} : jobs'[i] = jobs[i]
        BY ZenonT(30), <1>0, <2>3, <2>4, <3>1, PlainCommit
      <4> QED BY Zenon, <2>5, <4>1, ApplyPlainEvents DEF Active
    <3>2. CASE Verdict(j, "dead_lettered", NoToken) # "ok"
      <4>1. jobs' = jobs
        BY ZenonT(30), <2>3, <3>2, Rollback
      <4>2. apply(jobs[j].state, "dead_lettered") = IllegalTransition
        BY <2>5, <3>2 DEF Verdict, EffectiveToken
      <4> QED BY Zenon, <2>5, <4>1, <4>2, ApplyPlainEvents DEF Active, IllegalTransition
    <3> QED BY Zenon, <3>1, <3>2
  <2>7. \A m \in Message : stream[m].job # j /\ Carries(m) => Carries(m)'
    <3> SUFFICES ASSUME NEW m \in Message, stream[m].job # j, Carries(m) PROVE Carries(m)'
      OBVIOUS
    <3>1. stream[m].job \in Job \ {j} /\ m # adv[l]
      BY Zenon, <1>0, <2>2
    <3>2. \A k \in Listener : lpc'[k] = "delete" /\ adv'[k] = m => lpc[k] = "delete" /\ adv[k] = m
      BY Zenon, <1>0, <2>3, <3>1
    <3> QED BY Zenon, <2>3, <2>6, <3>1, <3>2, CarriesOn
  <2> QED BY Zenon, <2>3, <2>6, <2>7 DEF CarryInv
<1>4. ASSUME NEW l \in Listener, DeleteMsg(l) PROVE CarryInv'
  <2>1. /\ lpc[l] = "delete" /\ adv[l] \in Message /\ settle(adv[l])
        /\ lpc' = [lpc EXCEPT ![l] = "ack"] /\ UNCHANGED <<jobs, pc, msg, adv, outbox>>
    BY Zenon, <1>4 DEF DeleteMsg, LGoto, ListenInv, repoVars, localVars
  <2>2. Moved(adv[l], "gone") /\ advisories' = advisories
    BY Zenon, <1>0, <2>1, MessageMoves
  <2>3. stream[adv[l]].status \in {"exhausted", "gone"}
    BY Zenon, <1>0, <2>1 DEF QuarantineInv, DeliveryInv
  <2>4. \A m \in Message : Carries(m) => Carries(m)'
    <3> SUFFICES ASSUME NEW m \in Message, Carries(m) PROVE Carries(m)'
      OBVIOUS
    <3>1. m # adv[l]
      BY Zenon, <2>1, <2>3 DEF Carries
    <3>2. \A k \in Listener : lpc'[k] = "delete" => lpc[k] = "delete"
      BY Zenon, <1>0, <2>1
    <3> QED BY Zenon, <2>1, <2>2, <3>1, <3>2, CarriesOn DEF Moved
  <2> QED BY Zenon, <2>1, <2>2, <2>4 DEF CarryInv, Moved
<1>5. ASSUME NEW j \in Job, replay_job(j) PROVE CarryInv'
  <2>1. /\ record_event(j, "replayed", 0, NoToken) /\ Verdict(j, "replayed", NoToken) = "ok"
        /\ UNCHANGED <<stream, advisories, pc, msg, lpc, adv>>
        /\ outbox' = [outbox EXCEPT ![j] = @ + 1]
    BY Zenon, <1>5 DEF replay_job, brokerVars, localVars
  <2>2. \A i \in Job \ {j} : jobs'[i] = jobs[i]
    BY ZenonT(30), <1>0, <2>1, PlainCommit DEF PlainEvent
  <2>3. outbox'[j] > 0 /\ \A i \in Job \ {j} : outbox'[i] = outbox[i]
    BY <1>0, <2>1
  <2>4. \A m \in Message : stream[m].job # j /\ Carries(m) => Carries(m)'
    BY Zenon, <1>0, <2>1, <2>2, CarriesOn
  <2> QED BY Zenon, <2>1, <2>2, <2>3, <2>4 DEF CarryInv
<1>6. ASSUME NEW j \in Job, RelayReplay(j) PROVE CarryInv'
  <2>1. PICK m \in Message : stream[m].job = j /\ publish(m)
    BY Zenon, <1>6 DEF RelayReplay, Unsent
  <2>2. /\ UNCHANGED <<jobs, pc, msg, lpc, adv>>
        /\ outbox' = [outbox EXCEPT ![j] = @ - 1]
    BY Zenon, <1>6 DEF RelayReplay, repoVars, localVars
  <2>3. Moved(m, "ready") /\ stream[m].status = "unsent" /\ advisories' = advisories
    BY Zenon, <1>0, <2>1, MessageMoves
  <2>4. \A n \in Message : Carries(n) => Carries(n)'
    <3> SUFFICES ASSUME NEW n \in Message, Carries(n) PROVE Carries(n)'
      OBVIOUS
    <3>1. n # m
      BY Zenon, <2>3 DEF Carries
    <3> QED BY Zenon, <2>2, <2>3, <3>1, CarriesOn DEF Moved
  <2>5. stream'[m].job = j /\ Carries(m)'
    BY Zenon, <2>1, <2>3 DEF Moved, Carries
  <2>6. \A i \in Job \ {j} : outbox'[i] = outbox[i]
    BY Zenon, <1>0, <2>2
  <2> QED BY Zenon, <2>2, <2>3, <2>4, <2>5, <2>6 DEF CarryInv, Moved
<1>7. UNCHANGED allVars => UNCHANGED vars /\ UNCHANGED dlqVars
  BY Zenon DEF allVars
<1> QED BY Zenon, <1>1, <1>2, <1>3, <1>4, <1>5, <1>6, <1>7 DEF DNext, Listen

\* No job is lost in the whole platform (ADR-0006, Worker.handle, quarantine,
\* replay_job, relay_once): where workers keep to their leases and no call of the
\* quarantine raises, a queued or running job always has a message still to be
\* delivered, an advisory still to be handled or a replay still to be relayed,
\* whatever workers and listeners die or bounce.
THEOREM NoJobIsForgotten == Punctual /\ ~Flaky /\ DSpec => []NoJobForgotten
<1> SUFFICES ASSUME Punctual, ~Flaky PROVE DSpec => []NoJobForgotten
  OBVIOUS
<1>1. DInit => CarryInv
  BY DEF DInit, CarryInv, Carries
<1>2. IInv /\ ListenInv /\ NotLostInv /\ CarryInv /\ [DNext]_allVars => CarryInv'
  BY Zenon, NextCarry
<1>3. NotLostInv /\ CarryInv => NoJobForgotten
  BY Zenon DEF NotLostInv, QuarantineInv, CarryInv, Carries, Active, NoJobForgotten
<1> QED BY <1>1, <1>2, <1>3, SpecNotLost, PTL DEF DSpec
==============================================================================
