------------------------- MODULE WorkerFleetPunctual -------------------------
(***************************************************************************)
(* The theorems about workers that meet their deadlines, as a fleet and    *)
(* with the dead-letter listener and the operator around it, for any sets  *)
(* of workers, listeners, jobs and messages and any MaxDeliver.            *)
(***************************************************************************)
EXTENDS QuarantineProofs

\* Control points between taking the claim and giving it back.  An exception that
\* nobody catches takes the claim along.
Claiming == {"incr", "acquire", "start", "execute", "complete", "mark_done", "unclaim", "fail",
             "release_nak", "release_term", "unwind"}

\* Control points of a worker that still has a write to make under its token, and
\* of one that gives its message up.
Holding == {"acquire", "start"} \union Executing
Terming == {"release_term", "term"}

\* The claim is there for as long as it is needed, and no longer.
ClaimInv ==
    /\ \A w \in Worker : pc[w] \in Claiming => claim[JobOf(w)] = Delivery(w)
    /\ \A j \in Job, w \in Worker :
          claim[j] # Absent /\ claim[j][1] = w /\ pc[w] # "dead" => pc[w] \in Claiming /\ JobOf(w) = j

\* No other worker writes the row in the meantime: the holder's token is never
\* overtaken.
HolderTokens == \A w \in Worker : pc[w] \in Holding => jobs[JobOf(w)].fence_token <= token[w]

GuardInv == ClaimInv /\ HolderTokens

\* Where there is no listener, nobody else writes the row at all.
HolderInv == \A w \in Worker : pc[w] \in Executing => jobs[JobOf(w)].state = "running"

\* A message is given up only for a job that has finished.
CarriedInv ==
    /\ \A j \in Job : jobs[j].state \in {"queued", "running", "succeeded", "failed"}
    /\ \A w \in Worker : pc[w] \in {"release_term", "term"} => is_terminal(jobs[JobOf(w)].state)
    /\ \A j \in Job : \E m \in Message : stream[m].job = j
    /\ \A m \in Message :
          /\ stream[m].status # "unsent"
          /\ stream[m].status = "gone" => is_terminal(jobs[stream[m].job].state)
          /\ stream[m].status = "exhausted" => m \in advisories

PunctualInv == GuardInv /\ HolderInv /\ CarriedInv

\* A write by a token the row does not outrank is judged by the transition alone.
LEMMA Unfenced ==
    ASSUME RepoTypeOK, NEW j \in Job, NEW e \in WorkerEvent, NEW a \in Nat, NEW t \in Nat \ {0},
           jobs[j].fence_token <= t, record_event(j, e, a, t)
    PROVE  /\ \A i \in Job \ {j} : jobs'[i] = jobs[i]
           /\ \/ /\ apply(jobs[j].state, e) = IllegalTransition
                 /\ Verdict(j, e, t) = IllegalTransition /\ jobs' = jobs
              \/ /\ apply(jobs[j].state, e) # IllegalTransition
                 /\ Verdict(j, e, t) = "ok"
                 /\ jobs'[j].state = apply(jobs[j].state, e) /\ jobs'[j].fence_token = t
<1>0. jobs[j].fence_token \in Nat
  BY Zenon DEF RepoTypeOK, JobRow
<1>1. CASE apply(jobs[j].state, e) = IllegalTransition
  <2>1. Verdict(j, e, t) = IllegalTransition
    BY Zenon, <1>1 DEF Verdict
  <2>2. jobs' = jobs
    BY Zenon, <2>1, Rollback DEF IllegalTransition
  <2> QED BY Zenon, <1>1, <2>1, <2>2
<1>2. CASE apply(jobs[j].state, e) # IllegalTransition
  <2>1. Verdict(j, e, t) = "ok"
    BY <1>0, <1>2 DEF Verdict, EffectiveToken, NoToken
  <2>2. jobs' = [jobs EXCEPT ![j] = UpdatedRow(j, e, a, t)]
    BY Zenon, <2>1 DEF record_event
  <2>3. /\ jobs'[j] = UpdatedRow(j, e, a, t)
        /\ \A i \in Job \ {j} : jobs'[i] = jobs[i]
    BY Zenon, <2>2 DEF RepoTypeOK
  <2>4. jobs'[j].fence_token = t /\ jobs'[j].state = apply(jobs[j].state, e)
    BY <2>3 DEF UpdatedRow, EffectiveToken, NoToken
  <2> QED BY Zenon, <1>2, <2>1, <2>3, <2>4
<1> QED BY Zenon, <1>1, <1>2

\* What a write of a worker that holds the claim can come to: it is never stale, and
\* the exception nobody catches takes a row that is not RUNNING.
LEMMA GuardedWrite ==
    ASSUME BaseInv, HolderTokens, NEW w \in Worker,
           RecordStarted(w) \/ RecordCompleted(w) \/ RecordFailure(w)
    PROVE  /\ pc[w] \in {"start", "complete", "fail"} /\ JobOf(w) \in Job
           /\ UNCHANGED <<stream, advisories, msg, attempt, token, claim>>
           /\ \A i \in Job \ {JobOf(w)} : jobs'[i] = jobs[i]
           /\ \E l \in {"execute", "mark_done", "release_nak", "release_term", "unwind"} :
                 /\ pc' = [pc EXCEPT ![w] = l]
                 /\ l = "execute" => /\ jobs'[JobOf(w)].fence_token = token[w]
                                     /\ jobs'[JobOf(w)].state = "running"
                 /\ l = "unwind" => pc[w] = "fail" /\ jobs[JobOf(w)].state # "running"
<1> DEFINE j == JobOf(w)
<1>0. /\ pc[w] \in {"start", "complete", "fail"}
      /\ UNCHANGED <<stream, msg, attempt, token, claim>>
  BY Zenon, WriteStep
<1>1. /\ j \in Job /\ attempt[w] \in Nat /\ token[w] \in Nat \ {0} /\ RepoTypeOK
  BY Zenon, <1>0, JobOfType DEF BaseInv, TypeOK, ControlInv, NoToken, Leased, Away, Exited
<1>2. jobs[j].fence_token <= token[w] /\ jobs[j].state \in JobState
  BY Zenon, <1>0, <1>1 DEF HolderTokens, Holding, Executing, RepoTypeOK, JobRow
<1>3. advisories' = advisories
  BY Zenon DEF RecordStarted, RecordCompleted, RecordFailure, brokerVars
<1> HIDE DEF j
<1>4. ASSUME NEW e \in WorkerEvent, record_event(j, e, attempt[w], token[w])
      PROVE  /\ \A i \in Job \ {j} : jobs'[i] = jobs[i]
             /\ \/ /\ apply(jobs[j].state, e) = IllegalTransition
                   /\ Verdict(j, e, token[w]) = IllegalTransition
                \/ /\ Verdict(j, e, token[w]) = "ok" /\ apply(jobs[j].state, e) # IllegalTransition
                   /\ jobs'[j].state = apply(jobs[j].state, e) /\ jobs'[j].fence_token = token[w]
  <2>1. /\ \A i \in Job \ {j} : jobs'[i] = jobs[i]
        /\ \/ /\ apply(jobs[j].state, e) = IllegalTransition
              /\ Verdict(j, e, token[w]) = IllegalTransition /\ jobs' = jobs
           \/ /\ apply(jobs[j].state, e) # IllegalTransition
              /\ Verdict(j, e, token[w]) = "ok"
              /\ jobs'[j].state = apply(jobs[j].state, e) /\ jobs'[j].fence_token = token[w]
    BY Zenon, <1>1, <1>2, <1>4, Unfenced
  <2> QED BY Zenon, <2>1
<1>5. CASE RecordStarted(w)
  <2>1. record_event(j, "started", attempt[w], token[w]) /\ AfterWrite(w, "started", "execute")
    BY Zenon, <1>5 DEF RecordStarted, j
  <2>2. \A i \in Job \ {j} : jobs'[i] = jobs[i]
    BY Zenon, <1>4, <2>1 DEF WorkerEvent
  <2>3. CASE Verdict(j, "started", token[w]) = IllegalTransition
    <3>1. Goto(w, "release_term")
      BY ZenonT(30), <2>1, <2>3 DEF AfterWrite, IllegalTransition, j
    <3> QED BY Zenon, <1>0, <1>1, <1>3, <2>2, <3>1 DEF Goto, j
  <2>4. CASE Verdict(j, "started", token[w]) = "ok"
    <3>1. /\ apply(jobs[j].state, "started") # IllegalTransition
          /\ jobs'[j].state = apply(jobs[j].state, "started") /\ jobs'[j].fence_token = token[w]
      BY Zenon, <1>4, <2>1, <2>4 DEF WorkerEvent, IllegalTransition
    <3>2. jobs'[j].state = "running"
      BY Zenon, <1>2, <3>1, ApplyWorkerEvents
    <3>3. Goto(w, "execute")
      BY Zenon, <2>1, <2>4, AfterWriteLabel DEF j
    <3> QED BY Zenon, <1>0, <1>1, <1>3, <2>2, <3>1, <3>2, <3>3 DEF Goto, j
  <2> QED BY Zenon, <1>4, <2>1, <2>3, <2>4 DEF WorkerEvent
<1>6. CASE RecordCompleted(w)
  <2>1. record_event(j, "completed", attempt[w], token[w]) /\ AfterWrite(w, "completed", "mark_done")
    BY Zenon, <1>6 DEF RecordCompleted, j
  <2>2. \A i \in Job \ {j} : jobs'[i] = jobs[i]
    BY Zenon, <1>4, <2>1 DEF WorkerEvent
  <2>3. CASE Verdict(j, "completed", token[w]) = IllegalTransition
    <3>1. Goto(w, "release_term")
      BY ZenonT(30), <2>1, <2>3 DEF AfterWrite, IllegalTransition, j
    <3> QED BY Zenon, <1>0, <1>1, <1>3, <2>2, <3>1 DEF Goto, j
  <2>4. CASE Verdict(j, "completed", token[w]) = "ok"
    <3>1. Goto(w, "mark_done")
      BY Zenon, <2>1, <2>4, AfterWriteLabel DEF j
    <3> QED BY Zenon, <1>0, <1>1, <1>3, <2>2, <3>1 DEF Goto, j
  <2> QED BY Zenon, <1>4, <2>1, <2>3, <2>4 DEF WorkerEvent
<1>7. CASE RecordFailure(w)
  <2>1. PICK e \in {"requeued", "failed"} :
           /\ record_event(j, e, attempt[w], token[w]) /\ pc[w] = "fail"
           /\ Goto(w, IF Verdict(j, e, token[w]) # "ok" THEN "unwind"
                      ELSE IF e = "requeued" THEN "release_nak" ELSE "release_term")
    <3>1. CASE attempt[w] < MaxDeliver
      BY Zenon, <1>7, <3>1 DEF RecordFailure, j
    <3>2. CASE ~(attempt[w] < MaxDeliver)
      BY Zenon, <1>7, <3>2 DEF RecordFailure, j
    <3> QED BY ZenonT(30), <3>1, <3>2
  <2>2. e \in WorkerEvent
    BY Zenon DEF WorkerEvent
  <2>3. \A i \in Job \ {j} : jobs'[i] = jobs[i]
    BY Zenon, <1>4, <2>1, <2>2
  <2>4. CASE Verdict(j, e, token[w]) # "ok"
    <3>1. apply(jobs[j].state, e) = IllegalTransition
      BY Zenon, <1>4, <2>1, <2>2, <2>4
    <3>2. jobs[j].state # "running"
      BY Zenon, <1>2, <3>1, ApplyWorkerEvents DEF IllegalTransition
    <3>3. Goto(w, "unwind")
      BY Zenon, <2>1, <2>4
    <3> QED BY Zenon, <1>0, <1>1, <1>3, <2>1, <2>3, <3>2, <3>3 DEF Goto, j
  <2>5. CASE Verdict(j, e, token[w]) = "ok"
    <3>1. Goto(w, "release_nak") \/ Goto(w, "release_term")
      BY Zenon, <2>1, <2>5
    <3> QED BY Zenon, <1>0, <1>1, <1>3, <2>3, <3>1 DEF Goto, j
  <2> QED BY Zenon, <2>4, <2>5
<1> QED BY Zenon, <1>5, <1>6, <1>7

\* What the holder's write does: to the row of its job, and to the handler.
LEMMA HolderWrite ==
    ASSUME BaseInv, PunctualInv, NEW w \in Worker,
           RecordStarted(w) \/ RecordCompleted(w) \/ RecordFailure(w)
    PROVE  /\ pc[w] \in {"start", "complete", "fail"} /\ JobOf(w) \in Job
           /\ UNCHANGED <<stream, advisories, msg, attempt, token, claim>>
           /\ \A i \in Job \ {JobOf(w)} : jobs'[i] = jobs[i]
           /\ \/ Goto(w, "release_term") /\ jobs' = jobs /\ is_terminal(jobs[JobOf(w)].state)
              \/ /\ ~is_terminal(jobs[JobOf(w)].state)
                 /\ jobs'[JobOf(w)].fence_token = token[w]
                 /\ \/ Goto(w, "execute") /\ jobs'[JobOf(w)].state = "running"
                    \/ Goto(w, "mark_done") /\ jobs'[JobOf(w)].state = "succeeded"
                    \/ Goto(w, "release_nak") /\ jobs'[JobOf(w)].state = "queued"
                    \/ Goto(w, "release_term") /\ jobs'[JobOf(w)].state = "failed"
<1> DEFINE j == JobOf(w)
<1>0. /\ pc[w] \in {"start", "complete", "fail"}
      /\ UNCHANGED <<stream, msg, attempt, token, claim>>
  BY Zenon, WriteStep
<1>1. /\ j \in Job /\ attempt[w] \in Nat /\ token[w] \in Nat \ {0} /\ RepoTypeOK
  BY Zenon, <1>0, JobOfType DEF BaseInv, TypeOK, ControlInv, NoToken, Leased, Away, Exited
<1>2. /\ jobs[j].fence_token <= token[w]
      /\ jobs[j].state \in {"queued", "running", "succeeded", "failed"}
      /\ pc[w] \in {"complete", "fail"} => jobs[j].state = "running"
  BY Zenon, <1>0, <1>1 DEF PunctualInv, GuardInv, HolderTokens, HolderInv, CarriedInv,
     Holding, Executing
<1>3. advisories' = advisories
  BY Zenon DEF RecordStarted, RecordCompleted, RecordFailure, brokerVars
<1>4. /\ \A s : is_terminal(s) <=> s \in {"succeeded", "failed"}
      /\ jobs[j].state \in JobState /\ "running" \in JobState
  BY Zenon, <1>2 DEF is_terminal, TERMINAL_STATES, JobState
<1> HIDE DEF j
<1>5. CASE RecordStarted(w)
  <2>1. record_event(j, "started", attempt[w], token[w]) /\ AfterWrite(w, "started", "execute")
    BY Zenon, <1>5 DEF RecordStarted, j
  <2>2. apply(jobs[j].state, "started") =
           IF jobs[j].state \in {"queued", "running"} THEN "running" ELSE IllegalTransition
    BY Zenon, <1>4, ApplyWorkerEvents
  <2>3. CASE jobs[j].state \in {"queued", "running"}
    <3>1. apply(jobs[j].state, "started") = "running" /\ "running" # IllegalTransition
      BY Zenon, <2>2, <2>3 DEF IllegalTransition
    <3>2. /\ \A i \in Job \ {j} : jobs'[i] = jobs[i]
          /\ Verdict(j, "started", token[w]) = "ok"
          /\ jobs'[j].state = "running" /\ jobs'[j].fence_token = token[w]
      <4>1. "started" \in WorkerEvent /\ apply(jobs[j].state, "started") # IllegalTransition
        BY Zenon, <3>1 DEF WorkerEvent
      <4>2. /\ \A i \in Job \ {j} : jobs'[i] = jobs[i]
            /\ \/ /\ apply(jobs[j].state, "started") = IllegalTransition
                  /\ Verdict(j, "started", token[w]) = IllegalTransition /\ jobs' = jobs
               \/ /\ apply(jobs[j].state, "started") # IllegalTransition
                  /\ Verdict(j, "started", token[w]) = "ok"
                  /\ jobs'[j].state = apply(jobs[j].state, "started")
                  /\ jobs'[j].fence_token = token[w]
        BY Zenon, <1>1, <1>2, <2>1, <4>1, Unfenced
      <4> QED BY Zenon, <3>1, <4>1, <4>2
    <3>3. Goto(w, "execute")
      BY Zenon, <2>1, <3>2, AfterWriteLabel DEF j
    <3> QED BY Zenon, <1>0, <1>1, <1>3, <1>4, <2>3, <3>2, <3>3 DEF j
  <2>4. CASE jobs[j].state \in {"succeeded", "failed"}
    <3>1. apply(jobs[j].state, "started") = IllegalTransition
      BY Zenon, <2>2, <2>4
    <3>2. Verdict(j, "started", token[w]) = IllegalTransition /\ jobs' = jobs
      BY <1>1, <1>2, <2>1, <3>1, Unfenced DEF WorkerEvent
    <3>3. Goto(w, "release_term")
      BY ZenonT(30), <2>1, <3>2 DEF AfterWrite, IllegalTransition, j
    <3> QED BY Zenon, <1>0, <1>1, <1>3, <1>4, <2>4, <3>2, <3>3 DEF j
  <2> QED BY Zenon, <1>2, <2>3, <2>4
<1>6. CASE RecordCompleted(w)
  <2>1. /\ record_event(j, "completed", attempt[w], token[w])
        /\ AfterWrite(w, "completed", "mark_done") /\ pc[w] = "complete"
    BY Zenon, <1>6 DEF RecordCompleted, j
  <2>2. apply(jobs[j].state, "completed") = "succeeded" /\ "succeeded" # IllegalTransition
    BY Zenon, <1>2, <1>4, <2>1, ApplyWorkerEvents DEF IllegalTransition
  <2>3. /\ \A i \in Job \ {j} : jobs'[i] = jobs[i]
        /\ Verdict(j, "completed", token[w]) = "ok"
        /\ jobs'[j].state = "succeeded" /\ jobs'[j].fence_token = token[w]
    BY <1>1, <1>2, <2>1, <2>2, Unfenced DEF WorkerEvent
  <2>4. Goto(w, "mark_done")
    BY Zenon, <2>1, <2>3, AfterWriteLabel DEF j
  <2> QED BY ZenonT(30), <1>0, <1>1, <1>2, <1>3, <1>4, <2>1, <2>3, <2>4 DEF j
<1>7. CASE RecordFailure(w)
  <2>1. PICK e \in {"requeued", "failed"} :
           /\ record_event(j, e, attempt[w], token[w]) /\ pc[w] = "fail"
           /\ Verdict(j, e, token[w]) = "ok" =>
                 Goto(w, IF e = "requeued" THEN "release_nak" ELSE "release_term")
    <3>1. CASE attempt[w] < MaxDeliver
      BY Zenon, <1>7, <3>1 DEF RecordFailure, j
    <3>2. CASE ~(attempt[w] < MaxDeliver)
      BY Zenon, <1>7, <3>2 DEF RecordFailure, j
    <3> QED BY ZenonT(30), <3>1, <3>2
  <2>2. apply(jobs[j].state, e) = (IF e = "requeued" THEN "queued" ELSE "failed")
    BY Zenon, <1>2, <1>4, <2>1, ApplyWorkerEvents
  <2>3. apply(jobs[j].state, e) # IllegalTransition
    BY Zenon, <2>2 DEF IllegalTransition
  <2>4. /\ \A i \in Job \ {j} : jobs'[i] = jobs[i]
        /\ Verdict(j, e, token[w]) = "ok"
        /\ jobs'[j].state = apply(jobs[j].state, e) /\ jobs'[j].fence_token = token[w]
    BY <1>1, <1>2, <2>1, <2>3, Unfenced DEF WorkerEvent
  <2> QED BY ZenonT(30), <1>0, <1>1, <1>2, <1>3, <1>4, <2>1, <2>2, <2>4 DEF j
<1> QED BY Zenon, <1>5, <1>6, <1>7

\* A worker that keeps its claim and its delivery, holds none, or dies.
Calm(v) ==
    \/ /\ pc[v] \in Claiming /\ pc'[v] \in Claiming
       /\ msg'[v] = msg[v] /\ attempt'[v] = attempt[v]
    \/ /\ pc[v] \notin Claiming /\ pc'[v] \notin Claiming
       /\ pc[v] = "dead" => pc'[v] = "dead"
    \/ pc'[v] = "dead"

\* Claims stay where workers are calm and no claim changes.
LEMMA ClaimStays ==
    ASSUME BaseInv, ClaimInv, claim' = claim, \A v \in Worker : Calm(v),
           \A m \in Message : stream'[m].job = stream[m].job
    PROVE  ClaimInv'
<1>1. \A v \in Worker : pc[v] \in Claiming => msg[v] \in Message
  BY Zenon DEF BaseInv, ControlInv, Claiming, Away, Exited
<1>2. ASSUME NEW v \in Worker, pc[v] \in Claiming, pc'[v] \in Claiming
      PROVE  JobOf(v)' = JobOf(v) /\ Delivery(v)' = Delivery(v)
  <2>1. "dead" \notin Claiming
    BY Zenon DEF Claiming
  <2>2. msg'[v] = msg[v] /\ attempt'[v] = attempt[v]
    BY Zenon, <1>2, <2>1 DEF Calm
  <2> QED BY Zenon, <1>1, <1>2, <2>2 DEF JobOf, Delivery
<1>3. \A v \in Worker : pc'[v] \in Claiming => pc[v] \in Claiming
  BY Zenon DEF Calm, Claiming
<1>4. \A v \in Worker : pc'[v] # "dead" => pc[v] # "dead" /\ (pc[v] \in Claiming => pc'[v] \in Claiming)
  BY Zenon DEF Calm, Claiming
<1>5. ASSUME NEW w \in Worker, pc'[w] \in Claiming PROVE claim'[JobOf(w)'] = Delivery(w)'
  BY Zenon, <1>2, <1>3, <1>5 DEF ClaimInv
<1>6. ASSUME NEW j \in Job, NEW w \in Worker, claim'[j] # Absent, claim'[j][1] = w, pc'[w] # "dead"
      PROVE  pc'[w] \in Claiming /\ JobOf(w)' = j
  <2>1. pc[w] \in Claiming /\ JobOf(w) = j
    BY Zenon, <1>4, <1>6 DEF ClaimInv
  <2> QED BY Zenon, <1>2, <1>4, <1>6, <2>1
<1> QED BY Zenon, <1>5, <1>6 DEF ClaimInv

\* No two workers hold the claim of one job.
LEMMA OneHolder ==
    ASSUME ClaimInv, NEW v \in Worker, NEW w \in Worker,
           pc[v] \in Claiming, pc[w] \in Claiming, JobOf(v) = JobOf(w)
    PROVE  v = w
BY DEF ClaimInv, Delivery

\* Every step of a punctual fleet preserves ClaimInv.
LEMMA NextClaim ==
    ASSUME Punctual, BaseInv, GuardInv, [Next]_vars
    PROVE  ClaimInv'
<1>0. /\ pc \in [Worker -> PC] /\ msg \in [Worker -> Message \union {NoMsg}]
      /\ attempt \in [Worker -> Nat] /\ claim \in [Job -> {Absent} \union (Worker \X Nat)]
      /\ ClaimInv
      /\ \A w \in Worker : pc[w] \notin Away => msg[w] \in Message /\ JobOf(w) \in Job
      /\ \A w \in Worker : pc[w] \in Claiming => pc[w] \notin Away
  BY Zenon, JobOfType DEF BaseInv, TypeOK, GuardInv, Claiming, Away, Exited
<1>a. \A m \in Message : stream'[m].job = stream[m].job
  BY Zenon, Stable
<1>1. ASSUME NEW w \in Worker, RecordStarted(w) \/ RecordCompleted(w) \/ RecordFailure(w)
      PROVE  ClaimInv'
  <2>1. /\ pc[w] \in {"start", "complete", "fail"} /\ UNCHANGED <<msg, attempt, claim>>
        /\ \E l \in Claiming : pc' = [pc EXCEPT ![w] = l]
    BY Zenon, <1>1, GuardedWrite DEF GuardInv, Claiming
  <2>2. \A v \in Worker : Calm(v)
    BY Zenon, <1>0, <2>1 DEF Calm, Claiming
  <2> QED BY Zenon, <1>0, <1>a, <2>1, <2>2, ClaimStays
<1>2. ASSUME NEW w \in Worker,
             \/ BeginFetch(w) \/ FetchTimeout(w) \/ Stop(w) \/ GetDone(w)
             \/ IncrToken(w) \/ SetLease(w) \/ Execute(w) \/ SetDone(w)
      PROVE  ClaimInv'
  <2>1. /\ UNCHANGED <<msg, attempt, claim>>
        /\ \E l : /\ pc' = [pc EXCEPT ![w] = l] /\ pc[w] # "dead"
                  /\ l \in Claiming <=> pc[w] \in Claiming
    BY Zenon, <1>2 DEF BeginFetch, FetchTimeout, Stop, GetDone, IncrToken, SetLease,
       Execute, SetDone,
       Goto, Claiming, localVars, kvVars
  <2>2. PICK l : /\ pc' = [pc EXCEPT ![w] = l] /\ pc[w] # "dead"
                 /\ l \in Claiming <=> pc[w] \in Claiming
    BY Zenon, <2>1
  <2>3. \A v \in Worker : Calm(v)
    BY Zenon, <1>0, <2>1, <2>2 DEF Calm
  <2> QED BY Zenon, <1>0, <1>a, <2>1, <2>3, ClaimStays
<1>3. ASSUME NEW w \in Worker, NEW m \in Message, Fetch(w, m) PROVE ClaimInv'
  <2>1. /\ pc[w] = "fetching" /\ pc' = [pc EXCEPT ![w] = "received"] /\ claim' = claim
        /\ \A v \in Worker \ {w} : msg'[v] = msg[v] /\ attempt'[v] = attempt[v]
    BY Zenon, <1>0, <1>3 DEF Fetch, Goto, kvVars
  <2>2. \A v \in Worker : Calm(v)
    BY ZenonT(30), <1>0, <2>1 DEF Calm, Claiming
  <2> QED BY Zenon, <1>0, <1>a, <2>1, <2>2, ClaimStays
<1>4. ASSUME NEW w \in Worker, Poisoned(w) \/ Nak(w) \/ AckOrTerm(w) \/ ReleaseLease(w) \/ Die(w)
      PROVE  ClaimInv'
  <2>1. /\ claim' = claim
        /\ \/ Leave(w, "dead")
           \/ pc[w] \notin Claiming \union {"dead"} /\ Leave(w, "idle")
           \/ /\ pc[w] \notin Claiming \union {"dead"}
              /\ Goto(w, "unlock") /\ UNCHANGED <<msg, attempt>>
    BY Zenon, <1>0, <1>4 DEF Poisoned, Nak, AckOrTerm, AfterReply, ReleaseLease, Die,
       kvVars, localVars, Claiming
  <2>2. \A v \in Worker : Calm(v)
    BY <1>0, <2>1 DEF Leave, Goto, Calm, Claiming
  <2> QED BY Zenon, <1>0, <1>a, <2>1, <2>2, ClaimStays
<1>5. CASE \/ \E w \in Worker : request_shutdown(w)
           \/ \E m \in Message : AckWaitExpires(m)
           \/ \E j \in Job : LeaseExpires(j) \/ DoneExpires(j)
           \/ UNCHANGED vars
  <2>1. UNCHANGED <<pc, msg, attempt, claim>>
    BY Zenon, <1>5 DEF request_shutdown, AckWaitExpires, LeaseExpires, DoneExpires, vars,
       localVars, kvVars
  <2>2. \A v \in Worker : Calm(v)
    BY Zenon, <2>1 DEF Calm
  <2> QED BY Zenon, <1>0, <1>a, <2>1, <2>2, ClaimStays
<1>b. ASSUME UNCHANGED <<stream, msg, attempt>>, NEW v \in Worker
      PROVE  JobOf(v)' = JobOf(v) /\ Delivery(v)' = Delivery(v)
  BY Zenon, <1>b DEF JobOf, Delivery
<1>6. ASSUME NEW w \in Worker, SetClaim(w) PROVE ClaimInv'
  <2>1. /\ pc[w] = "claim" /\ UNCHANGED <<stream, msg, attempt>>
        /\ \/ /\ claim[JobOf(w)] = Absent /\ pc' = [pc EXCEPT ![w] = "incr"]
              /\ claim' = [claim EXCEPT ![JobOf(w)] = Delivery(w)]
           \/ pc' = [pc EXCEPT ![w] = "nak"] /\ claim' = claim
    BY ZenonT(30), <1>0, <1>6 DEF SetClaim, nx_reply, set_if_absent, Goto, brokerVars,
       localVars
  <2>2. CASE claim' = claim /\ pc' = [pc EXCEPT ![w] = "nak"]
    <3>1. \A v \in Worker : Calm(v)
      BY Zenon, <1>0, <2>1, <2>2 DEF Calm, Claiming
    <3> QED BY Zenon, <1>0, <1>a, <2>2, <3>1, ClaimStays
  <2>3. CASE /\ claim[JobOf(w)] = Absent /\ pc' = [pc EXCEPT ![w] = "incr"]
             /\ claim' = [claim EXCEPT ![JobOf(w)] = Delivery(w)]
    <3>1. /\ JobOf(w) \in Job /\ pc[w] \notin Claiming /\ "incr" \in Claiming
          /\ Delivery(w) # Absent /\ Delivery(w)[1] = w
      BY ZenonT(30), <1>0, <2>1 DEF Claiming, Away, Exited, Delivery, Absent
    <3>2. \A v \in Worker : pc[v] \in Claiming => JobOf(v) # JobOf(w)
      <4> SUFFICES ASSUME NEW v \in Worker, pc[v] \in Claiming, JobOf(v) = JobOf(w) PROVE FALSE
        OBVIOUS
      <4>1. Delivery(v) = Absent
        BY Zenon, <1>0, <2>3 DEF ClaimInv
      <4> QED BY Zenon, <4>1 DEF Delivery, Absent
    <3>3. ASSUME NEW v \in Worker, pc'[v] \in Claiming PROVE claim'[JobOf(v)'] = Delivery(v)'
      <4>1. CASE v = w
        BY Zenon, <1>0, <1>b, <2>1, <2>3, <3>1, <4>1
      <4>2. CASE v # w
        <5>1. pc[v] \in Claiming /\ JobOf(v) \in Job /\ JobOf(v) # JobOf(w)
          BY Zenon, <1>0, <2>3, <3>2, <3>3, <4>2
        <5> QED BY Zenon, <1>0, <1>b, <2>1, <2>3, <5>1 DEF ClaimInv
      <4> QED BY Zenon, <4>1, <4>2
    <3>4. ASSUME NEW j \in Job, NEW v \in Worker, claim'[j] # Absent, claim'[j][1] = v, pc'[v] # "dead"
          PROVE  pc'[v] \in Claiming /\ JobOf(v)' = j
      <4>1. CASE j = JobOf(w)
        BY Zenon, <1>0, <1>b, <2>1, <2>3, <3>1, <3>4, <4>1
      <4>2. CASE j # JobOf(w)
        <5>1. claim[j] # Absent /\ claim[j][1] = v
          BY Zenon, <1>0, <2>3, <3>4, <4>2
        <5>2. v # w
          BY Zenon, <1>0, <2>1, <3>1, <5>1 DEF ClaimInv
        <5>3. pc'[v] = pc[v] /\ pc[v] \in Claiming /\ JobOf(v) = j
          BY Zenon, <1>0, <2>3, <3>4, <5>1, <5>2 DEF ClaimInv
        <5> QED BY Zenon, <1>b, <2>1, <5>3
      <4> QED BY Zenon, <4>1, <4>2
    <3> QED BY Zenon, <3>3, <3>4 DEF ClaimInv
  <2> QED BY Zenon, <2>1, <2>2, <2>3
<1>7. ASSUME NEW w \in Worker, DropClaim(w) \/ release_claim(w) PROVE ClaimInv'
  <2>1. /\ pc[w] \in Claiming /\ UNCHANGED <<stream, msg, attempt>>
        /\ \E l \in {"ack", "nak", "term"} : pc' = [pc EXCEPT ![w] = l]
        /\ claim' = [claim EXCEPT ![JobOf(w)] = compare_and_delete(@, Delivery(w))]
    BY Zenon, <1>7 DEF DropClaim, release_claim, Goto, Claiming, brokerVars, localVars
  <2>2. /\ JobOf(w) \in Job /\ claim' = [claim EXCEPT ![JobOf(w)] = Absent]
    BY ZenonT(30), <1>0, <2>1 DEF ClaimInv, compare_and_delete
  <2>3. /\ pc'[w] \notin Claiming
        /\ \A v \in Worker \ {w} : pc'[v] = pc[v]
    BY Zenon, <1>0, <2>1 DEF Claiming
  <2>4. ASSUME NEW v \in Worker, pc'[v] \in Claiming PROVE claim'[JobOf(v)'] = Delivery(v)'
    <3>1. v # w /\ pc[v] \in Claiming /\ JobOf(v) \in Job
      BY Zenon, <1>0, <2>3, <2>4
    <3>2. JobOf(v) # JobOf(w)
      BY Zenon, <1>0, <2>1, <3>1, OneHolder
    <3> QED BY <1>0, <1>b, <2>1, <2>2, <3>1, <3>2 DEF ClaimInv
  <2>5. ASSUME NEW j \in Job, NEW v \in Worker, claim'[j] # Absent, claim'[j][1] = v, pc'[v] # "dead"
        PROVE  pc'[v] \in Claiming /\ JobOf(v)' = j
    <3>1. j # JobOf(w) /\ claim'[j] = claim[j]
      BY Zenon, <1>0, <2>2, <2>5
    <3>2. v # w
      BY Zenon, <1>0, <2>1, <2>5, <3>1 DEF ClaimInv, Claiming
    <3> QED BY <1>0, <1>b, <2>1, <2>3, <2>5, <3>1, <3>2 DEF ClaimInv
  <2> QED BY Zenon, <2>4, <2>5 DEF ClaimInv
<1>8. ASSUME NEW j \in Job, ClaimExpires(j) PROVE ClaimInv'
  <2>1. /\ claim' = [claim EXCEPT ![j] = Absent] /\ UNCHANGED <<stream, pc, msg, attempt>>
        /\ ~ClaimInUse(j)
    BY Zenon, <1>8 DEF ClaimExpires, brokerVars, localVars
  <2>2. ASSUME NEW v \in Worker, pc[v] \in Claiming PROVE JobOf(v) # j /\ JobOf(v) \in Job
    <3>1. msg[v] \in Message /\ msg[v] # NoMsg /\ JobOf(v) \in Job /\ claim[JobOf(v)] = Delivery(v)
      BY Zenon, <1>0, <2>2, BrokerAssumption DEF ClaimInv, NoMsg
    <3> QED BY Zenon, <2>1, <3>1 DEF ClaimInUse
  <2>3. ASSUME NEW v \in Worker, pc'[v] \in Claiming PROVE claim'[JobOf(v)'] = Delivery(v)'
    BY Zenon, <1>0, <1>b, <2>1, <2>2, <2>3 DEF ClaimInv
  <2>4. ASSUME NEW i \in Job, NEW v \in Worker, claim'[i] # Absent, claim'[i][1] = v, pc'[v] # "dead"
        PROVE  pc'[v] \in Claiming /\ JobOf(v)' = i
    <3>1. claim'[i] = claim[i]
      BY Zenon, <1>0, <2>1, <2>4
    <3> QED BY Zenon, <1>0, <1>b, <2>1, <2>4, <3>1 DEF ClaimInv
  <2> QED BY Zenon, <2>3, <2>4 DEF ClaimInv
<1> QED BY ZenonT(30), <1>1, <1>2, <1>3, <1>4, <1>5, <1>6, <1>7, <1>8 DEF Next, Run

\* A step without a write leads no worker to these points that was not at one
\* already, with the same delivery and the same lease.
LEMMA QuietHolder ==
    ASSUME BaseInv, [Next]_vars,
           ~ \E w \in Worker : \/ IncrToken(w) \/ RecordStarted(w)
                               \/ RecordCompleted(w) \/ RecordFailure(w)
    PROVE  \A v \in Worker :
              /\ pc'[v] \in Holding =>
                    /\ pc[v] \in Holding /\ msg'[v] = msg[v] /\ token'[v] = token[v]
                    /\ pc'[v] \in Executing => pc[v] \in Executing
              /\ pc'[v] \in Terming => pc[v] \in Terming /\ msg'[v] = msg[v]
              /\ pc'[v] = "unwind" => pc[v] = "unwind" /\ msg'[v] = msg[v] /\ token'[v] = token[v]
<1> DEFINE Kept == \A v \in Worker :
              /\ pc'[v] \in Holding =>
                    /\ pc[v] \in Holding /\ msg'[v] = msg[v] /\ token'[v] = token[v]
                    /\ pc'[v] \in Executing => pc[v] \in Executing
              /\ pc'[v] \in Terming => pc[v] \in Terming /\ msg'[v] = msg[v]
              /\ pc'[v] = "unwind" => pc[v] = "unwind" /\ msg'[v] = msg[v] /\ token'[v] = token[v]
<1> SUFFICES Kept
  OBVIOUS
<1>0. /\ pc \in [Worker -> PC] /\ msg \in [Worker -> Message \union {NoMsg}]
      /\ token \in [Worker -> Nat]
  BY Zenon DEF BaseInv, TypeOK
<1> USE DEF Holding, Terming, Executing
<1>1. ASSUME NEW w \in Worker,
             \/ BeginFetch(w) \/ FetchTimeout(w) \/ Stop(w) \/ GetDone(w) \/ SetClaim(w)
             \/ Execute(w) \/ SetDone(w) \/ DropClaim(w) \/ release_claim(w)
      PROVE  Kept
  <2>1. /\ \E l : /\ pc' = [pc EXCEPT ![w] = l] /\ l # "unwind"
                  /\ l \in Holding => l \in Executing /\ pc[w] \in Executing
                  /\ l \in Terming => pc[w] \in Terming
        /\ UNCHANGED <<msg, token>>
    BY SMTT(30), <1>1 DEF BeginFetch, FetchTimeout, Stop, GetDone, SetClaim, Execute,
       SetDone,
       DropClaim, release_claim, Goto, localVars
  <2>2. PICK l : /\ pc' = [pc EXCEPT ![w] = l] /\ l # "unwind"
                 /\ l \in Holding => l \in Executing /\ pc[w] \in Executing
                 /\ l \in Terming => pc[w] \in Terming
    BY Zenon, <2>1
  <2> QED BY ZenonT(30), <1>0, <2>1, <2>2
<1>2. ASSUME NEW w \in Worker, SetLease(w) PROVE Kept
  <2>1. /\ \/ pc' = [pc EXCEPT ![w] = "start"] /\ token' = token
           \/ pc' = [pc EXCEPT ![w] = "release_nak"] /\ token' = [token EXCEPT ![w] = NoToken]
        /\ msg' = msg /\ pc[w] = "acquire"
    BY Zenon, <1>2 DEF SetLease, Goto
  <2> QED BY Zenon, <1>0, <2>1
<1>3. ASSUME NEW w \in Worker, NEW m \in Message, Fetch(w, m) PROVE Kept
  <2>1. /\ pc' = [pc EXCEPT ![w] = "received"] /\ msg' = [msg EXCEPT ![w] = m] /\ token' = token
    BY Zenon, <1>3 DEF Fetch, Goto
  <2> QED BY ZenonT(30), <1>0, <2>1
<1>4. ASSUME NEW w \in Worker, Poisoned(w) \/ Nak(w) \/ AckOrTerm(w) \/ ReleaseLease(w) \/ Die(w)
      PROVE  Kept
  <2>1. \/ Leave(w, "idle") \/ Leave(w, "dead")
        \/ Goto(w, "unlock") /\ UNCHANGED <<msg, token>>
    BY ZenonT(30), <1>4 DEF Poisoned, Nak, AckOrTerm, AfterReply, ReleaseLease, Die,
       localVars
  <2> QED BY ZenonT(30), <1>0, <2>1 DEF Leave, Goto
<1>5. CASE \/ \E w \in Worker : request_shutdown(w)
           \/ \E m \in Message : AckWaitExpires(m)
           \/ \E j \in Job : ClaimExpires(j) \/ LeaseExpires(j) \/ DoneExpires(j)
           \/ UNCHANGED vars
  <2>1. UNCHANGED <<pc, msg, token>>
    BY ZenonT(30), <1>5 DEF request_shutdown, AckWaitExpires, ClaimExpires, LeaseExpires,
       DoneExpires,
       vars, localVars
  <2> QED BY ZenonT(30), <2>1
<1> HIDE DEF Kept
<1> QED BY ZenonT(30), <1>1, <1>2, <1>3, <1>4, <1>5 DEF Next, Run

\* Every step of a punctual fleet preserves HolderTokens.
LEMMA NextTokens ==
    ASSUME BaseInv, FenceInv, GuardInv, [Next]_vars
    PROVE  HolderTokens'
<1>0. /\ pc \in [Worker -> PC] /\ token \in [Worker -> Nat] /\ counter \in [Job -> Nat]
      /\ \A j \in Job : jobs[j].fence_token \in Nat
      /\ \A v \in Worker : pc[v] \in Holding =>
            /\ pc[v] \in Claiming /\ msg[v] \in Message /\ JobOf(v) \in Job
            /\ jobs[JobOf(v)].fence_token <= token[v]
      /\ ClaimInv
  BY ZenonT(30), JobOfType DEF BaseInv, TypeOK, RepoTypeOK, JobRow, GuardInv, HolderTokens,
     Holding, Executing, Claiming, Away, Exited
<1> DEFINE Kept == \A v \in Worker : pc'[v] \in Holding =>
                      jobs'[JobOf(v)'].fence_token <= token'[v]
<1>2. ASSUME NEW w \in Worker, RecordStarted(w) \/ RecordCompleted(w) \/ RecordFailure(w)
      PROVE  Kept
  <2>1. /\ pc[w] \in {"start", "complete", "fail"} /\ UNCHANGED <<stream, msg, token>>
        /\ \A i \in Job \ {JobOf(w)} : jobs'[i] = jobs[i]
        /\ \E l \in {"execute", "mark_done", "release_nak", "release_term", "unwind"} :
              /\ pc' = [pc EXCEPT ![w] = l]
              /\ l = "execute" => jobs'[JobOf(w)].fence_token = token[w]
    BY Zenon, <1>2, GuardedWrite DEF GuardInv
  <2>2. PICK l \in {"execute", "mark_done", "release_nak", "release_term", "unwind"} :
              /\ pc' = [pc EXCEPT ![w] = l]
              /\ l = "execute" => jobs'[JobOf(w)].fence_token = token[w]
    BY Zenon, <2>1
  <2>3. \A v \in Worker : JobOf(v)' = JobOf(v)
    BY Zenon, <2>1 DEF JobOf
  <2>4. pc[w] \in Claiming
    BY Zenon, <2>1 DEF Claiming
  <2>5. ASSUME NEW v \in Worker, v # w, pc'[v] \in Holding
        PROVE  jobs'[JobOf(v)'].fence_token <= token'[v]
    <3>1. pc'[v] = pc[v]
      BY Zenon, <1>0, <2>2, <2>5
    <3>2. JobOf(v) # JobOf(w)
      BY ZenonT(30), <1>0, <2>4, <2>5, <3>1, OneHolder
    <3> QED BY Zenon, <1>0, <2>1, <2>3, <2>5, <3>1, <3>2
  <2>6. pc'[w] = l
    BY Zenon, <1>0, <2>2
  <2>7. token[w] <= token[w]
    BY <1>0
  <2>8. ASSUME pc'[w] \in Holding PROVE jobs'[JobOf(w)'].fence_token <= token'[w]
    <3>1. l = "execute"
      BY Zenon, <2>6, <2>8 DEF Holding, Executing
    <3> QED BY Zenon, <2>1, <2>2, <2>3, <2>7, <3>1
  <2> QED BY Zenon, <2>5, <2>8
<1>3. ASSUME NEW w \in Worker, IncrToken(w) PROVE Kept
  <2>1. /\ pc[w] = "incr" /\ pc' = [pc EXCEPT ![w] = "acquire"] /\ UNCHANGED <<jobs, stream, msg>>
        /\ token' = [token EXCEPT ![w] = counter[JobOf(w)] + 1]
    BY Zenon, <1>3 DEF IncrToken, Goto, repoVars, brokerVars
  <2>2. JobOf(w) \in Job
    BY ZenonT(30), <2>1, JobOfType DEF Away, Exited
  <2>3. jobs[JobOf(w)].fence_token <= counter[JobOf(w)] + 1
    BY <1>0, <2>2 DEF FenceInv, TokenInv
  <2>4. \A v \in Worker : JobOf(v)' = JobOf(v)
    BY ZenonT(30), <2>1 DEF JobOf
  <2>5. /\ token'[w] = counter[JobOf(w)] + 1
        /\ \A v \in Worker \ {w} : pc'[v] = pc[v] /\ token'[v] = token[v]
    BY ZenonT(30), <1>0, <2>1
  <2> QED BY ZenonT(30), <1>0, <2>1, <2>3, <2>4, <2>5
<1>4. ASSUME ~ \E w \in Worker : \/ IncrToken(w) \/ RecordStarted(w)
                                 \/ RecordCompleted(w) \/ RecordFailure(w)
      PROVE  Kept
  <2>1. jobs' = jobs /\ \A m \in Message : stream'[m].job = stream[m].job
    BY ZenonT(30), <1>4, QuietStep
  <2>2. \A v \in Worker : pc'[v] \in Holding =>
                             pc[v] \in Holding /\ msg'[v] = msg[v] /\ token'[v] = token[v]
    BY ZenonT(30), <1>4, QuietHolder
  <2>3. \A v \in Worker : pc'[v] \in Holding => JobOf(v)' = JobOf(v)
    BY Zenon, <1>0, <2>1, <2>2 DEF JobOf
  <2> QED BY ZenonT(30), <1>0, <2>1, <2>2, <2>3
<1> HIDE DEF Kept
<1>5. Kept
  BY ZenonT(30), <1>2, <1>3, <1>4
<1> QED BY Zenon, <1>5 DEF Kept, HolderTokens

\* Every step of a punctual fleet preserves HolderInv.
LEMMA NextHolder ==
    ASSUME BaseInv, PunctualInv, [Next]_vars
    PROVE  HolderInv'
<1>0. /\ pc \in [Worker -> PC] /\ ClaimInv
      /\ \A v \in Worker : pc[v] \in Executing =>
            /\ pc[v] \in Claiming /\ pc[v] \in Holding /\ msg[v] \in Message /\ JobOf(v) \in Job
            /\ jobs[JobOf(v)].state = "running"
  BY ZenonT(30), JobOfType DEF BaseInv, TypeOK, PunctualInv, GuardInv, HolderInv,
     Holding, Executing, Claiming, Away, Exited
<1> DEFINE Kept == \A v \in Worker : pc'[v] \in Executing => jobs'[JobOf(v)'].state = "running"
<1>2. ASSUME NEW w \in Worker, RecordStarted(w) \/ RecordCompleted(w) \/ RecordFailure(w)
      PROVE  Kept
  <2>1. /\ pc[w] \in Claiming /\ UNCHANGED <<stream, msg>>
        /\ \A i \in Job \ {JobOf(w)} : jobs'[i] = jobs[i]
        /\ \E l \in {"execute", "mark_done", "release_nak", "release_term"} :
              /\ pc' = [pc EXCEPT ![w] = l]
              /\ l = "execute" => jobs'[JobOf(w)].state = "running"
    BY Zenon, <1>2, HolderWrite DEF Goto, Claiming
  <2>2. PICK l \in {"execute", "mark_done", "release_nak", "release_term"} :
              /\ pc' = [pc EXCEPT ![w] = l]
              /\ l = "execute" => jobs'[JobOf(w)].state = "running"
    BY Zenon, <2>1
  <2>3. \A v \in Worker : JobOf(v)' = JobOf(v)
    BY Zenon, <2>1 DEF JobOf
  <2>4. \A v \in Worker \ {w} : pc[v] \in Executing => JobOf(v) # JobOf(w)
    BY Zenon, <1>0, <2>1, OneHolder
  <2>5. pc'[w] = l /\ \A v \in Worker \ {w} : pc'[v] = pc[v]
    BY Zenon, <1>0, <2>2
  <2>6. l \in Executing => jobs'[JobOf(w)].state = "running"
    BY Zenon, <2>2 DEF Executing
  <2>7. ASSUME NEW v \in Worker, v # w, pc'[v] \in Executing PROVE jobs'[JobOf(v)'].state = "running"
    <3>1. pc[v] \in Executing
      BY Zenon, <2>5, <2>7
    <3>2. jobs'[JobOf(v)] = jobs[JobOf(v)]
      BY Zenon, <1>0, <2>1, <2>4, <2>7, <3>1
    <3> QED BY Zenon, <1>0, <2>3, <3>1, <3>2
  <2>8. pc'[w] \in Executing => jobs'[JobOf(w)'].state = "running"
    BY Zenon, <2>3, <2>5, <2>6
  <2> QED BY Zenon, <2>7, <2>8
<1>3. ASSUME NEW w \in Worker, IncrToken(w) PROVE Kept
  <2>1. pc' = [pc EXCEPT ![w] = "acquire"] /\ UNCHANGED <<jobs, stream, msg>>
    BY Zenon, <1>3 DEF IncrToken, Goto, repoVars, brokerVars
  <2> QED BY Zenon, <1>0, <2>1 DEF JobOf, Executing
<1>4. ASSUME ~ \E w \in Worker : \/ IncrToken(w) \/ RecordStarted(w)
                                 \/ RecordCompleted(w) \/ RecordFailure(w)
      PROVE  Kept
  <2>1. jobs' = jobs /\ \A m \in Message : stream'[m].job = stream[m].job
    BY ZenonT(30), <1>4, QuietStep
  <2>2. \A v \in Worker : pc'[v] \in Executing => pc[v] \in Executing /\ msg'[v] = msg[v]
    BY ZenonT(30), <1>4, QuietHolder DEF Holding
  <2> QED BY Zenon, <1>0, <2>1, <2>2 DEF JobOf
<1> HIDE DEF Kept
<1>5. Kept
  BY ZenonT(30), <1>2, <1>3, <1>4
<1> QED BY Zenon, <1>5 DEF Kept, HolderInv

\* What a step of the fleet does to the messages: one leaves the stream only with
\* the ack or the term of a job that has finished.
LEMMA MessageStep ==
    ASSUME BaseInv, DoneInv, CarriedInv, [Next]_vars
    PROVE  \/ UNCHANGED <<stream, advisories>>
           \/ \E m \in Message :
                 \/ /\ Moved(m, "ready") \/ Moved(m, "pending")
                    /\ advisories' = advisories
                 \/ Moved(m, "exhausted") /\ advisories' = advisories \union {m}
                 \/ /\ Moved(m, "gone") /\ advisories' = advisories
                    /\ is_terminal(jobs[stream[m].job].state)
<1> DEFINE Step == \/ UNCHANGED <<stream, advisories>>
                   \/ \E m \in Message :
                         \/ /\ Moved(m, "ready") \/ Moved(m, "pending")
                            /\ advisories' = advisories
                         \/ Moved(m, "exhausted") /\ advisories' = advisories \union {m}
                         \/ /\ Moved(m, "gone") /\ advisories' = advisories
                            /\ is_terminal(jobs[stream[m].job].state)
<1>0. stream \in [Message -> [job : Job, num_delivered : Nat, status : Status]]
  BY ZenonT(30) DEF BaseInv, TypeOK
<1>1. ASSUME NEW m \in Message, give_back(m) PROVE Step
  <2>1. CASE stream[m].status = "pending"
    BY Zenon, <1>0, <1>1, <2>1, MessageMoves
  <2>2. CASE stream[m].status # "pending"
    BY Zenon, <1>1, <2>2 DEF give_back, brokerVars
  <2> QED BY Zenon, <2>1, <2>2
<1>2. ASSUME NEW m \in Message, deliver(m) PROVE Step
  BY ZenonT(30), <1>0, <1>2, MessageMoves
<1>3. ASSUME NEW w \in Worker, AckOrTerm(w) PROVE Step
  <2>1. pc[w] \in {"ack", "term"} /\ settle(msg[w])
    BY Zenon, <1>3 DEF AckOrTerm
  <2>2. msg[w] \in Message
    BY ZenonT(30), <2>1, JobOfType DEF Away, Exited
  <2>3. is_terminal(jobs[stream[msg[w]].job].state)
    BY ZenonT(30), <2>1 DEF DoneInv, Finishing, CarriedInv, JobOf, is_terminal,
       TERMINAL_STATES
  <2>4. Moved(msg[w], "gone") /\ advisories' = advisories
    BY ZenonT(30), <1>0, <2>1, <2>2, MessageMoves
  <2> QED BY Zenon, <2>2, <2>3, <2>4
<1>4. ASSUME NEW w \in Worker, Poisoned(w) \/ Nak(w) PROVE Step
  <2>1. pc[w] \notin Away /\ give_back(msg[w])
    BY ZenonT(30), <1>4 DEF Poisoned, Nak, Away, Exited
  <2> HIDE DEF Step
  <2> QED BY Zenon, <1>1, <2>1, JobOfType
<1>5. ASSUME NEW w \in Worker,
             \/ BeginFetch(w) \/ FetchTimeout(w) \/ Stop(w) \/ GetDone(w) \/ SetClaim(w)
             \/ IncrToken(w) \/ SetLease(w) \/ RecordStarted(w) \/ Execute(w)
             \/ RecordCompleted(w) \/ SetDone(w) \/ DropClaim(w) \/ RecordFailure(w)
             \/ release_claim(w) \/ ReleaseLease(w) \/ request_shutdown(w) \/ Die(w)
      PROVE  UNCHANGED <<stream, advisories>>
  BY ZenonT(30), <1>5 DEF BeginFetch, FetchTimeout, Stop, GetDone, SetClaim, IncrToken,
     SetLease,
     RecordStarted, Execute, RecordCompleted, SetDone, DropClaim, RecordFailure, release_claim,
     ReleaseLease, request_shutdown, Die, brokerVars
<1>6. ASSUME \/ \E j \in Job : ClaimExpires(j) \/ LeaseExpires(j) \/ DoneExpires(j)
             \/ UNCHANGED vars
      PROVE  UNCHANGED <<stream, advisories>>
  BY Zenon, <1>6 DEF ClaimExpires, LeaseExpires, DoneExpires, brokerVars, vars
<1>7. ASSUME UNCHANGED <<stream, advisories>> PROVE Step
  BY ZenonT(30), <1>7
<1>8. ASSUME NEW w \in Worker, NEW m \in Message, Fetch(w, m) PROVE deliver(m)
  BY ZenonT(30), <1>8 DEF Fetch
<1>9. ASSUME NEW m \in Message, AckWaitExpires(m) PROVE give_back(m)
  BY ZenonT(30), <1>9 DEF AckWaitExpires
<1> HIDE DEF Step
<1>10. Step
  BY ZenonT(30), <1>1, <1>2, <1>3, <1>4, <1>5, <1>6, <1>7, <1>8, <1>9 DEF Next, Run
<1> QED BY Zenon, <1>10 DEF Step

\* Every step of a punctual fleet preserves CarriedInv.
LEMMA NextCarried ==
    ASSUME BaseInv, DoneInv, PunctualInv, [Next]_vars
    PROVE  CarriedInv'
<1>0. /\ pc \in [Worker -> PC] /\ CarriedInv
      /\ stream \in [Message -> [job : Job, num_delivered : Nat, status : Status]]
      /\ advisories \subseteq Message
      /\ \A v \in Worker : pc[v] \in Terming => JobOf(v) \in Job /\ msg[v] \in Message
  BY ZenonT(30), JobOfType DEF BaseInv, TypeOK, PunctualInv, Terming, Away, Exited
<1>a. \A s : is_terminal(s) <=> s \in {"succeeded", "failed"}
  BY Zenon DEF is_terminal, TERMINAL_STATES
<1> DEFINE Rows == /\ \A j \in Job : jobs'[j].state \in {"queued", "running", "succeeded", "failed"}
                   /\ \A j \in Job : is_terminal(jobs[j].state) => is_terminal(jobs'[j].state)
                   /\ \A v \in Worker : pc'[v] \in Terming => is_terminal(jobs'[JobOf(v)'].state)
<1>1. ASSUME NEW w \in Worker, RecordStarted(w) \/ RecordCompleted(w) \/ RecordFailure(w)
      PROVE  Rows
  <2>1. /\ JobOf(w) \in Job /\ UNCHANGED <<stream, msg>>
        /\ \A i \in Job \ {JobOf(w)} : jobs'[i] = jobs[i]
        /\ \/ jobs' = jobs /\ is_terminal(jobs[JobOf(w)].state)
           \/ /\ ~is_terminal(jobs[JobOf(w)].state)
              /\ jobs'[JobOf(w)].state \in {"running", "succeeded", "queued", "failed"}
        /\ \E l : /\ pc' = [pc EXCEPT ![w] = l]
                  /\ l \in Terming => is_terminal(jobs'[JobOf(w)].state)
    BY <1>1, <1>a, HolderWrite DEF Goto, Terming
  <2>2. PICK l : pc' = [pc EXCEPT ![w] = l] /\ (l \in Terming => is_terminal(jobs'[JobOf(w)].state))
    BY Zenon, <2>1
  <2>3. \A v \in Worker : JobOf(v)' = JobOf(v)
    BY ZenonT(30), <2>1 DEF JobOf
  <2>4. /\ \A j \in Job : jobs'[j].state \in {"queued", "running", "succeeded", "failed"}
        /\ \A j \in Job : is_terminal(jobs[j].state) => is_terminal(jobs'[j].state)
    BY ZenonT(30), <1>0, <2>1 DEF CarriedInv
  <2>5. \A v \in Worker \ {w} : pc'[v] \in Terming => is_terminal(jobs'[JobOf(v)].state)
    BY Zenon, <1>0, <2>2, <2>4 DEF CarriedInv, Terming
  <2>6. pc'[w] = l
    BY ZenonT(30), <1>0, <2>2
  <2> QED BY Zenon, <2>2, <2>3, <2>4, <2>5, <2>6
<1>2. ASSUME NEW w \in Worker, IncrToken(w) PROVE Rows
  <2>1. pc' = [pc EXCEPT ![w] = "acquire"] /\ UNCHANGED <<jobs, stream, msg>>
    BY Zenon, <1>2 DEF IncrToken, Goto, repoVars, brokerVars
  <2>2. \A v \in Worker : JobOf(v)' = JobOf(v) /\ (pc'[v] \in Terming => pc[v] \in Terming)
    BY ZenonT(30), <1>0, <2>1 DEF JobOf, Terming
  <2> QED BY Zenon, <1>0, <2>1, <2>2 DEF CarriedInv, Terming
<1>3. ASSUME ~ \E w \in Worker : \/ IncrToken(w) \/ RecordStarted(w)
                                 \/ RecordCompleted(w) \/ RecordFailure(w)
      PROVE  Rows
  <2>1. jobs' = jobs /\ \A m \in Message : stream'[m].job = stream[m].job
    BY Zenon, <1>3, QuietStep
  <2>2. \A v \in Worker : pc'[v] \in Terming => pc[v] \in Terming /\ msg'[v] = msg[v]
    BY ZenonT(30), <1>3, QuietHolder
  <2>3. \A v \in Worker : pc'[v] \in Terming => JobOf(v)' = JobOf(v)
    BY ZenonT(30), <1>0, <2>1, <2>2 DEF JobOf
  <2> QED BY ZenonT(30), <1>0, <2>1, <2>2, <2>3 DEF CarriedInv, Terming
<1> HIDE DEF Rows
<1>4. Rows
  BY Zenon, <1>1, <1>2, <1>3
<1>5. \A m \in Message : stream'[m].job = stream[m].job /\ stream[m].job \in Job
  BY ZenonT(30), <1>0, Stable
<1>6. \A m \in Message :
         /\ stream'[m].status # "unsent"
         /\ stream'[m].status = "gone" => is_terminal(jobs[stream[m].job].state)
         /\ stream'[m].status = "exhausted" => m \in advisories'
  <2>1. CASE UNCHANGED <<stream, advisories>>
    BY ZenonT(30), <1>0, <2>1 DEF CarriedInv
  <2>2. ASSUME NEW m \in Message,
               \/ /\ Moved(m, "ready") \/ Moved(m, "pending")
                  /\ advisories' = advisories
               \/ Moved(m, "exhausted") /\ advisories' = advisories \union {m}
               \/ /\ Moved(m, "gone") /\ advisories' = advisories
                  /\ is_terminal(jobs[stream[m].job].state)
        PROVE  \A n \in Message :
                  /\ stream'[n].status # "unsent"
                  /\ stream'[n].status = "gone" => is_terminal(jobs[stream[n].job].state)
                  /\ stream'[n].status = "exhausted" => n \in advisories'
    BY ZenonT(30), <1>0, <2>2 DEF CarriedInv, Moved
  <2> QED BY ZenonT(30), <1>0, <2>1, <2>2, MessageStep
<1>7. \A j \in Job : \E m \in Message : stream'[m].job = j
  BY ZenonT(30), <1>0, <1>5 DEF CarriedInv
<1>8. \A m \in Message : stream'[m].status = "gone" => is_terminal(jobs'[stream'[m].job].state)
  BY Zenon, <1>4, <1>5, <1>6 DEF Rows
<1> QED BY ZenonT(30), <1>4, <1>6, <1>7, <1>8 DEF CarriedInv, Rows, Terming

\* A fleet just started satisfies PunctualInv.
LEMMA InitPunctual == Init => PunctualInv
<1> SUFFICES ASSUME Init PROVE PunctualInv
  BY ZenonT(30)
<1>1. /\ jobs = [j \in Job |-> SubmittedRow] /\ SubmittedRow.state = "queued"
      /\ pc = [w \in Worker |-> "idle"] /\ claim = [j \in Job |-> Absent]
      /\ stream \in [Message -> [job : Job, num_delivered : {0}, status : {"ready"}]]
      /\ \A j \in Job : \E m \in Message : stream[m].job = j
  BY Zenon DEF Init, FreshStart, SubmittedRow
<1>2. ClaimInv
  BY Zenon, <1>1 DEF ClaimInv, Claiming
<1>3. HolderTokens /\ HolderInv
  BY Zenon, <1>1 DEF HolderTokens, HolderInv, Holding, Executing
<1>4. CarriedInv
  BY Zenon, <1>1 DEF CarriedInv
<1> QED BY Zenon, <1>2, <1>3, <1>4 DEF PunctualInv, GuardInv

\* PunctualInv holds in every reachable state of a punctual fleet.
LEMMA SpecPunctual == Punctual => (Spec => [](IInv /\ PunctualInv))
<1> SUFFICES ASSUME Punctual PROVE Spec => [](IInv /\ PunctualInv)
  OBVIOUS
<1>1. IInv /\ PunctualInv /\ [Next]_vars => PunctualInv'
  BY Zenon, NextClaim, NextTokens, NextHolder, NextCarried DEF IInv, PunctualInv, GuardInv
<1> QED BY SpecIInv, InitPunctual, <1>1, PTL DEF Spec

\* The execution guard (try_claim, release_claim, mark_done): workers that finish
\* inside the claim's time to live never execute one job at the same time.
THEOREM GuardExcludes == Punctual /\ Spec => []OneExecutor
<1>1. PunctualInv => OneExecutor
  BY ZenonT(30), OneHolder DEF PunctualInv, GuardInv, OneExecutor, Claiming
<1> QED BY <1>1, SpecPunctual, PTL

\* A claim is that of the delivery its owner has in hand.
LEMMA ClaimsReleased == IInv /\ GuardInv => NoLeakedClaim
<1> SUFFICES ASSUME IInv, GuardInv, NEW j \in Job, NEW w \in Worker,
                    claim[j] # Absent, claim[j][1] = w, pc[w] # "dead"
             PROVE  msg[w] # NoMsg /\ JobOf(w) = j /\ claim[j] = Delivery(w)
  BY ZenonT(30) DEF NoLeakedClaim
<1>1. pc[w] \in Claiming /\ JobOf(w) = j /\ claim[j] = Delivery(w)
  BY Zenon DEF GuardInv, ClaimInv
<1>2. msg[w] \in Message
  BY ZenonT(30), <1>1, JobOfType DEF IInv, Claiming, Away, Exited
<1> QED BY ZenonT(30), <1>1, <1>2, BrokerAssumption DEF NoMsg

\* Every path through Worker.handle gives the claim back: it outlives its delivery
\* only when the process died.
THEOREM ClaimIsReleased == Punctual /\ Spec => []NoLeakedClaim
<1> QED BY ClaimsReleased, SpecPunctual, PTL DEF PunctualInv

\* At-least-once delivery (ack, term and nak in Worker.handle, MaxDeliver): a job
\* that is queued or running has a message still to be delivered, or an advisory.
THEOREM NoJobIsStranded == Punctual /\ Spec => []NoJobStranded
<1>1. IInv /\ PunctualInv => NoJobStranded
  <2> SUFFICES ASSUME IInv, PunctualInv, NEW j \in Job, jobs[j].state \in {"queued", "running"}
               PROVE  Carried(j)
    BY ZenonT(30) DEF NoJobStranded
  <2>1. PICK m \in Message : stream[m].job = j
    BY ZenonT(30) DEF PunctualInv, CarriedInv
  <2>2. ~is_terminal(jobs[j].state) /\ stream[m].status \in Status
    BY ZenonT(30) DEF is_terminal, TERMINAL_STATES, IInv, BaseInv, TypeOK
  <2>3. \/ stream[m].status \in {"ready", "pending"}
        \/ stream[m].status = "exhausted" /\ m \in advisories
    BY Zenon, <2>1, <2>2 DEF PunctualInv, CarriedInv, Status
  <2> QED BY Zenon, <2>1, <2>3 DEF Carried
<1> QED BY <1>1, SpecPunctual, PTL
------------------------------------------------------------------------------
(* With the dead-letter listener and the operator *)

\* A write without a token leaves the row's token and the claims alone.
LEMMA NextGuard ==
    ASSUME Punctual, IInv, ListenInv, GuardInv, [DNext]_allVars
    PROVE  GuardInv'
<1>0. /\ BaseInv /\ FenceInv /\ RepoTypeOK /\ ClaimInv
      /\ stream \in [Message -> [job : Job, num_delivered : Nat, status : Status]]
  BY Zenon DEF IInv, BaseInv, TypeOK, GuardInv
<1>1. CASE [Next]_vars
  BY Zenon, <1>0, <1>1, NextClaim, NextTokens DEF GuardInv
<1>2. ASSUME UNCHANGED <<pc, msg, attempt, token, claim>>,
             \A m \in Message : stream'[m].job = stream[m].job,
             \A j \in Job : jobs'[j].fence_token = jobs[j].fence_token
      PROVE  GuardInv'
  <2>1. \A v \in Worker : Calm(v)
    BY Zenon, <1>2 DEF Calm
  <2>2. ClaimInv'
    BY Zenon, <1>0, <1>2, <2>1, ClaimStays
  <2>3. \A v \in Worker : pc[v] \in Holding => JobOf(v) \in Job /\ JobOf(v)' = JobOf(v)
    BY Zenon, <1>0, <1>2, JobOfType DEF JobOf, Holding, Executing, Away, Exited
  <2>4. HolderTokens'
    BY Zenon, <1>2, <2>3 DEF GuardInv, HolderTokens
  <2> QED BY Zenon, <2>2, <2>4 DEF GuardInv
<1>3. ASSUME NEW j \in Job, NEW e \in PlainEvent, NEW a \in Nat,
             record_event(j, e, a, NoToken),
             UNCHANGED <<brokerVars, pc, localVars, kvVars, shutdown>>
      PROVE  GuardInv'
  <2>1. UNCHANGED <<stream, pc, msg, attempt, token, claim>>
    BY Zenon, <1>3 DEF brokerVars, localVars, kvVars
  <2>2. \A i \in Job : jobs'[i].fence_token = jobs[i].fence_token
    <3>1. CASE Verdict(j, e, NoToken) = "ok"
      BY Zenon, <1>0, <1>3, <3>1, PlainCommit
    <3>2. CASE Verdict(j, e, NoToken) # "ok"
      BY Zenon, <1>3, <3>2, Rollback
    <3> QED BY Zenon, <3>1, <3>2
  <2> QED BY Zenon, <1>2, <2>1, <2>2
<1>4. ASSUME NEW m \in Message, settle(m) \/ publish(m),
             UNCHANGED <<repoVars, pc, localVars, kvVars, shutdown>>
      PROVE  GuardInv'
  <2>1. UNCHANGED <<jobs, pc, msg, attempt, token, claim>>
    BY Zenon, <1>4 DEF repoVars, localVars, kvVars
  <2>2. \A n \in Message : stream'[n].job = stream[n].job
    BY <1>0, <1>4 DEF settle, publish
  <2> QED BY Zenon, <1>2, <2>1, <2>2
<1> QED BY Zenon, <1>1, <1>3, <1>4, OtherStep

\* The audit trail of a job is appended to, or left as it is.
LogGrows(j) ==
    /\ Len(job_events[j]) <= Len(job_events'[j])
    /\ \A k \in 1..Len(job_events[j]) : job_events'[j][k] = job_events[j][k]

\* It is, in every step of the composition (record_event only inserts events).
LEMMA LogsGrow ==
    ASSUME IInv, ListenInv, [DNext]_allVars
    PROVE  \A j \in Job : LogGrows(j)
<1>0. /\ BaseInv /\ RepoTypeOK /\ \A j \in Job : Len(job_events[j]) \in Nat
  BY DEF IInv, BaseInv, TypeOK, RepoTypeOK
<1>1. ASSUME job_events' = job_events PROVE \A j \in Job : LogGrows(j)
  BY <1>0, <1>1 DEF LogGrows
<1>2. ASSUME NEW j \in Job, Len(job_events'[j]) = Len(job_events[j]) + 1,
             \A k \in 1..Len(job_events[j]) : job_events'[j][k] = job_events[j][k],
             \A i \in Job \ {j} : job_events'[i] = job_events[i]
      PROVE  \A i \in Job : LogGrows(i)
  BY <1>0, <1>2 DEF LogGrows
<1>3. ASSUME NEW w \in Worker, RecordStarted(w) \/ RecordCompleted(w) \/ RecordFailure(w)
      PROVE  \A j \in Job : LogGrows(j)
  <2>1. PICK e \in WorkerEvent : record_event(JobOf(w), e, attempt[w], token[w])
    BY ZenonT(30), <1>0, <1>3, WriteStep
  <2>2. /\ JobOf(w) \in Job /\ attempt[w] \in Nat /\ token[w] \in Nat \ {0}
    BY ZenonT(30), <1>0, <1>3, WriteStep, JobOfType DEF BaseInv, TypeOK, ControlInv, NoToken,
       Leased, Away, Exited
  <2>3. CASE Verdict(JobOf(w), e, token[w]) = "ok"
    <3> DEFINE j == JobOf(w)
    <3>1. /\ j \in Job /\ Len(job_events'[j]) = Len(job_events[j]) + 1
          /\ \A k \in 1..Len(job_events[j]) : job_events'[j][k] = job_events[j][k]
          /\ \A i \in Job \ {j} : job_events'[i] = job_events[i]
      BY Zenon, <1>0, <2>1, <2>2, <2>3, Commit
    <3> HIDE DEF j
    <3> QED BY Zenon, <1>2, <3>1
  <2>4. CASE Verdict(JobOf(w), e, token[w]) # "ok"
    BY Zenon, <1>1, <2>1, <2>4, Rollback
  <2> QED BY Zenon, <2>3, <2>4
<1>4. CASE [Next]_vars
  <2>1. ASSUME NEW w \in Worker, IncrToken(w) PROVE \A j \in Job : LogGrows(j)
    BY Zenon, <1>1, <2>1 DEF IncrToken, repoVars
  <2>2. ASSUME ~ \E w \in Worker : \/ IncrToken(w) \/ RecordStarted(w)
                                   \/ RecordCompleted(w) \/ RecordFailure(w)
        PROVE  \A j \in Job : LogGrows(j)
    BY Zenon, <1>0, <1>1, <1>4, <2>2, QuietStep
  <2> QED BY Zenon, <1>3, <2>1, <2>2
<1>5. ASSUME NEW j \in Job, NEW e \in PlainEvent, NEW a \in Nat, record_event(j, e, a, NoToken)
      PROVE  \A i \in Job : LogGrows(i)
  <2>1. CASE Verdict(j, e, NoToken) = "ok"
    <3>1. /\ Len(job_events'[j]) = Len(job_events[j]) + 1
          /\ \A k \in 1..Len(job_events[j]) : job_events'[j][k] = job_events[j][k]
          /\ \A i \in Job \ {j} : job_events'[i] = job_events[i]
      BY Zenon, <1>0, <1>5, <2>1, PlainCommit
    <3> QED BY Zenon, <1>2, <3>1
  <2>2. CASE Verdict(j, e, NoToken) # "ok"
    BY Zenon, <1>1, <1>5, <2>2, Rollback
  <2> QED BY Zenon, <2>1, <2>2
<1> QED BY Zenon, <1>1, <1>4, <1>5, OtherStep DEF repoVars

\* The condition under which a punctual worker may leave handle with an exception.
Overtaken(w) ==
    /\ QuarantinedUnder(w)
    /\ \E m \in advisories \ {msg[w]} : stream[m].job = JobOf(w)

\* It stays true for as long as the worker has the delivery.
LEMMA OvertakenStays ==
    ASSUME RepoTypeOK, NEW w \in Worker, Overtaken(w), LogGrows(JobOf(w)),
           msg[w] \in Message, JobOf(w) \in Job, RepoTypeOK',
           advisories \subseteq Message, advisories \subseteq advisories',
           \A m \in Message : stream'[m].job = stream[m].job,
           msg'[w] = msg[w], attempt'[w] = attempt[w], token'[w] = token[w]
    PROVE  Overtaken(w)'
<1>1. JobOf(w)' = JobOf(w)
  BY Zenon DEF JobOf
<1>2. \E m \in advisories' \ {msg'[w]} : stream'[m].job = JobOf(w)'
  BY Zenon, <1>1 DEF Overtaken
<1> DEFINE log == job_events[JobOf(w)]
           new == job_events'[JobOf(w)]
           own == [event |-> "started", attempt |-> attempt[w], fence_token |-> token[w]]
<1>3. /\ Len(log) \in Nat /\ Len(new) \in Nat /\ Len(log) <= Len(new)
      /\ \A k \in 1..Len(log) : new[k] = log[k]
  BY DEF RepoTypeOK, LogGrows
<1>4. PICK k \in 1..Len(log) : log[k] = own /\ \E i \in (k + 1)..Len(log) : log[i].event = "dead_lettered"
  BY Zenon DEF Overtaken, QuarantinedUnder
<1>5. PICK i \in (k + 1)..Len(log) : log[i].event = "dead_lettered"
  BY Zenon, <1>4
<1> HIDE DEF log, new, own
<1>6. k \in 1..Len(new) /\ i \in (k + 1)..Len(new) /\ i \in 1..Len(log)
  BY <1>3, <1>4, <1>5
<1>7. new[k] = own /\ new[i].event = "dead_lettered"
  BY Zenon, <1>3, <1>4, <1>5, <1>6
<1>8. QuarantinedUnder(w)'
  BY Zenon, <1>1, <1>6, <1>7 DEF QuarantinedUnder, log, new, own
<1> QED BY Zenon, <1>2, <1>8 DEF Overtaken

\* A worker that executes has its job to itself until the listener dead-letters it.
Excused(w) ==
    /\ pc[w] \in Executing => jobs[JobOf(w)].state = "running" \/ Overtaken(w)
    /\ pc[w] = "unwind" => Overtaken(w)

CrashInv == \A w \in Worker : Excused(w)

\* The listener's write under a worker that executes: the row was RUNNING under the
\* worker's own token, so the log ended with the worker's STARTED, and the advisory
\* is not about the delivery it has in hand.
LEMMA QuarantineOvertakes ==
    ASSUME IInv, GuardInv, DeliveryInv, NEW w \in Worker, pc[w] \in Executing,
           jobs[JobOf(w)].state = "running",
           NEW n \in advisories, stream[n].job = JobOf(w), NEW a \in Nat,
           record_event(JobOf(w), "dead_lettered", a, NoToken),
           Verdict(JobOf(w), "dead_lettered", NoToken) = "ok",
           UNCHANGED <<stream, advisories, msg, attempt, token>>
    PROVE  Overtaken(w)'
<1> DEFINE j == JobOf(w)
           log == job_events[j]
           new == job_events'[j]
           own == [event |-> "started", attempt |-> attempt[w], fence_token |-> token[w]]
<1>0. BaseInv /\ FenceInv /\ RepoTypeOK /\ pc[w] \notin Away /\ Handling(w)
  BY Zenon DEF IInv, BaseInv, TypeOK, Executing, Away, Exited, Handling
<1>1. /\ msg[w] \in Message /\ j \in Job /\ token[w] \in Nat /\ attempt[w] \in Nat
  BY Zenon, <1>0, JobOfType DEF BaseInv, TypeOK
<1>2. jobs[j].fence_token <= token[w] /\ token[w] <= jobs[j].fence_token /\ jobs[j].fence_token \in Nat
  BY Zenon, <1>0, <1>1 DEF GuardInv, HolderTokens, Holding, FenceInv, RunInv, RepoTypeOK, JobRow
<1>3. jobs[j].fence_token = token[w]
  BY <1>1, <1>2
<1>4. /\ Last(j).event = "started" /\ Last(j).fence_token = token[w]
      /\ Last(j).attempt = attempt[w] /\ Len(log) > 0
  BY Zenon, <1>0, <1>1, <1>3 DEF FenceInv, LogInv, RunInv
<1>5. Len(log) \in Nat /\ log[Len(log)] = own
  <2>1. log \in Seq(EventRow)
    BY Zenon, <1>0, <1>1 DEF RepoTypeOK
  <2>2. Len(log) \in Nat /\ Len(log) \in 1..Len(log)
    BY <1>4, <2>1
  <2>3. log[Len(log)] \in EventRow
    BY <2>1, <2>2
  <2>4. Last(j) = log[Len(log)]
    BY Zenon DEF Last
  <2> HIDE DEF j, log
  <2> QED BY <1>4, <2>2, <2>3, <2>4 DEF EventRow
<1>6. /\ Len(new) = Len(log) + 1 /\ new[Len(log) + 1].event = "dead_lettered"
      /\ \A i \in 1..Len(log) : new[i] = log[i]
  BY Zenon, <1>0, <1>1, PlainCommit DEF PlainEvent
<1>7. JobOf(w)' = j
  BY Zenon DEF JobOf
<1>8. n # msg[w]
  BY Zenon, <1>0 DEF DeliveryInv
<1>9. \E m \in advisories' \ {msg'[w]} : stream'[m].job = JobOf(w)'
  BY Zenon, <1>7, <1>8
<1> HIDE DEF j, log, new, own
<1>10. /\ Len(log) \in 1..Len(log) /\ Len(log) \in 1..Len(new)
       /\ Len(log) + 1 \in (Len(log) + 1)..Len(new)
  BY <1>4, <1>5, <1>6
<1>11. new[Len(log)] = own
  BY Zenon, <1>5, <1>6, <1>10
<1>12. \E k \in 1..Len(new) : new[k] = own /\ \E i \in (k + 1)..Len(new) : new[i].event = "dead_lettered"
  BY Zenon, <1>6, <1>10, <1>11
<1>13. QuarantinedUnder(w)'
  BY Zenon, <1>7, <1>12 DEF QuarantinedUnder, j, new, own
<1> QED BY Zenon, <1>9, <1>13 DEF Overtaken

\* Every step of the composition preserves CrashInv.
LEMMA NextCrash ==
    ASSUME Punctual, IInv, IInv', ListenInv, NotLostInv, GuardInv, CrashInv, [DNext]_allVars
    PROVE  CrashInv'
<1> DEFINE Late == Executing \union {"unwind"}
<1>0. /\ BaseInv /\ RepoTypeOK /\ RepoTypeOK' /\ ClaimInv /\ HolderTokens
      /\ DeliveryInv /\ QuarantineInv
      /\ pc \in [Worker -> PC] /\ advisories \subseteq Message
      /\ stream \in [Message -> [job : Job, num_delivered : Nat, status : Status]]
  BY Zenon DEF IInv, BaseInv, TypeOK, GuardInv, NotLostInv
<1>a. \A j \in Job : LogGrows(j)
  BY Zenon, LogsGrow
<1>b. \A w \in Worker : pc[w] \in Late =>
         msg[w] \in Message /\ JobOf(w) \in Job /\ pc[w] \in Claiming /\ token[w] # NoToken
  BY Zenon, <1>0, JobOfType DEF Executing, Away, Exited, Claiming, BaseInv, ControlInv, Leased
<1> DEFINE Moves == /\ advisories \subseteq advisories'
                    /\ \A m \in Message : stream'[m].job = stream[m].job
           Same(w) == msg'[w] = msg[w] /\ attempt'[w] = attempt[w] /\ token'[w] = token[w]
<1>1. ASSUME Moves, NEW w \in Worker, pc[w] \in Late, Same(w)
      PROVE  JobOf(w)' = JobOf(w) /\ (Overtaken(w) => Overtaken(w)')
  <2>1. JobOf(w)' = JobOf(w)
    BY Zenon, <1>b, <1>1 DEF JobOf
  <2>2. Overtaken(w) => Overtaken(w)'
    BY Zenon, <1>0, <1>a, <1>b, <1>1, OvertakenStays
  <2> QED BY Zenon, <2>1, <2>2
\* A step that leaves the row of an executing worker alone.
<1>2. ASSUME Moves, NEW w \in Worker,
             pc'[w] \in Late => pc[w] \in Late /\ Same(w) /\ jobs'[JobOf(w)] = jobs[JobOf(w)],
             pc'[w] \in Executing => pc[w] \in Executing,
             pc'[w] = "unwind" => pc[w] = "unwind"
      PROVE  Excused(w)'
  <2>1. ASSUME pc'[w] \in Executing PROVE jobs'[JobOf(w)'].state = "running" \/ Overtaken(w)'
    BY Zenon, <1>1, <1>2, <2>1 DEF CrashInv, Excused
  <2>2. ASSUME pc'[w] = "unwind" PROVE Overtaken(w)'
    BY Zenon, <1>1, <1>2, <2>2 DEF CrashInv, Excused
  <2> QED BY Zenon, <2>1, <2>2 DEF Excused
<1> HIDE DEF Late
<1>3. ASSUME [Next]_vars PROVE Moves
  BY Zenon, <1>0, <1>3, FleetDelivery
<1>4. ASSUME [Next]_vars, NEW u \in Worker,
             RecordStarted(u) \/ RecordCompleted(u) \/ RecordFailure(u)
      PROVE  CrashInv'
  <2>1. /\ pc[u] \in {"start", "complete", "fail"} /\ JobOf(u) \in Job
        /\ UNCHANGED <<stream, advisories, msg, attempt, token, claim>>
        /\ \A i \in Job \ {JobOf(u)} : jobs'[i] = jobs[i]
        /\ \E l \in {"execute", "mark_done", "release_nak", "release_term", "unwind"} :
              /\ pc' = [pc EXCEPT ![u] = l]
              /\ l = "execute" => /\ jobs'[JobOf(u)].fence_token = token[u]
                                  /\ jobs'[JobOf(u)].state = "running"
              /\ l = "unwind" => pc[u] = "fail" /\ jobs[JobOf(u)].state # "running"
    <3>1. BaseInv /\ HolderTokens
      BY Zenon, <1>0
    <3> QED BY Zenon, <1>4, <3>1, GuardedWrite
  <2>2. PICK l \in {"execute", "mark_done", "release_nak", "release_term", "unwind"} :
              /\ pc' = [pc EXCEPT ![u] = l]
              /\ l = "execute" => /\ jobs'[JobOf(u)].fence_token = token[u]
                                  /\ jobs'[JobOf(u)].state = "running"
              /\ l = "unwind" => pc[u] = "fail" /\ jobs[JobOf(u)].state # "running"
    BY Zenon, <2>1
  <2>3. Moves
    BY Zenon, <1>3, <1>4
  <2>4. ASSUME NEW v \in Worker, v # u PROVE Excused(v)'
    <3>1. pc'[v] = pc[v] /\ Same(v)
      BY Zenon, <1>0, <2>1, <2>2, <2>4
    <3>2. pc[v] \in Late => JobOf(v) # JobOf(u)
      BY Zenon, <1>0, <1>b, <2>1, <2>4, OneHolder DEF Claiming
    <3>3. pc[v] \in Late => jobs'[JobOf(v)] = jobs[JobOf(v)]
      BY Zenon, <1>b, <2>1, <3>2
    <3> QED BY Zenon, <1>2, <2>3, <3>1, <3>3
  <2>5. pc'[u] = l /\ JobOf(u)' = JobOf(u)
    BY Zenon, <1>0, <2>1, <2>2 DEF JobOf
  <2>6. ASSUME pc'[u] \in Executing PROVE jobs'[JobOf(u)'].state = "running"
    BY Zenon, <2>2, <2>5, <2>6 DEF Executing
  <2>7. ASSUME pc'[u] = "unwind" PROVE Overtaken(u)'
    <3>1. pc[u] = "fail" /\ jobs[JobOf(u)].state # "running"
      BY Zenon, <2>2, <2>5, <2>7
    <3>2. pc[u] \in Late /\ Overtaken(u)
      BY Zenon, <3>1 DEF CrashInv, Excused, Executing, Late
    <3> QED BY Zenon, <1>1, <2>1, <2>3, <3>2
  <2>8. Excused(u)'
    BY Zenon, <2>6, <2>7 DEF Excused
  <2> QED BY Zenon, <2>4, <2>8 DEF CrashInv
<1>5. ASSUME [Next]_vars, NEW u \in Worker, IncrToken(u) PROVE CrashInv'
  <2>1. /\ pc' = [pc EXCEPT ![u] = "acquire"] /\ UNCHANGED <<jobs, msg, attempt>>
        /\ token' = [token EXCEPT ![u] = counter[JobOf(u)] + 1]
    BY Zenon, <1>5 DEF IncrToken, Goto, repoVars
  <2>2. token \in [Worker -> Nat]
    BY Zenon, <1>0 DEF BaseInv, TypeOK
  <2>3. ASSUME NEW v \in Worker PROVE Excused(v)'
    <3>1. CASE v = u
      BY Zenon, <1>0, <2>1, <3>1 DEF Excused, Executing
    <3>2. CASE v # u
      <4>1. pc'[v] = pc[v] /\ Same(v)
        BY Zenon, <1>0, <2>1, <2>2, <3>2
      <4> QED BY Zenon, <1>2, <1>3, <1>5, <2>1, <4>1
    <3> QED BY Zenon, <3>1, <3>2
  <2> QED BY Zenon, <2>3 DEF CrashInv
<1>6. ASSUME [Next]_vars,
             ~ \E w \in Worker : \/ IncrToken(w) \/ RecordStarted(w)
                                 \/ RecordCompleted(w) \/ RecordFailure(w)
      PROVE  CrashInv'
  <2>1. jobs' = jobs
    BY Zenon, <1>0, <1>6, QuietStep
  <2>2. ASSUME NEW v \in Worker PROVE Excused(v)'
    <3>1. \/ Same(v) /\ (pc'[v] \in Executing => pc[v] \in Executing)
          \/ token'[v] = NoToken /\ pc'[v] \notin Executing
      BY Zenon, <1>0, <1>6, QuietStep
    <3>2. pc'[v] = "unwind" => pc[v] = "unwind" /\ token'[v] = token[v]
      BY Zenon, <1>0, <1>6, QuietHolder
    <3>3. pc'[v] \in Late => pc[v] \in Late /\ Same(v)
      BY Zenon, <1>b, <3>1, <3>2 DEF Late
    <3>4. pc'[v] \in Executing => pc[v] \in Executing
      BY Zenon, <3>1
    <3> QED BY Zenon, <1>2, <1>3, <1>6, <2>1, <3>2, <3>3, <3>4
  <2> QED BY Zenon, <2>2 DEF CrashInv
<1>7. CASE [Next]_vars
  BY Zenon, <1>4, <1>5, <1>6, <1>7
\* A write without a token, of an event that takes no RUNNING row by surprise.
<1>8. ASSUME NEW j \in Job, NEW e \in PlainEvent, NEW a \in Nat,
             record_event(j, e, a, NoToken),
             UNCHANGED <<brokerVars, pc, localVars, kvVars, shutdown>>,
             \A w \in Worker :
                pc[w] \in Executing /\ JobOf(w) = j /\ jobs[j].state = "running"
                  /\ Verdict(j, e, NoToken) = "ok"
                => Overtaken(w)'
      PROVE  CrashInv'
  <2>1. UNCHANGED <<stream, advisories, pc, msg, attempt, token>>
    BY Zenon, <1>8 DEF brokerVars, localVars
  <2>2. Moves /\ \A v \in Worker : Same(v)
    BY Zenon, <2>1
  <2>3. ASSUME NEW v \in Worker PROVE Excused(v)'
    <3>1. CASE JobOf(v) = j /\ pc[v] \in Late /\ Verdict(j, e, NoToken) = "ok"
      <4>1. pc[v] \in Executing => jobs[j].state = "running" \/ Overtaken(v)
        BY Zenon, <3>1 DEF CrashInv, Excused
      <4>2. pc[v] = "unwind" => Overtaken(v)
        BY Zenon DEF CrashInv, Excused
      <4>3. Overtaken(v) => Overtaken(v)'
        BY Zenon, <1>1, <2>2, <3>1
      <4>4. Overtaken(v)'
        BY Zenon, <1>8, <3>1, <4>1, <4>2, <4>3 DEF Late
      <4> QED BY Zenon, <4>4 DEF Excused
    <3>2. CASE JobOf(v) # j \/ Verdict(j, e, NoToken) # "ok" \/ pc[v] \notin Late
      <4>1. Verdict(j, e, NoToken) # "ok" => jobs' = jobs
        BY Zenon, <1>8, Rollback
      <4>2. Verdict(j, e, NoToken) = "ok" => \A i \in Job \ {j} : jobs'[i] = jobs[i]
        BY Zenon, <1>0, <1>8, PlainCommit
      <4>3. pc[v] \in Late => jobs'[JobOf(v)] = jobs[JobOf(v)]
        BY Zenon, <1>b, <3>2, <4>1, <4>2
      <4> QED BY Zenon, <1>2, <2>1, <2>2, <4>3
    <3> QED BY Zenon, <3>1, <3>2
  <2> QED BY Zenon, <2>3 DEF CrashInv
<1>9. ASSUME NEW l \in Listener, RecordDeadLettered(l) PROVE CrashInv'
  <2>1. adv[l] \in advisories
    BY Zenon, <1>0, <1>9 DEF RecordDeadLettered, QuarantineInv
  <2>2. stream[adv[l]].job \in Job /\ stream[adv[l]].num_delivered \in Nat
    BY Zenon, <1>0, <2>1
  <2>3. /\ record_event(stream[adv[l]].job, "dead_lettered", stream[adv[l]].num_delivered, NoToken)
        /\ UNCHANGED <<brokerVars, pc, localVars, kvVars, shutdown>>
    BY Zenon, <1>9 DEF RecordDeadLettered
  <2>4. UNCHANGED <<stream, advisories, msg, attempt, token>>
    BY Zenon, <2>3 DEF brokerVars, localVars
  <2>5. ASSUME NEW w \in Worker, pc[w] \in Executing, JobOf(w) = stream[adv[l]].job,
               jobs[JobOf(w)].state = "running",
               Verdict(JobOf(w), "dead_lettered", NoToken) = "ok"
        PROVE  Overtaken(w)'
    BY Zenon, <1>0, <2>1, <2>2, <2>3, <2>4, <2>5, QuarantineOvertakes
  <2> DEFINE j == stream[adv[l]].job
             a == stream[adv[l]].num_delivered
  <2>6. \A w \in Worker :
                pc[w] \in Executing /\ JobOf(w) = j /\ jobs[j].state = "running"
                  /\ Verdict(j, "dead_lettered", NoToken) = "ok"
                => Overtaken(w)'
    BY Zenon, <2>5
  <2>7. /\ j \in Job /\ a \in Nat /\ "dead_lettered" \in PlainEvent
        /\ record_event(j, "dead_lettered", a, NoToken)
    BY Zenon, <2>2, <2>3 DEF PlainEvent
  <2> HIDE DEF j, a
  <2> QED BY Zenon, <1>8, <2>3, <2>6, <2>7
<1>10. ASSUME NEW j \in Job, replay_job(j) PROVE CrashInv'
  <2>1. /\ record_event(j, "replayed", 0, NoToken) /\ Verdict(j, "replayed", NoToken) = "ok"
        /\ UNCHANGED <<brokerVars, pc, localVars, kvVars, shutdown>>
    BY Zenon, <1>10 DEF replay_job
  <2>2. 0 \in Nat /\ "replayed" \in PlainEvent /\ jobs[j].state \in JobState
    BY <1>0 DEF PlainEvent, RepoTypeOK, JobRow
  <2>3. apply(jobs[j].state, "replayed") # IllegalTransition
    BY Zenon, <1>0, <2>1, <2>2, PlainCommit
  <2>4. jobs[j].state # "running"
    BY Zenon, <2>2, <2>3, ApplyPlainEvents
  <2>5. \A w \in Worker :
                pc[w] \in Executing /\ JobOf(w) = j /\ jobs[j].state = "running"
                  /\ Verdict(j, "replayed", NoToken) = "ok"
                => Overtaken(w)'
    BY Zenon, <2>4
  <2> QED BY Zenon, <1>8, <2>1, <2>2, <2>5
<1>11. ASSUME NEW m \in Message, settle(m) \/ publish(m),
              UNCHANGED <<repoVars, pc, localVars, kvVars, shutdown>>
       PROVE  CrashInv'
  <2>1. UNCHANGED <<jobs, pc, msg, attempt, token>>
    BY Zenon, <1>11 DEF repoVars, localVars
  <2>2. Moves
    BY <1>0, <1>11 DEF settle, publish
  <2> QED BY Zenon, <1>2, <2>1, <2>2 DEF CrashInv
<1>12. ASSUME NEW l \in Listener, DeleteMsg(l) PROVE CrashInv'
  BY Zenon, <1>11, <1>12 DEF ListenInv, DeleteMsg
<1>13. ASSUME NEW j \in Job, RelayReplay(j) PROVE CrashInv'
  BY Zenon, <1>11, <1>13 DEF RelayReplay, Unsent
<1>14. ASSUME UNCHANGED vars PROVE CrashInv'
  BY Zenon, <1>7, <1>14
<1>15. ASSUME NEW l \in Listener,
              \/ \E m \in Message : FetchAdvisory(l, m)
              \/ GetMsg(l) \/ CopyMsg(l) \/ AckAdvisory(l) \/ QuarantineRaises(l) \/ ListenerCrash(l)
       PROVE  CrashInv'
  BY Zenon, <1>14, <1>15 DEF FetchAdvisory, GetMsg, CopyMsg, AckAdvisory, QuarantineRaises,
     ListenerCrash
<1> QED BY Zenon, <1>7, <1>9, <1>10, <1>12, <1>13, <1>14, <1>15 DEF DNext, Listen, allVars

\* GuardInv and CrashInv hold in every reachable state of the composition.
LEMMA SpecCrash == Punctual /\ DSpec => [](IInv /\ GuardInv /\ CrashInv)
<1> SUFFICES ASSUME Punctual PROVE DSpec => [](IInv /\ GuardInv /\ CrashInv)
  OBVIOUS
<1>1. DInit => GuardInv /\ CrashInv
  <2> SUFFICES ASSUME DInit PROVE GuardInv /\ CrashInv
    OBVIOUS
  <2>1. pc = [w \in Worker |-> "idle"] /\ claim = [j \in Job |-> Absent]
    BY Zenon DEF DInit, FreshStart
  <2>2. ClaimInv /\ HolderTokens
    BY Zenon, <2>1 DEF ClaimInv, Claiming, HolderTokens, Holding, Executing
  <2>3. CrashInv
    BY Zenon, <2>1 DEF CrashInv, Excused, Executing
  <2> QED BY Zenon, <2>2, <2>3 DEF GuardInv
<1>2. IInv /\ ListenInv /\ NotLostInv /\ IInv' /\ GuardInv /\ CrashInv /\ [DNext]_allVars
        => GuardInv' /\ CrashInv'
  BY Zenon, NextGuard, NextCrash
<1>3. DSpec => [](IInv /\ ListenInv /\ NotLostInv)
  BY SpecNotLost, PTL
<1> QED BY <1>1, <1>2, <1>3, PTL DEF DSpec

\* The except clauses of Worker.handle, against the listener's record_event
\* (_quarantine_inner): the process of a punctual worker ends on an exception only
\* when the listener dead-lettered the job under it, because of another message.
THEOREM CrashesNeedQuarantine == Punctual /\ DSpec => []CrashNeedsQuarantine
<1>1. CrashInv => CrashNeedsQuarantine
  BY Zenon DEF CrashInv, Excused, Overtaken, CrashNeedsQuarantine
<1> QED BY <1>1, SpecCrash, PTL

\* Quarantine and replay do not weaken the execution guard (try_claim): a replayed
\* job is still executed by one worker at a time, and still gives its claim back.
THEOREM GuardSurvivesReplay == Punctual /\ DSpec => [](OneExecutor /\ NoLeakedClaim)
<1>1. GuardInv => OneExecutor
  BY ZenonT(30), OneHolder DEF GuardInv, OneExecutor, Claiming
<1> QED BY <1>1, ClaimsReleased, SpecCrash, PTL
==============================================================================
