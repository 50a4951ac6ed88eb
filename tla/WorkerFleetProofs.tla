-------------------------- MODULE WorkerFleetProofs --------------------------
(***************************************************************************)
(* The control flow of Worker.handle and the fence, for any numbers of     *)
(* workers, jobs and messages.                                             *)
(***************************************************************************)
EXTENDS WorkerFleet, TLAPS

(* Writes with a token *)

\* What apply answers to the four events a worker records.
LEMMA ApplyWorkerEvents ==
    ASSUME NEW s \in JobState
    PROVE  /\ apply(s, "started") =
                IF s \in {"queued", "running"} THEN "running" ELSE IllegalTransition
           /\ apply(s, "completed") = IF s = "running" THEN "succeeded" ELSE IllegalTransition
           /\ apply(s, "requeued") = IF s = "running" THEN "queued" ELSE IllegalTransition
           /\ apply(s, "failed") = IF s = "running" THEN "failed" ELSE IllegalTransition
<1> USE DEF apply, legal_events, TRANSITIONS, NoState, IllegalTransition
<1>1. CASE s = "submitted"
  BY Zenon, <1>1
<1>2. CASE s = "queued"
  BY Zenon, <1>2
<1>3. CASE s = "running"
  BY Zenon, <1>3
<1>4. CASE s = "succeeded"
  BY <1>4
<1>5. CASE s = "failed"
  BY <1>5
<1>6. CASE s = "dead_letter"
  BY Zenon, <1>6
<1> QED BY Zenon, <1>1, <1>2, <1>3, <1>4, <1>5, <1>6 DEF JobState

WorkerEvent == {"started", "completed", "requeued", "failed"}

\* What a committed record_event of a worker leaves behind: the fencing WHERE
\* clause held, the row carries the new state and token, and the log grew by
\* exactly the recorded event.
LEMMA Commit ==
    ASSUME RepoTypeOK, NEW j \in Job, NEW e \in WorkerEvent,
           NEW a \in Nat, NEW t \in Nat \ {0},
           record_event(j, e, a, t), Verdict(j, e, t) = "ok"
    PROVE  /\ RepoTypeOK'
           /\ jobs[j].fence_token <= t /\ jobs'[j].fence_token = t
           /\ apply(jobs[j].state, e) # IllegalTransition
           /\ jobs'[j].state = apply(jobs[j].state, e)
           /\ \A i \in Job \ {j} : jobs'[i] = jobs[i] /\ job_events'[i] = job_events[i]
           /\ Len(job_events'[j]) = Len(job_events[j]) + 1
           /\ job_events'[j][Len(job_events[j]) + 1] =
                 [event |-> e, attempt |-> a, fence_token |-> t]
           /\ \A i \in 1..Len(job_events[j]) : job_events'[j][i] = job_events[j][i]
<1> DEFINE rec == [event |-> e, attempt |-> a, fence_token |-> t]
<1>1. /\ jobs' = [jobs EXCEPT ![j] = UpdatedRow(j, e, a, t)]
      /\ job_events' = [job_events EXCEPT ![j] = Append(@, rec)]
  BY Zenon DEF record_event
<1>2. /\ jobs[j].state \in JobState /\ jobs[j].attempts \in Nat
      /\ jobs[j].fence_token \in Nat /\ jobs[j].result \in Nat
  BY Zenon DEF RepoTypeOK, JobRow
<1>3. apply(jobs[j].state, e) # IllegalTransition
  BY Zenon DEF Verdict, IllegalTransition
<1>4. jobs[j].fence_token <= t /\ EffectiveToken(j, t) = t
  BY <1>2, <1>3 DEF Verdict, EffectiveToken, NoToken
<1>5. apply(jobs[j].state, e) \in JobState
  BY Zenon, <1>2, <1>3, ApplyWorkerEvents DEF WorkerEvent, JobState
<1>6. UpdatedRow(j, e, a, t) \in JobRow
  BY Zenon, <1>2, <1>4, <1>5 DEF UpdatedRow, JobRow, Greatest
<1>7. /\ UpdatedRow(j, e, a, t).fence_token = t
      /\ UpdatedRow(j, e, a, t).state = apply(jobs[j].state, e)
  BY Zenon, <1>4 DEF UpdatedRow
<1>8. rec \in EventRow
  BY Zenon DEF EventRow, EventType, WorkerEvent
<1>9. job_events[j] \in Seq(EventRow)
  BY Zenon DEF RepoTypeOK
<1>10. RepoTypeOK'
  BY <1>1, <1>6, <1>8, <1>9 DEF RepoTypeOK
<1>11. /\ jobs'[j] = UpdatedRow(j, e, a, t)
       /\ job_events'[j] = Append(job_events[j], rec)
       /\ \A i \in Job \ {j} : jobs'[i] = jobs[i] /\ job_events'[i] = job_events[i]
  BY Zenon, <1>1 DEF RepoTypeOK
<1>12. /\ Len(job_events'[j]) = Len(job_events[j]) + 1
       /\ job_events'[j][Len(job_events[j]) + 1] = rec
       /\ \A i \in 1..Len(job_events[j]) : job_events'[j][i] = job_events[j][i]
  BY <1>8, <1>9, <1>11
<1> QED BY Zenon, <1>3, <1>4, <1>7, <1>10, <1>11, <1>12

\* A record_event that raises leaves the database alone.
LEMMA Rollback ==
    ASSUME NEW j, NEW e, NEW a, NEW t, record_event(j, e, a, t), Verdict(j, e, t) # "ok"
    PROVE  jobs' = jobs /\ job_events' = job_events
BY Zenon DEF record_event, repoVars

\* Committed or rolled back, the rows keep their types.
LEMMA RecordType ==
    ASSUME RepoTypeOK, NEW j \in Job, NEW e \in WorkerEvent,
           NEW a \in Nat, NEW t \in Nat \ {0}, record_event(j, e, a, t)
    PROVE  RepoTypeOK'
<1>1. CASE Verdict(j, e, t) = "ok"
  BY Zenon, <1>1, Commit
<1>2. CASE Verdict(j, e, t) # "ok"
  BY Zenon, <1>2, Rollback DEF RepoTypeOK
<1> QED BY Zenon, <1>1, <1>2

------------------------------------------------------------------------------
(* Types and control flow *)

\* The except clauses send a repository write to one of three places.
LEMMA AfterWriteLabel ==
    ASSUME NEW w \in Worker, NEW e, NEW next, AfterWrite(w, e, next)
    PROVE  /\ Verdict(JobOf(w), e, token[w]) = "ok" => Goto(w, next)
           /\ Verdict(JobOf(w), e, token[w]) # "ok" =>
                 Goto(w, "unlock") \/ Goto(w, "release_term")
BY Zenon DEF AfterWrite

\* Whatever the broker does to a message, the stream keeps its type and no
\* message changes its job.
LEMMA BrokerStep ==
    ASSUME stream \in [Message -> [job : Job, num_delivered : Nat, status : Status]],
           advisories \subseteq Message,
           NEW m \in Message, deliver(m) \/ settle(m) \/ give_back(m)
    PROVE  /\ stream' \in [Message -> [job : Job, num_delivered : Nat, status : Status]]
           /\ advisories' \subseteq Message
           /\ \A n \in Message : stream'[n].job = stream[n].job
<1>1. CASE deliver(m)
  BY <1>1 DEF deliver, Status
<1>2. CASE settle(m)
  BY Zenon, <1>2 DEF settle, Status
<1>3. CASE give_back(m)
  <2>1. CASE stream[m].status # "pending"
    BY Zenon, <1>3, <2>1 DEF give_back, brokerVars
  <2>2. CASE stream[m].status = "pending" /\ stream[m].num_delivered < MaxDeliver
    BY <1>3, <2>2 DEF give_back, Status
  <2>3. CASE stream[m].status = "pending" /\ ~(stream[m].num_delivered < MaxDeliver)
    BY <1>3, <2>3 DEF give_back, Status
  <2> QED BY Zenon, <2>1, <2>2, <2>3
<1> QED BY Zenon, <1>1, <1>2, <1>3

\* A step of the broker moves one message to a status.
Moved(m, status) ==
    /\ stream'[m].status = status
    /\ \A n \in Message : stream'[n].job = stream[n].job
    /\ \A n \in Message \ {m} : stream'[n] = stream[n]

\* What the broker's operations do to statuses and advisories.
LEMMA MessageMoves ==
    ASSUME stream \in [Message -> [job : Job, num_delivered : Nat, status : Status]],
           NEW m \in Message
    PROVE  /\ publish(m) => Moved(m, "ready") /\ stream[m].status = "unsent" /\ advisories' = advisories
           /\ deliver(m) => Moved(m, "pending") /\ stream[m].status = "ready" /\ advisories' = advisories
           /\ settle(m) => Moved(m, "gone") /\ advisories' = advisories
           /\ give_back(m) /\ stream[m].status = "pending" =>
                 \/ Moved(m, "ready") /\ advisories' = advisories
                 \/ Moved(m, "exhausted") /\ advisories' = advisories \union {m}
<1>1. publish(m) => Moved(m, "ready") /\ stream[m].status = "unsent" /\ advisories' = advisories
  BY DEF publish, Moved
<1>2. deliver(m) => Moved(m, "pending") /\ stream[m].status = "ready" /\ advisories' = advisories
  BY DEF deliver, Moved
<1>3. settle(m) => Moved(m, "gone") /\ advisories' = advisories
  BY DEF settle, Moved
<1>4. give_back(m) /\ stream[m].status = "pending" =>
         \/ Moved(m, "ready") /\ advisories' = advisories
         \/ Moved(m, "exhausted") /\ advisories' = advisories \union {m}
  BY DEF give_back, Moved
<1> QED BY Zenon, <1>1, <1>2, <1>3, <1>4

------------------------------------------------------------------------------
(* Types and control *)

\* Control points at which a worker handles no delivery.
Away == {"idle", "fetching"} \union Exited

\* What a control point says about the delivery and the lease in hand.
ControlInv ==
    \A w \in Worker :
       /\ pc[w] \in Away => msg[w] = NoMsg /\ token[w] = NoToken
       /\ pc[w] \notin Away => msg[w] \in Message
       /\ pc[w] \in Leased \union {"acquire"} => token[w] # NoToken

BaseInv == TypeOK /\ ControlInv

\* A worker that handles a delivery handles it for some job.
LEMMA JobOfType ==
    ASSUME BaseInv, NEW w \in Worker, pc[w] \notin Away
    PROVE  msg[w] \in Message /\ JobOf(w) \in Job
BY Zenon DEF BaseInv, ControlInv, TypeOK, JobOf

\* A fleet that has just been started satisfies BaseInv, whatever the stream holds.
LEMMA InitBase ==
    ASSUME FreshStart,
           stream \in [Message -> [job : Job, num_delivered : Nat, status : Status]]
    PROVE  BaseInv
<1>1. RepoTypeOK
  <2>1. SubmittedRow \in JobRow
    BY Zenon DEF SubmittedRow, JobRow, JobState
  <2>2. SubmittedLog \in Seq(EventRow)
    BY DEF SubmittedLog, EventRow, EventType, NoToken
  <2> QED BY Zenon, <2>1, <2>2 DEF FreshStart, RepoTypeOK
<1>2. TypeOK
  BY Zenon, <1>1 DEF FreshStart, TypeOK, PC, NoToken, Absent, NoMsg
<1>3. ControlInv
  BY Zenon DEF FreshStart, ControlInv, Away, Leased
<1> QED BY Zenon, <1>2, <1>3 DEF BaseInv

\* A step inside handle keeps the control invariant.
LEMMA Move ==
    ASSUME BaseInv, NEW w \in Worker, NEW l \in PC \ Away, pc[w] \notin Away,
           Goto(w, l), UNCHANGED <<msg, attempt>>, token' \in [Worker -> Nat],
           \A v \in Worker \ {w} : token'[v] = token[v],
           l \in Leased \union {"acquire"} => token'[w] # NoToken
    PROVE  ControlInv' /\ pc' \in [Worker -> PC]
<1>1. pc' \in [Worker -> PC]
  BY Zenon DEF Goto, BaseInv, TypeOK
<1>2. pc \in [Worker -> PC] /\ pc' = [pc EXCEPT ![w] = l] /\ msg' = msg
  BY Zenon DEF Goto, BaseInv, TypeOK
<1>3. ControlInv'
  BY Zenon, <1>2 DEF BaseInv, ControlInv
<1> QED BY Zenon, <1>1, <1>3

\* Leaving handle, to the loop or out of the process, keeps the control
\* invariant.
LEMMA Left ==
    ASSUME BaseInv, NEW w \in Worker, NEW l \in Away, Leave(w, l)
    PROVE  /\ ControlInv'
           /\ pc' \in [Worker -> PC] /\ msg' \in [Worker -> Message \union {NoMsg}]
           /\ attempt' \in [Worker -> Nat] /\ token' \in [Worker -> Nat]
<1>1. /\ pc' = [pc EXCEPT ![w] = l] /\ msg' = [msg EXCEPT ![w] = NoMsg]
      /\ attempt' = [attempt EXCEPT ![w] = 0] /\ token' = [token EXCEPT ![w] = NoToken]
  BY Zenon DEF Leave, Goto
<1>2. l \in PC /\ l \notin Leased \union {"acquire"}
  BY Zenon DEF Away, Exited, PC, Leased
<1>3. pc \in [Worker -> PC] /\ msg \in [Worker -> Message \union {NoMsg}]
      /\ token \in [Worker -> Nat] /\ attempt \in [Worker -> Nat]
  BY Zenon DEF BaseInv, TypeOK
<1>4. ControlInv'
  BY ZenonT(30), <1>1, <1>2, <1>3 DEF BaseInv, ControlInv
<1> QED BY Zenon, <1>1, <1>2, <1>3, <1>4 DEF NoToken

\* Every step of the fleet preserves BaseInv.
LEMMA NextBase == BaseInv /\ [Next]_vars => BaseInv'
<1> SUFFICES ASSUME BaseInv, [Next]_vars PROVE BaseInv'
  OBVIOUS
<1> USE BrokerAssumption DEF BaseInv
<1>a. ASSUME NEW w \in Worker, BeginFetch(w) \/ FetchTimeout(w) \/ Stop(w) PROVE BaseInv'
  <2>1. /\ pc[w] \in Away /\ \E l \in Away : Goto(w, l)
        /\ UNCHANGED <<jobs, job_events, stream, advisories, msg, attempt, token,
                       claim, done, lease, counter, shutdown>>
    BY Zenon, <1>a DEF BeginFetch, FetchTimeout, Stop, repoVars, brokerVars, localVars,
                kvVars, Away, Exited
  <2>2. PICK l \in Away : pc' = [pc EXCEPT ![w] = l]
    BY Zenon, <2>1 DEF Goto
  <2>3. l \in PC /\ l \notin Leased \union {"acquire"}
    BY Zenon DEF Away, Exited, PC, Leased
  <2>4. TypeOK'
    BY Zenon, <2>1, <2>2, <2>3 DEF TypeOK, RepoTypeOK
  <2>5. ControlInv'
    BY Zenon, <2>1, <2>2, <2>3 DEF TypeOK, ControlInv
  <2> QED BY Zenon, <2>4, <2>5
<1>b. ASSUME NEW w \in Worker, NEW m \in Message, Fetch(w, m) PROVE BaseInv'
  <2>1. /\ pc[w] = "fetching" /\ pc' = [pc EXCEPT ![w] = "received"]
        /\ msg' = [msg EXCEPT ![w] = m]
        /\ attempt' = [attempt EXCEPT ![w] = stream[m].num_delivered + 1]
        /\ UNCHANGED <<jobs, job_events, token, claim, done, lease, counter, shutdown>>
    BY Zenon, <1>b DEF Fetch, Goto, repoVars, kvVars
  <2>2. /\ stream' \in [Message -> [job : Job, num_delivered : Nat, status : Status]]
        /\ advisories' \subseteq Message
    BY Zenon, <1>b, BrokerStep DEF Fetch, TypeOK
  <2>3. stream[m].num_delivered + 1 \in Nat
    BY DEF TypeOK
  <2>4. TypeOK'
    BY Zenon, <2>1, <2>2, <2>3 DEF TypeOK, RepoTypeOK, PC, Guarding
  <2>5. ControlInv'
    BY Zenon, <2>1 DEF TypeOK, ControlInv, Away, Exited, Leased
  <2> QED BY Zenon, <2>4, <2>5
<1>c. ASSUME NEW w \in Worker, request_shutdown(w) PROVE BaseInv'
  BY ZenonT(30), <1>c DEF request_shutdown, TypeOK, RepoTypeOK, ControlInv, repoVars,
     brokerVars, localVars, kvVars
<1>d. ASSUME NEW w \in Worker, Poisoned(w) \/ Nak(w) \/ AckOrTerm(w) PROVE BaseInv'
  <2>1. /\ pc[w] \notin Away
        /\ Leave(w, "idle") \/ (/\ token[w] # NoToken
                                /\ Goto(w, "unlock")
                                /\ UNCHANGED <<msg, attempt, token>>)
        /\ UNCHANGED <<jobs, job_events, claim, done, lease, counter, shutdown>>
    BY Zenon, <1>d DEF Poisoned, Nak, AckOrTerm, AfterReply, repoVars, kvVars, localVars,
       Away, Exited
  <2>2. /\ stream' \in [Message -> [job : Job, num_delivered : Nat, status : Status]]
        /\ advisories' \subseteq Message
    <3>1. msg[w] \in Message
      BY Zenon, <2>1, JobOfType
    <3>2. give_back(msg[w]) \/ settle(msg[w])
      BY Zenon, <1>d DEF Poisoned, Nak, AckOrTerm
    <3> QED BY Zenon, <3>1, <3>2, BrokerStep DEF TypeOK
  <2>3. CASE Leave(w, "idle")
    BY Zenon, <2>1, <2>2, <2>3, Left DEF TypeOK, RepoTypeOK, Away
  <2>4. CASE token[w] # NoToken /\ Goto(w, "unlock") /\ UNCHANGED <<msg, attempt, token>>
    BY Zenon, <2>1, <2>2, <2>4, Move DEF TypeOK, RepoTypeOK, PC, Leased, Away, Exited
  <2> QED BY Zenon, <2>1, <2>3, <2>4
<1>e. ASSUME NEW w \in Worker, ReleaseLease(w) \/ Die(w) PROVE BaseInv'
  <2>1. /\ \E l \in Away : Leave(w, l)
        /\ UNCHANGED <<jobs, job_events, stream, advisories, claim, done, counter, shutdown>>
    BY Zenon, <1>e DEF ReleaseLease, Die, repoVars, brokerVars, kvVars, Away, Exited
  <2>2. lease' \in [Job -> {Absent} \union (Worker \X Nat)]
    BY Zenon, <1>e DEF ReleaseLease, Die, kvVars, compare_and_delete, TypeOK
  <2> QED BY Zenon, <2>1, <2>2, Left DEF TypeOK, RepoTypeOK
<1>f. ASSUME NEW w \in Worker, GetDone(w) \/ Execute(w) PROVE BaseInv'
  <2>1. /\ pc[w] \notin Away
        /\ \E l \in {"ack", "claim"} \union (IF pc[w] = "execute" THEN {"complete", "fail"} ELSE {}) :
              Goto(w, l)
        /\ UNCHANGED <<jobs, job_events, stream, advisories, msg, attempt, token,
                       claim, done, lease, counter, shutdown>>
    BY Zenon, <1>f DEF GetDone, Execute, repoVars, brokerVars, localVars, kvVars, Away,
       Exited
  <2>2. pc[w] = "execute" => token[w] # NoToken
    BY Zenon DEF ControlInv, Leased
  <2> QED BY Zenon, <2>1, <2>2, Move DEF TypeOK, RepoTypeOK, PC, Leased, Away, Exited,
             Replying, Guarding
<1>g. ASSUME NEW w \in Worker, SetClaim(w) \/ DropClaim(w) \/ release_claim(w) PROVE BaseInv'
  <2>1. /\ pc[w] \notin Away
        /\ \E l \in {"incr", "nak", "ack", "term"} : Goto(w, l)
        /\ UNCHANGED <<jobs, job_events, stream, advisories, msg, attempt, token,
                       done, lease, counter, shutdown>>
    BY Zenon, <1>g DEF SetClaim, DropClaim, release_claim, repoVars, brokerVars,
       localVars, Away, Exited
  <2>2. claim' \in [Job -> {Absent} \union (Worker \X Nat)]
    BY <1>g DEF SetClaim, DropClaim, release_claim, set_if_absent, compare_and_delete,
                Delivery, TypeOK
  <2> QED BY Zenon, <2>1, <2>2, Move DEF TypeOK, RepoTypeOK, PC, Leased, Away, Exited,
             Replying, Guarding
<1>h. ASSUME NEW w \in Worker, IncrToken(w) PROVE BaseInv'
  <2>1. /\ pc[w] \notin Away /\ Goto(w, "acquire")
        /\ counter' = [counter EXCEPT ![JobOf(w)] = @ + 1]
        /\ token' = [token EXCEPT ![w] = counter[JobOf(w)] + 1]
        /\ UNCHANGED <<jobs, job_events, stream, advisories, msg, attempt,
                       claim, done, lease, shutdown>>
    BY Zenon, <1>h DEF IncrToken, repoVars, brokerVars, Away, Exited
  <2>2. counter[JobOf(w)] \in Nat /\ counter[JobOf(w)] + 1 \in Nat
    BY <2>1, JobOfType DEF TypeOK
  <2>3. counter' \in [Job -> Nat]
    <3>1. counter \in [Job -> Nat]
      BY Zenon DEF TypeOK
    <3> QED BY Zenon, <2>1, <2>2, <3>1
  <2>4. /\ token' \in [Worker -> Nat]
        /\ token'[w] # NoToken /\ \A v \in Worker \ {w} : token'[v] = token[v]
    <3>1. counter[JobOf(w)] + 1 \in Nat \ {0}
      BY <2>2
    <3> QED BY Zenon, <2>1, <3>1 DEF TypeOK, NoToken
  <2> QED BY Zenon, <2>1, <2>3, <2>4, Move DEF TypeOK, RepoTypeOK, PC, Away, Exited,
             Guarding
<1>i. ASSUME NEW w \in Worker, SetLease(w) PROVE BaseInv'
  <2>1. /\ pc[w] = "acquire"
        /\ UNCHANGED <<jobs, job_events, stream, advisories, msg, attempt,
                       claim, done, counter, shutdown>>
    BY Zenon, <1>i DEF SetLease, repoVars, brokerVars
  <2>2. lease' \in [Job -> {Absent} \union (Worker \X Nat)]
    BY Zenon, <1>i DEF SetLease, set_if_absent, HeldLease, TypeOK
  <2>3. CASE lease[JobOf(w)] = Absent
    <3>1. Goto(w, "start") /\ UNCHANGED token
      BY Zenon, <1>i, <2>3 DEF SetLease, nx_reply
    <3>2. token[w] # NoToken /\ pc[w] \notin Away
      BY Zenon, <2>1 DEF ControlInv, Away, Exited
    <3> QED BY Zenon, <2>1, <2>2, <3>1, <3>2, Move DEF TypeOK, RepoTypeOK, PC, Leased,
               Away, Exited
  <2>4. CASE lease[JobOf(w)] # Absent
    <3>1. Goto(w, "release_nak") /\ token' = [token EXCEPT ![w] = NoToken]
      BY Zenon, <1>i, <2>4 DEF SetLease, nx_reply
    <3>2. /\ token' \in [Worker -> Nat] /\ pc[w] \notin Away
          /\ \A v \in Worker \ {w} : token'[v] = token[v]
      BY Zenon, <2>1, <3>1 DEF TypeOK, Away, Exited, NoToken
    <3> QED BY Zenon, <2>1, <2>2, <3>1, <3>2, Move DEF TypeOK, RepoTypeOK, PC, Leased,
               Away, Exited, Replying
  <2> QED BY Zenon, <2>3, <2>4
<1>j. ASSUME NEW w \in Worker, SetDone(w) PROVE BaseInv'
  <2>1. /\ pc[w] = "mark_done" /\ Goto(w, "unclaim")
        /\ UNCHANGED <<jobs, job_events, stream, advisories, msg, attempt, token,
                       claim, lease, counter, shutdown>>
    BY Zenon, <1>j DEF SetDone, repoVars, brokerVars, localVars
  <2>2. token[w] # NoToken /\ pc[w] \notin Away
    BY Zenon, <2>1 DEF ControlInv, Leased, Away, Exited
  <2>3. done' \subseteq Job
    BY ZenonT(30), <1>j, <2>2, JobOfType DEF SetDone, TypeOK
  <2> QED BY Zenon, <2>1, <2>2, <2>3, Move DEF TypeOK, RepoTypeOK, PC, Leased, Away, Exited
<1>k. ASSUME NEW w \in Worker, RecordStarted(w) \/ RecordCompleted(w) \/ RecordFailure(w)
      PROVE  BaseInv'
  <2>1. /\ pc[w] \in {"start", "complete", "fail"}
        /\ \E l \in {"execute", "mark_done", "unlock", "unwind", "release_nak", "release_term"} :
              Goto(w, l)
        /\ \E e \in WorkerEvent : record_event(JobOf(w), e, attempt[w], token[w])
        /\ UNCHANGED <<stream, advisories, msg, attempt, token,
                       claim, done, lease, counter, shutdown>>
    BY Zenon, <1>k, AfterWriteLabel DEF RecordStarted, RecordCompleted, RecordFailure,
       WorkerEvent, brokerVars, localVars, kvVars
  <2>2. /\ pc[w] \notin Away /\ token[w] \in Nat \ {0} /\ attempt[w] \in Nat
        /\ JobOf(w) \in Job
    BY Zenon, <2>1, JobOfType DEF TypeOK, ControlInv, NoToken, Leased, Away, Exited
  <2>3. RepoTypeOK'
    BY Zenon, <2>1, <2>2, RecordType DEF TypeOK
  <2> QED BY Zenon, <2>1, <2>2, <2>3, Move DEF TypeOK, PC, Leased, Away, Exited,
             Replying, NoToken
<1>l. ASSUME NEW m \in Message, AckWaitExpires(m) PROVE BaseInv'
  <2>1. /\ give_back(m)
        /\ UNCHANGED <<jobs, job_events, pc, msg, attempt, token,
                       claim, done, lease, counter, shutdown>>
    BY Zenon, <1>l DEF AckWaitExpires, repoVars, localVars, kvVars
  <2>2. /\ stream' \in [Message -> [job : Job, num_delivered : Nat, status : Status]]
        /\ advisories' \subseteq Message
    BY ZenonT(30), <2>1, BrokerStep DEF TypeOK
  <2> QED BY Zenon, <2>1, <2>2 DEF TypeOK, RepoTypeOK, ControlInv
<1>m. ASSUME NEW j \in Job, ClaimExpires(j) \/ LeaseExpires(j) \/ DoneExpires(j) PROVE BaseInv'
  <2>1. /\ claim' = claim \/ claim' = [claim EXCEPT ![j] = Absent]
        /\ lease' = lease \/ lease' = [lease EXCEPT ![j] = Absent]
        /\ done' \subseteq done
        /\ UNCHANGED <<jobs, job_events, stream, advisories, pc, msg, attempt, token,
                       counter, shutdown>>
    BY Zenon, <1>m DEF ClaimExpires, LeaseExpires, DoneExpires, repoVars, brokerVars,
       localVars
  <2>2. /\ claim' \in [Job -> {Absent} \union (Worker \X Nat)]
        /\ lease' \in [Job -> {Absent} \union (Worker \X Nat)]
    BY Zenon, <2>1 DEF TypeOK
  <2> QED BY ZenonT(30), <2>1, <2>2 DEF TypeOK, RepoTypeOK, ControlInv
<1>n. CASE UNCHANGED vars
  BY ZenonT(30), <1>n DEF vars, TypeOK, RepoTypeOK, ControlInv
<1> QED
  BY Zenon, <1>a, <1>b, <1>c, <1>d, <1>e, <1>f, <1>g, <1>h, <1>i, <1>j, <1>k, <1>l, <1>m,
     <1>n
     DEF Next, Run
------------------------------------------------------------------------------
(* The steps by what they write *)

\* Control points between a worker's STARTED and its outcome.
Executing == {"execute", "complete", "fail"}

\* The steps that touch neither the database nor a token counter,
\* and what they do to the workers.
LEMMA QuietStep ==
    ASSUME BaseInv, [Next]_vars,
           ~ \E w \in Worker : \/ IncrToken(w) \/ RecordStarted(w)
                               \/ RecordCompleted(w) \/ RecordFailure(w)
    PROVE  /\ jobs' = jobs /\ job_events' = job_events /\ counter' = counter
           /\ \A m \in Message : stream'[m].job = stream[m].job
           /\ \A w \in Worker :
                 \/ /\ msg'[w] = msg[w] /\ attempt'[w] = attempt[w] /\ token'[w] = token[w]
                    /\ pc'[w] \in Executing => pc[w] \in Executing
                 \/ token'[w] = NoToken /\ pc'[w] \notin Executing
<1> DEFINE Quiet ==
      /\ jobs' = jobs /\ job_events' = job_events /\ counter' = counter
      /\ \A m \in Message : stream'[m].job = stream[m].job
      /\ \A w \in Worker :
            \/ /\ msg'[w] = msg[w] /\ attempt'[w] = attempt[w] /\ token'[w] = token[w]
               /\ pc'[w] \in Executing => pc[w] \in Executing
            \/ token'[w] = NoToken /\ pc'[w] \notin Executing
<1> SUFFICES Quiet
  BY ZenonT(30)
<1>0. /\ pc \in [Worker -> PC] /\ msg \in [Worker -> Message \union {NoMsg}]
      /\ attempt \in [Worker -> Nat] /\ token \in [Worker -> Nat]
      /\ stream \in [Message -> [job : Job, num_delivered : Nat, status : Status]]
      /\ advisories \subseteq Message
  BY ZenonT(30) DEF BaseInv, TypeOK
<1>1. ASSUME NEW w \in Worker,
             \/ BeginFetch(w) \/ FetchTimeout(w) \/ Stop(w) \/ GetDone(w) \/ SetClaim(w)
             \/ Execute(w) \/ SetDone(w) \/ DropClaim(w) \/ release_claim(w)
      PROVE  Quiet
  <2>1. /\ \E l : /\ pc' = [pc EXCEPT ![w] = l]
                  /\ l \in Executing => pc[w] \in Executing
        /\ UNCHANGED <<jobs, job_events, stream, msg, attempt, token, counter>>
    BY SMTT(30), <1>1 DEF BeginFetch, FetchTimeout, Stop, GetDone, SetClaim, Execute,
       SetDone,
       DropClaim, release_claim, Goto, Executing, repoVars, brokerVars, localVars, kvVars
  <2>2. PICK l : /\ pc' = [pc EXCEPT ![w] = l]
                 /\ l \in Executing => pc[w] \in Executing
    BY Zenon, <2>1
  <2>3. \A v \in Worker : pc'[v] \in Executing => pc[v] \in Executing
    BY Zenon, <1>0, <2>2
  <2> QED BY ZenonT(30), <2>1, <2>3
<1>2. ASSUME NEW w \in Worker, NEW m \in Message, Fetch(w, m) PROVE Quiet
  <2>1. /\ pc[w] = "fetching" /\ pc' = [pc EXCEPT ![w] = "received"] /\ deliver(m)
        /\ msg' = [msg EXCEPT ![w] = m]
        /\ attempt' = [attempt EXCEPT ![w] = stream[m].num_delivered + 1]
        /\ UNCHANGED <<jobs, job_events, token, counter>>
    BY Zenon, <1>2 DEF Fetch, Goto, repoVars, kvVars
  <2>2. token[w] = NoToken
    BY ZenonT(30), <2>1 DEF BaseInv, ControlInv, Away
  <2> QED BY ZenonT(30), <1>0, <2>1, <2>2, BrokerStep DEF Executing
<1>3. ASSUME NEW w \in Worker, Poisoned(w) \/ Nak(w) \/ AckOrTerm(w) PROVE Quiet
  <2>1. /\ pc[w] \notin Away
        /\ give_back(msg[w]) \/ settle(msg[w])
        /\ \/ Leave(w, "idle")
           \/ Goto(w, "unlock") /\ UNCHANGED <<msg, attempt, token>>
        /\ UNCHANGED <<jobs, job_events, counter>>
    BY ZenonT(30), <1>3 DEF Poisoned, Nak, AckOrTerm, AfterReply, repoVars, kvVars,
       localVars, Away, Exited
  <2>2. msg[w] \in Message
    BY Zenon, <2>1, JobOfType
  <2>3. \A m \in Message : stream'[m].job = stream[m].job
    BY Zenon, <1>0, <2>1, <2>2, BrokerStep
  <2> QED BY ZenonT(30), <1>0, <2>1, <2>3 DEF Leave, Goto, Executing
<1>4. ASSUME NEW w \in Worker, ReleaseLease(w) \/ Die(w) PROVE Quiet
  <2>1. /\ Leave(w, "idle") \/ Leave(w, "dead")
        /\ UNCHANGED <<jobs, job_events, stream, counter>>
    BY Zenon, <1>4 DEF ReleaseLease, Die, repoVars, brokerVars, kvVars
  <2> QED BY Zenon, <1>0, <2>1 DEF Leave, Goto, Executing
<1>5. ASSUME NEW w \in Worker, SetLease(w) PROVE Quiet
  <2>1. /\ \/ pc' = [pc EXCEPT ![w] = "start"] /\ token' = token
           \/ pc' = [pc EXCEPT ![w] = "release_nak"] /\ token' = [token EXCEPT ![w] = NoToken]
        /\ UNCHANGED <<jobs, job_events, stream, msg, attempt, counter>>
    BY Zenon, <1>5 DEF SetLease, Goto, repoVars, brokerVars
  <2> QED BY Zenon, <1>0, <2>1 DEF Executing
<1>6. ASSUME NEW m \in Message, AckWaitExpires(m) PROVE Quiet
  <2>1. give_back(m) /\ UNCHANGED <<jobs, job_events, pc, msg, attempt, token, counter>>
    BY Zenon, <1>6 DEF AckWaitExpires, repoVars, localVars, kvVars
  <2> QED BY ZenonT(30), <1>0, <2>1, BrokerStep
<1>7. CASE \/ \E w \in Worker : request_shutdown(w)
           \/ \E j \in Job : ClaimExpires(j) \/ LeaseExpires(j) \/ DoneExpires(j)
           \/ UNCHANGED vars
  <2>1. UNCHANGED <<jobs, job_events, stream, pc, msg, attempt, token, counter>>
    BY ZenonT(30), <1>7 DEF request_shutdown, ClaimExpires, LeaseExpires, DoneExpires, vars,
       repoVars, brokerVars, localVars, kvVars
  <2> QED BY ZenonT(30), <2>1
<1> HIDE DEF Quiet
<1> QED BY Zenon, <1>1, <1>2, <1>3, <1>4, <1>5, <1>6, <1>7 DEF Next, Run

\* A write of a worker: which event, and where the handler goes.
LEMMA WriteStep ==
    ASSUME BaseInv, NEW w \in Worker,
           RecordStarted(w) \/ RecordCompleted(w) \/ RecordFailure(w)
    PROVE  /\ pc[w] \in {"start", "complete", "fail"}
           /\ UNCHANGED <<stream, msg, attempt, token, claim, done, lease, counter>>
           /\ \E e \in WorkerEvent, l \in PC \ Away :
                 /\ record_event(JobOf(w), e, attempt[w], token[w]) /\ Goto(w, l)
                 /\ e # "started" => pc[w] \in Executing
                 /\ l \in Executing =>
                       e = "started" /\ Verdict(JobOf(w), e, token[w]) = "ok"
                 /\ l \in {"mark_done", "unclaim", "ack"} =>
                       e = "completed" /\ Verdict(JobOf(w), e, token[w]) = "ok"
                 /\ l \in Leased \union Replying
<1> USE DEF WorkerEvent, Executing, PC, Away, Exited, Leased, Replying
<1>1. CASE RecordStarted(w)
  BY ZenonT(30), <1>1, AfterWriteLabel DEF RecordStarted, brokerVars, localVars, kvVars
<1>2. CASE RecordCompleted(w)
  BY ZenonT(30), <1>2, AfterWriteLabel DEF RecordCompleted, brokerVars, localVars, kvVars
<1>3. CASE RecordFailure(w)
  BY Zenon, <1>3 DEF RecordFailure, brokerVars, localVars, kvVars
<1> QED BY ZenonT(30), <1>1, <1>2, <1>3
------------------------------------------------------------------------------
(* The fence: the token order that makes the log an alternation of starts and
   their own outcomes *)

Last(j) == job_events[j][Len(job_events[j])]

\* A RUNNING row was last written by a STARTED under the row's token.
LogInv ==
    \A j \in Job :
       /\ Len(job_events[j]) > 0
       /\ jobs[j].state = "running" =>
             Last(j).event = "started" /\ Last(j).fence_token = jobs[j].fence_token

\* Neither the row nor a worker is ahead of the job's token counter, and no two
\* workers carry the same token for a job.
TokenInv ==
    /\ \A j \in Job : jobs[j].fence_token <= counter[j]
    /\ \A w \in Worker : msg[w] \in Message => token[w] <= counter[JobOf(w)]
    /\ \A v, w \in Worker :
          v # w /\ msg[v] \in Message /\ msg[w] \in Message /\ JobOf(v) = JobOf(w)
                /\ token[v] # NoToken
            => token[v] # token[w]

\* An executing worker's token has reached the row; while it is still the
\* row's token and the job runs, the log ends with this worker's own STARTED.
RunInv ==
    \A w \in Worker : pc[w] \in Executing =>
       /\ token[w] <= jobs[JobOf(w)].fence_token
       /\ jobs[JobOf(w)].state = "running" /\ jobs[JobOf(w)].fence_token = token[w]
            => Last(JobOf(w)).attempt = attempt[w]

FenceInv == LogInv /\ TokenInv /\ RunInv /\ OutcomeFollowsOwnStart

\* A fleet that has just been started satisfies FenceInv.
LEMMA InitFence ==
    ASSUME FreshStart PROVE FenceInv
<1>1. \A j \in Job : /\ job_events[j] = SubmittedLog /\ jobs[j] = SubmittedRow
                     /\ counter[j] = 0
  BY Zenon DEF FreshStart
<1>2. /\ Len(SubmittedLog) = 2 /\ SubmittedLog[1].event = "submitted"
      /\ SubmittedLog[2].event = "enqueued"
      /\ SubmittedRow.state = "queued" /\ SubmittedRow.fence_token = 0
  BY Zenon DEF SubmittedLog, SubmittedRow
<1>3. LogInv
  BY <1>1, <1>2 DEF LogInv
<1>4. TokenInv
  BY SMTT(30), <1>1, <1>2, BrokerAssumption DEF FreshStart, TokenInv, NoMsg, NoToken
<1>5. RunInv
  BY Zenon DEF FreshStart, RunInv, Executing
<1>6. OutcomeFollowsOwnStart
  BY <1>1, <1>2 DEF OutcomeFollowsOwnStart, Outcome
<1> QED BY Zenon, <1>3, <1>4, <1>5, <1>6 DEF FenceInv

\* A step that writes no row and hands out no token preserves FenceInv: each
\* worker keeps its delivery without starting to execute, or holds no token.
LEMMA QuietFence ==
    ASSUME BaseInv, BaseInv', FenceInv, UNCHANGED <<jobs, job_events>>,
           \A m \in Message : stream'[m].job = stream[m].job,
           counter' = counter,
           \A w \in Worker :
              \/ /\ msg'[w] = msg[w] /\ attempt'[w] = attempt[w] /\ token'[w] = token[w]
                 /\ pc'[w] \in Executing => pc[w] \in Executing
              \/ token'[w] = NoToken /\ pc'[w] \notin Executing
    PROVE  FenceInv'
<1>1. LogInv' /\ OutcomeFollowsOwnStart'
  BY Zenon DEF FenceInv, LogInv, Last, OutcomeFollowsOwnStart
<1>2. \A w \in Worker : msg'[w] = msg[w] /\ msg[w] \in Message => JobOf(w)' = JobOf(w)
  BY Zenon DEF JobOf
<1>3. \A w \in Worker : msg'[w] \in Message => JobOf(w)' \in Job
  BY Zenon DEF BaseInv, TypeOK, JobOf
<1>4. TokenInv'
  <2>1. \A w \in Worker : msg'[w] \in Message => token'[w] <= counter'[JobOf(w)']
    BY SMTT(30), <1>2, <1>3 DEF FenceInv, TokenInv, BaseInv, TypeOK, NoToken
  <2>2. ASSUME NEW v \in Worker, NEW w \in Worker, v # w, msg'[v] \in Message,
               msg'[w] \in Message, JobOf(v)' = JobOf(w)', token'[v] # NoToken
        PROVE  token'[v] # token'[w]
    BY Zenon, <1>2, <2>2 DEF FenceInv, TokenInv
  <2> QED BY Zenon, <2>1, <2>2 DEF FenceInv, TokenInv
<1>5. RunInv'
  <2> SUFFICES ASSUME NEW w \in Worker, pc'[w] \in Executing
               PROVE  /\ token'[w] <= jobs'[JobOf(w)'].fence_token
                      /\ jobs'[JobOf(w)'].state = "running"
                           /\ jobs'[JobOf(w)'].fence_token = token'[w]
                         => Last(JobOf(w))'.attempt = attempt'[w]
    BY Zenon DEF RunInv
  <2>1. /\ pc[w] \in Executing /\ token'[w] = token[w] /\ attempt'[w] = attempt[w]
        /\ msg'[w] = msg[w]
    OBVIOUS
  <2>2. JobOf(w)' = JobOf(w)
    BY Zenon, <1>2, <2>1 DEF BaseInv, ControlInv, Executing, Away, Exited
  <2> QED BY Zenon, <2>1, <2>2 DEF FenceInv, RunInv, Last
<1> QED BY Zenon, <1>1, <1>4, <1>5 DEF FenceInv

\* A committed write of a worker preserves FenceInv: a STARTED makes its writer
\* the only one whose token matches the row, and an outcome is only accepted
\* from the writer of the STARTED the log ends with.
LEMMA CommitFence ==
    ASSUME BaseInv, FenceInv, NEW w \in Worker, NEW e \in WorkerEvent, NEW l,
           pc[w] \in {"start", "complete", "fail"},
           record_event(JobOf(w), e, attempt[w], token[w]),
           Verdict(JobOf(w), e, token[w]) = "ok",
           Goto(w, l), l \in Executing => e = "started",
           e # "started" => pc[w] \in Executing,
           UNCHANGED <<stream, msg, attempt, token, counter>>
    PROVE  FenceInv'
<1> DEFINE j == JobOf(w)
           n == Len(job_events[j])
           rec == [event |-> e, attempt |-> attempt[w], fence_token |-> token[w]]
           last(i) == job_events'[i][Len(job_events'[i])]
<1>1. LogInv /\ TokenInv /\ RunInv /\ OutcomeFollowsOwnStart
  BY Zenon DEF FenceInv
<1>2. /\ RepoTypeOK /\ pc' = [pc EXCEPT ![w] = l]
      /\ pc \in [Worker -> PC] /\ token \in [Worker -> Nat] /\ counter \in [Job -> Nat]
  BY Zenon DEF BaseInv, TypeOK, Goto
<1>3. \A v \in Worker : pc[v] \in Leased =>
         /\ token[v] \in Nat \ {0} /\ attempt[v] \in Nat
         /\ msg[v] \in Message /\ JobOf(v) \in Job
  <2> SUFFICES ASSUME NEW v \in Worker, pc[v] \in Leased
               PROVE  /\ token[v] \in Nat \ {0} /\ attempt[v] \in Nat
                      /\ msg[v] \in Message /\ JobOf(v) \in Job
    OBVIOUS
  <2>1. pc[v] \notin Away
    BY Zenon DEF Leased, Away, Exited
  <2> QED BY Zenon, <2>1, JobOfType DEF BaseInv, TypeOK, ControlInv, NoToken
<1>4. /\ token[w] \in Nat \ {0} /\ attempt[w] \in Nat /\ msg[w] \in Message /\ j \in Job
  BY Zenon, <1>3 DEF Leased
<1>5. /\ RepoTypeOK'
      /\ jobs[j].fence_token <= token[w] /\ jobs'[j].fence_token = token[w]
      /\ apply(jobs[j].state, e) # IllegalTransition
      /\ jobs'[j].state = apply(jobs[j].state, e)
      /\ \A i \in Job \ {j} : jobs'[i] = jobs[i] /\ job_events'[i] = job_events[i]
      /\ Len(job_events'[j]) = n + 1
      /\ job_events'[j][n + 1] = rec
      /\ \A i \in 1..n : job_events'[j][i] = job_events[j][i]
  BY Zenon, <1>2, <1>4, Commit
<1>a. jobs[j].fence_token <= token[w] /\ jobs'[j].fence_token = token[w]
  BY Zenon, <1>5
<1>b. Len(job_events'[j]) = n + 1 /\ job_events'[j][n + 1] = rec
  BY Zenon, <1>5
<1>c. \A i \in Job \ {j} : jobs'[i] = jobs[i] /\ job_events'[i] = job_events[i]
  BY Zenon, <1>5
<1>d. \A i \in 1..n : job_events'[j][i] = job_events[j][i]
  BY Zenon, <1>5
<1>6. n \in Nat /\ n > 0
  <2>1. job_events[j] \in Seq(EventRow)
    BY Zenon, <1>2, <1>4 DEF RepoTypeOK
  <2>2. n > 0
    BY Zenon, <1>1, <1>4 DEF LogInv
  <2> QED BY <2>1, <2>2
<1>7. jobs[j].state \in JobState /\ jobs[j].fence_token \in Nat /\ counter[j] \in Nat
  BY Zenon, <1>2, <1>4 DEF RepoTypeOK, JobRow
<1>8. /\ e = "started" => jobs'[j].state = "running"
      /\ e # "started" => jobs[j].state = "running" /\ jobs'[j].state # "running"
  <2>1. /\ apply(jobs[j].state, e) # IllegalTransition
        /\ jobs'[j].state = apply(jobs[j].state, e)
    BY Zenon, <1>5
  <2> HIDE DEF j
  <2> QED BY <1>7, <2>1, ApplyWorkerEvents DEF WorkerEvent
<1>9. /\ \A v \in Worker : JobOf(v)' = JobOf(v)
      /\ token' = token /\ msg' = msg /\ attempt' = attempt /\ counter' = counter
  BY Zenon DEF JobOf
<1>10. last(j) = rec /\ \A i \in Job \ {j} : last(i) = Last(i)
  <2> HIDE DEF j, rec
  <2> QED BY Zenon, <1>b, <1>c DEF Last
<1>11. rec.event = e /\ rec.fence_token = token[w] /\ rec.attempt = attempt[w]
  OBVIOUS
<1> HIDE DEF j, n, rec, last
<1>12. LogInv'
  <2> SUFFICES ASSUME NEW i \in Job
               PROVE  /\ Len(job_events'[i]) > 0
                      /\ jobs'[i].state = "running" =>
                            last(i).event = "started" /\ last(i).fence_token = jobs'[i].fence_token
    BY Zenon DEF LogInv, Last, last
  <2>1. CASE i = j
    BY <1>a, <1>b, <1>6, <1>8, <1>10, <1>11, <2>1
  <2>2. CASE i # j
    <3>1. /\ jobs'[i] = jobs[i] /\ job_events'[i] = job_events[i] /\ last(i) = Last(i)
      BY Zenon, <1>c, <1>10, <2>2
    <3> QED BY Zenon, <1>1, <3>1 DEF LogInv
  <2> QED BY Zenon, <2>1, <2>2
<1>13. TokenInv'
  <2>1. token[w] <= counter[j]
    BY Zenon, <1>1, <1>4 DEF TokenInv, j
  <2>2. \A i \in Job : jobs'[i].fence_token <= counter[i]
    BY Zenon, <1>1, <1>a, <1>c, <2>1 DEF TokenInv
  <2> QED BY Zenon, <1>1, <1>9, <2>2 DEF TokenInv
<1>14. RunInv'
  <2> SUFFICES ASSUME NEW v \in Worker, pc'[v] \in Executing
               PROVE  /\ token[v] <= jobs'[JobOf(v)].fence_token
                      /\ jobs'[JobOf(v)].state = "running"
                           /\ jobs'[JobOf(v)].fence_token = token[v]
                         => last(JobOf(v)).attempt = attempt[v]
    BY Zenon, <1>9 DEF RunInv, Last, last
  <2>1. CASE v = w
    <3>1. JobOf(v) = j
      BY Zenon, <2>1 DEF j
    <3> QED BY <1>4, <1>a, <1>10, <1>11, <2>1, <3>1
  <2>2. CASE v # w
    <3>1. pc[v] \in Executing
      BY Zenon, <1>2, <2>2
    <3>2. token[v] \in Nat \ {0} /\ msg[v] \in Message /\ JobOf(v) \in Job
      BY Zenon, <1>3, <3>1 DEF Executing, Leased
    <3>3. /\ token[v] <= jobs[JobOf(v)].fence_token
          /\ jobs[JobOf(v)].state = "running" /\ jobs[JobOf(v)].fence_token = token[v]
               => Last(JobOf(v)).attempt = attempt[v]
      BY Zenon, <1>1, <3>1 DEF RunInv
    <3>4. CASE JobOf(v) = j
      <4>1. token[v] # token[w]
        BY Zenon, <1>1, <1>4, <2>2, <3>2, <3>4 DEF TokenInv, NoToken, j
      <4>2. token[v] < token[w]
        BY <1>4, <1>a, <1>7, <3>2, <3>3, <3>4, <4>1
      <4> QED BY <1>4, <1>a, <3>2, <3>4, <4>2
    <3>5. CASE JobOf(v) # j
      <4>1. jobs'[JobOf(v)] = jobs[JobOf(v)] /\ last(JobOf(v)) = Last(JobOf(v))
        BY Zenon, <1>c, <1>10, <3>2, <3>5
      <4> QED BY ZenonT(30), <3>3, <4>1
    <3> QED BY Zenon, <3>4, <3>5
  <2> QED BY Zenon, <2>1, <2>2
<1>15. OutcomeFollowsOwnStart'
  <2> SUFFICES ASSUME NEW k \in Job, NEW i \in 1..Len(job_events'[k]),
                      job_events'[k][i].event \in Outcome
               PROVE  /\ i > 1
                      /\ job_events'[k][i-1] = [job_events'[k][i] EXCEPT !.event = "started"]
    BY Zenon DEF OutcomeFollowsOwnStart
  <2>1. CASE k # j
    <3>1. job_events'[k] = job_events[k]
      BY Zenon, <1>c, <2>1
    <3> QED BY Zenon, <1>1, <3>1 DEF OutcomeFollowsOwnStart
  <2>2. CASE k = j /\ i \in 1..n
    <3>1. job_events'[j][i] = job_events[j][i]
      BY Zenon, <1>d, <2>2
    <3>2. i \in 1..Len(job_events[j])
      BY Zenon, <2>2 DEF n
    <3>3. /\ i > 1
          /\ job_events[j][i-1] = [job_events[j][i] EXCEPT !.event = "started"]
      BY Zenon, <1>1, <1>4, <2>2, <3>1, <3>2 DEF OutcomeFollowsOwnStart
    <3>4. i - 1 \in 1..n
      BY <1>6, <2>2, <3>3
    <3>5. job_events'[j][i-1] = job_events[j][i-1]
      BY Zenon, <1>d, <3>4
    <3> QED BY Zenon, <2>2, <3>1, <3>3, <3>5
  <2>3. CASE k = j /\ i = n + 1
    <3>1. e # "started"
      BY Zenon, <1>b, <1>11, <2>3 DEF Outcome
    <3>2. pc[w] \in Executing /\ jobs[j].state = "running"
      BY Zenon, <1>8, <3>1
    <3>3. /\ token[w] <= jobs[j].fence_token
          /\ jobs[j].fence_token = token[w] => Last(j).attempt = attempt[w]
      BY Zenon, <1>1, <3>2 DEF RunInv, j
    <3>4. jobs[j].fence_token = token[w]
      BY <1>4, <1>a, <1>7, <3>3
    <3>5. Last(j).event = "started" /\ Last(j).fence_token = token[w]
      BY Zenon, <1>1, <1>4, <3>2, <3>4 DEF LogInv
    <3>6. Last(j) \in EventRow
      BY <1>2, <1>4, <1>6 DEF RepoTypeOK, Last, n
    <3>7. Last(j) = [rec EXCEPT !.event = "started"]
      BY <3>3, <3>4, <3>5, <3>6 DEF EventRow, rec
    <3>8. job_events'[j][n] = Last(j)
      <4>1. n \in 1..n
        BY <1>6
      <4> QED BY Zenon, <1>d, <4>1 DEF Last, n
    <3>9. i > 1 /\ i - 1 = n
      BY <1>6, <2>3
    <3> QED BY Zenon, <1>b, <2>3, <3>7, <3>8, <3>9
  <2>4. i \in 1..n \/ i = n + 1 \/ k # j
    BY <1>b, <1>6
  <2> QED BY Zenon, <2>1, <2>2, <2>3, <2>4
<1> QED BY Zenon, <1>12, <1>13, <1>14, <1>15 DEF FenceInv

\* Every step of the fleet preserves FenceInv.
LEMMA NextFence == BaseInv /\ BaseInv' /\ FenceInv /\ [Next]_vars => FenceInv'
<1> SUFFICES ASSUME BaseInv, BaseInv', FenceInv, [Next]_vars PROVE FenceInv'
  OBVIOUS
<1>1. ASSUME NEW w \in Worker, IncrToken(w) PROVE FenceInv'
  <2> DEFINE j == JobOf(w)
  <2>1. /\ pc[w] \notin Away /\ pc' = [pc EXCEPT ![w] = "acquire"]
        /\ counter' = [counter EXCEPT ![j] = @ + 1]
        /\ token' = [token EXCEPT ![w] = counter[j] + 1]
        /\ UNCHANGED <<jobs, job_events, stream, msg, attempt>>
    BY Zenon, <1>1 DEF IncrToken, Goto, repoVars, brokerVars, Away, Exited
  <2>2. msg[w] \in Message /\ j \in Job
    BY Zenon, <2>1, JobOfType
  <2>3. /\ counter \in [Job -> Nat] /\ token \in [Worker -> Nat] /\ pc \in [Worker -> PC]
        /\ \A i \in Job : jobs[i].fence_token \in Nat
        /\ \A v \in Worker : msg[v] \in Message => JobOf(v) \in Job
    BY Zenon DEF BaseInv, TypeOK, RepoTypeOK, JobRow, JobOf
  <2>4. \A v \in Worker : JobOf(v)' = JobOf(v)
    BY Zenon, <2>1 DEF JobOf
  <2>5. /\ counter'[j] = counter[j] + 1 /\ token'[w] = counter[j] + 1
        /\ \A i \in Job \ {j} : counter'[i] = counter[i]
        /\ \A v \in Worker \ {w} : token'[v] = token[v]
        /\ counter[j] \in Nat
    BY Zenon, <2>1, <2>2, <2>3
  <2>6. \A i \in Job : jobs'[i].fence_token <= counter'[i]
    BY SMTT(30), <2>1, <2>3, <2>5 DEF FenceInv, TokenInv
  <2>7. \A v \in Worker : msg'[v] \in Message => token'[v] <= counter'[JobOf(v)']
    BY SMTT(30), <2>1, <2>3, <2>4, <2>5 DEF FenceInv, TokenInv
  <2>8. ASSUME NEW v \in Worker, NEW u \in Worker, v # u, msg[v] \in Message,
               msg[u] \in Message, JobOf(v) = JobOf(u), token'[v] # NoToken
        PROVE  token'[v] # token'[u]
    <3>1. token[v] <= counter[JobOf(v)] /\ token[u] <= counter[JobOf(u)]
      BY Zenon, <2>8 DEF FenceInv, TokenInv
    <3>2. CASE v = w
      BY SMTT(30), <2>3, <2>5, <2>8, <3>1, <3>2
    <3>3. CASE u = w
      BY SMTT(30), <2>3, <2>5, <2>8, <3>1, <3>3
    <3>4. CASE v # w /\ u # w
      BY Zenon, <2>5, <2>8, <3>4 DEF FenceInv, TokenInv
    <3> QED BY Zenon, <3>2, <3>3, <3>4
  <2>9. TokenInv'
    BY Zenon, <2>1, <2>4, <2>6, <2>7, <2>8 DEF TokenInv
  <2>10. RunInv'
    <3> SUFFICES ASSUME NEW v \in Worker, pc'[v] \in Executing
                 PROVE  /\ token'[v] <= jobs'[JobOf(v)'].fence_token
                        /\ jobs'[JobOf(v)'].state = "running"
                             /\ jobs'[JobOf(v)'].fence_token = token'[v]
                           => Last(JobOf(v))'.attempt = attempt'[v]
      BY Zenon DEF RunInv
    <3>1. v # w /\ pc[v] \in Executing
      BY Zenon, <2>1, <2>3 DEF Executing
    <3> QED BY <2>1, <2>4, <2>5, <3>1 DEF FenceInv, RunInv, Last
  <2>11. LogInv' /\ OutcomeFollowsOwnStart'
    BY Zenon, <2>1 DEF FenceInv, LogInv, Last, OutcomeFollowsOwnStart
  <2> QED BY Zenon, <2>9, <2>10, <2>11 DEF FenceInv
<1>2. ASSUME NEW w \in Worker, RecordStarted(w) \/ RecordCompleted(w) \/ RecordFailure(w)
      PROVE  FenceInv'
  <2>1. PICK e \in WorkerEvent, l \in PC \ Away :
           /\ record_event(JobOf(w), e, attempt[w], token[w]) /\ Goto(w, l)
           /\ e # "started" => pc[w] \in Executing
           /\ l \in Executing => e = "started" /\ Verdict(JobOf(w), e, token[w]) = "ok"
    BY ZenonT(30), <1>2, WriteStep
  <2>2. /\ pc[w] \in {"start", "complete", "fail"}
        /\ UNCHANGED <<stream, msg, attempt, token, counter>>
    BY Zenon, <1>2, WriteStep
  <2>3. CASE Verdict(JobOf(w), e, token[w]) = "ok"
    BY SMTT(30), <2>1, <2>2, <2>3, CommitFence
  <2>4. CASE Verdict(JobOf(w), e, token[w]) # "ok"
    <3>1. jobs' = jobs /\ job_events' = job_events
      BY Zenon, <2>1, <2>4, Rollback
    <3>2. \A v \in Worker : pc'[v] \in Executing => pc[v] \in Executing
      BY Zenon, <2>1, <2>4 DEF Goto, BaseInv, TypeOK
    <3> QED BY Zenon, <2>2, <3>1, <3>2, QuietFence
  <2> QED BY ZenonT(30), <2>3, <2>4
<1>3. CASE ~ \E w \in Worker : \/ IncrToken(w) \/ RecordStarted(w)
                               \/ RecordCompleted(w) \/ RecordFailure(w)
  BY Zenon, <1>3, QuietStep, QuietFence
<1> QED BY Zenon, <1>1, <1>2, <1>3
------------------------------------------------------------------------------
(* Theorems *)

\* The inductive invariant of the fence.
LEMMA SpecFence == Spec => [](BaseInv /\ FenceInv)
<1>1. Init => BaseInv /\ FenceInv
  <2> SUFFICES ASSUME Init PROVE BaseInv /\ FenceInv
    OBVIOUS
  <2>1. stream \in [Message -> [job : Job, num_delivered : Nat, status : Status]]
    BY DEF Init, Status
  <2> QED BY Zenon, <2>1, InitBase, InitFence DEF Init
<1> QED BY <1>1, NextBase, NextFence, PTL DEF Spec

\* Every variable of the fleet keeps its type, for any number of workers, jobs
\* and messages and whatever expires or dies when.
THEOREM TypeCorrect == Spec => []TypeOK
BY SpecFence, PTL DEF BaseInv

\* Fencing (repo._apply_event with the token of LeaseManager.acquire): every
\* recorded outcome directly follows the STARTED of the same lease and the same
\* delivery, however long the workers pause.
THEOREM FencingHolds == Spec => []OutcomeFollowsOwnStart
BY SpecFence, PTL DEF FenceInv
==============================================================================
