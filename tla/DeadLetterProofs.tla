-------------------------- MODULE DeadLetterProofs ---------------------------
(***************************************************************************)
(* Done markers and leases; then the fleet, the dead-letter listener and   *)
(* the operator together, for any numbers of workers, listeners, jobs and  *)
(* messages.                                                               *)
(***************************************************************************)
EXTENDS DeadLetter, WorkerFleetProofs

(* Done markers *)

\* Control points reached only after COMPLETED was recorded or the done marker
\* was seen.
Finishing == {"mark_done", "unclaim", "ack"}

DoneInv ==
    /\ \A j \in done : jobs[j].state = "succeeded"
    /\ \A w \in Worker : pc[w] \in Finishing => jobs[JobOf(w)].state = "succeeded"

\* Messages keep their jobs, and a SUCCEEDED row is never written again.
LEMMA Stable ==
    ASSUME BaseInv, [Next]_vars
    PROVE  /\ \A m \in Message : stream'[m].job = stream[m].job
           /\ \A j \in Job : jobs[j].state = "succeeded" => jobs'[j] = jobs[j]
<1>1. ASSUME NEW w \in Worker, RecordStarted(w) \/ RecordCompleted(w) \/ RecordFailure(w),
             NEW j \in Job, jobs[j].state = "succeeded"
      PROVE  jobs'[j] = jobs[j]
  <2>1. PICK e \in WorkerEvent : record_event(JobOf(w), e, attempt[w], token[w])
    BY ZenonT(30), <1>1, WriteStep
  <2>2. /\ JobOf(w) \in Job /\ attempt[w] \in Nat /\ token[w] \in Nat \ {0} /\ RepoTypeOK
    BY ZenonT(30), <1>1, WriteStep, JobOfType
       DEF BaseInv, TypeOK, ControlInv, NoToken, Leased, Away, Exited
  <2>3. CASE Verdict(JobOf(w), e, token[w]) = "ok"
    <3>1. /\ apply(jobs[JobOf(w)].state, e) # IllegalTransition
          /\ \A i \in Job \ {JobOf(w)} : jobs'[i] = jobs[i]
      BY ZenonT(30), <2>1, <2>2, <2>3, Commit
    <3>2. apply("succeeded", e) = IllegalTransition
      BY Zenon, ApplyWorkerEvents DEF JobState, WorkerEvent
    <3> QED BY Zenon, <1>1, <3>1, <3>2
  <2>4. CASE Verdict(JobOf(w), e, token[w]) # "ok"
    BY Zenon, <2>1, <2>4, Rollback
  <2> QED BY ZenonT(30), <2>3, <2>4
<1>2. ASSUME NEW w \in Worker,
             \/ IncrToken(w) \/ RecordStarted(w) \/ RecordCompleted(w) \/ RecordFailure(w)
      PROVE  stream' = stream
  BY Zenon, <1>2, WriteStep DEF IncrToken, brokerVars
<1>3. ASSUME NEW w \in Worker, IncrToken(w) PROVE jobs' = jobs
  BY Zenon, <1>3 DEF IncrToken, repoVars
<1>4. CASE \E w \in Worker : \/ IncrToken(w) \/ RecordStarted(w)
                             \/ RecordCompleted(w) \/ RecordFailure(w)
  BY Zenon, <1>1, <1>2, <1>3, <1>4
<1>5. CASE ~ \E w \in Worker : \/ IncrToken(w) \/ RecordStarted(w)
                               \/ RecordCompleted(w) \/ RecordFailure(w)
  BY Zenon, <1>5, QuietStep
<1> QED BY Zenon, <1>4, <1>5

\* A worker that has not just recorded COMPLETED, nor seen the done marker,
\* does not begin to finish, and only mark_done adds a marker.
LEMMA FinishingStep ==
    ASSUME BaseInv, [Next]_vars
    PROVE  /\ \A w \in Worker : pc'[w] \in Finishing =>
                 /\ msg'[w] = msg[w] /\ msg[w] \in Message
                 /\ \/ pc[w] \in Finishing
                    \/ JobOf(w) \in done
                    \/ jobs'[JobOf(w)].state = "succeeded"
           /\ \A j \in done' \ done :
                 \E v \in Worker : pc[v] \in Finishing /\ j = JobOf(v) /\ j \in Job
<1> DEFINE Step ==
      /\ \A w \in Worker : pc'[w] \in Finishing =>
            /\ msg'[w] = msg[w] /\ msg[w] \in Message
            /\ \/ pc[w] \in Finishing
               \/ JobOf(w) \in done
               \/ jobs'[JobOf(w)].state = "succeeded"
      /\ \A j \in done' \ done :
            \E v \in Worker : pc[v] \in Finishing /\ j = JobOf(v) /\ j \in Job
<1> SUFFICES Step
  OBVIOUS
<1>0. /\ pc \in [Worker -> PC] /\ msg \in [Worker -> Message \union {NoMsg}]
      /\ \A w \in Worker : /\ pc[w] \in Finishing => msg[w] \in Message
                           /\ pc[w] \notin Away => msg[w] \in Message
  BY Zenon DEF BaseInv, TypeOK, ControlInv, Finishing, Away, Exited
<1>1. ASSUME NEW v \in Worker, RecordStarted(v) \/ RecordCompleted(v) \/ RecordFailure(v)
      PROVE  Step
  <2>1. /\ pc[v] \in {"start", "complete", "fail"} /\ msg' = msg /\ done' = done
        /\ attempt[v] \in Nat /\ token[v] \in Nat \ {0} /\ RepoTypeOK
    BY Zenon, <1>1, WriteStep DEF BaseInv, TypeOK, ControlInv, NoToken, Leased
  <2>2. msg[v] \in Message /\ JobOf(v) \in Job
    BY ZenonT(30), <2>1, JobOfType DEF Away, Exited
  <2>3. PICK e \in WorkerEvent, l \in PC \ Away :
           /\ record_event(JobOf(v), e, attempt[v], token[v]) /\ Goto(v, l)
           /\ l \in {"mark_done", "unclaim", "ack"} =>
                 e = "completed" /\ Verdict(JobOf(v), e, token[v]) = "ok"
    BY Zenon, <1>1, WriteStep
  <2>4. l \in Finishing => jobs'[JobOf(v)].state = "succeeded"
    <3> SUFFICES ASSUME l \in Finishing PROVE jobs'[JobOf(v)].state = "succeeded"
      OBVIOUS
    <3>1. e = "completed" /\ Verdict(JobOf(v), e, token[v]) = "ok"
      BY Zenon, <2>3 DEF Finishing
    <3>2. /\ apply(jobs[JobOf(v)].state, e) # IllegalTransition
          /\ jobs'[JobOf(v)].state = apply(jobs[JobOf(v)].state, e)
      BY ZenonT(30), <2>1, <2>2, <2>3, <3>1, Commit
    <3>3. jobs[JobOf(v)].state \in JobState
      BY Zenon, <2>1, <2>2 DEF RepoTypeOK, JobRow
    <3> QED BY Zenon, <3>1, <3>2, <3>3, ApplyWorkerEvents
  <2>5. pc' = [pc EXCEPT ![v] = l]
    BY Zenon, <2>3 DEF Goto
  <2> QED BY Zenon, <1>0, <2>1, <2>2, <2>4, <2>5
<1>2. ASSUME NEW v \in Worker,
             \/ BeginFetch(v) \/ FetchTimeout(v) \/ Stop(v) \/ GetDone(v) \/ SetClaim(v)
             \/ Execute(v) \/ DropClaim(v) \/ release_claim(v) \/ IncrToken(v) \/ SetLease(v)
      PROVE  Step
  <2>1. /\ \E l : /\ pc' = [pc EXCEPT ![v] = l]
                  /\ l \in Finishing =>
                        /\ pc[v] \notin Away
                        /\ pc[v] \in Finishing \/ JobOf(v) \in done
        /\ msg' = msg /\ done' = done
    BY <1>2 DEF BeginFetch, FetchTimeout, Stop, GetDone, SetClaim, Execute, IncrToken,
       SetLease, DropClaim, release_claim, Goto, Finishing, localVars, kvVars, Away, Exited
  <2>2. PICK l : /\ pc' = [pc EXCEPT ![v] = l]
                 /\ l \in Finishing =>
                       /\ pc[v] \notin Away
                       /\ pc[v] \in Finishing \/ JobOf(v) \in done
    BY Zenon, <2>1
  <2> QED BY Zenon, <1>0, <2>1, <2>2
<1>3. ASSUME NEW v \in Worker, SetDone(v) PROVE Step
  <2>1. /\ pc[v] \in Finishing /\ pc[v] \notin Away /\ pc' = [pc EXCEPT ![v] = "unclaim"]
        /\ msg' = msg /\ done' = done \union {JobOf(v)}
    BY Zenon, <1>3 DEF SetDone, Goto, Finishing, localVars, Away, Exited
  <2>2. JobOf(v) \in Job
    BY Zenon, <2>1, JobOfType
  <2> QED BY Zenon, <1>0, <2>1, <2>2
<1>4. ASSUME NEW v \in Worker, NEW m \in Message, Fetch(v, m) PROVE Step
  <2>1. /\ pc' = [pc EXCEPT ![v] = "received"] /\ msg' = [msg EXCEPT ![v] = m] /\ done' = done
    BY Zenon, <1>4 DEF Fetch, Goto, kvVars
  <2> QED BY Zenon, <1>0, <2>1 DEF Finishing
<1>5. ASSUME NEW v \in Worker,
             Poisoned(v) \/ Nak(v) \/ AckOrTerm(v) \/ ReleaseLease(v) \/ Die(v)
      PROVE  Step
  <2>1. /\ \/ Leave(v, "idle") \/ Leave(v, "dead")
           \/ Goto(v, "unlock") /\ msg' = msg
        /\ done' = done
    BY ZenonT(30), <1>5 DEF Poisoned, Nak, AckOrTerm, AfterReply, ReleaseLease, Die,
       kvVars, localVars
  <2> QED BY ZenonT(30), <1>0, <2>1 DEF Leave, Goto, Finishing
<1>6. CASE \/ \E v \in Worker : request_shutdown(v)
           \/ \E m \in Message : AckWaitExpires(m)
           \/ \E j \in Job : ClaimExpires(j) \/ LeaseExpires(j) \/ DoneExpires(j)
           \/ UNCHANGED vars
  <2>1. pc' = pc /\ msg' = msg /\ done' \subseteq done
    BY Zenon, <1>6 DEF request_shutdown, AckWaitExpires, ClaimExpires, LeaseExpires,
       DoneExpires,
       vars, localVars, kvVars
  <2> QED BY ZenonT(30), <1>0, <2>1
<1> HIDE DEF Step
<1> QED BY ZenonT(30), <1>1, <1>2, <1>3, <1>4, <1>5, <1>6 DEF Next, Run

\* Every step of the fleet preserves DoneInv.
LEMMA NextDone == BaseInv /\ DoneInv /\ [Next]_vars => DoneInv'
<1> SUFFICES ASSUME BaseInv, DoneInv, [Next]_vars PROVE DoneInv'
  OBVIOUS
<1>1. \A w \in Worker : msg[w] \in Message => JobOf(w) \in Job
  BY Zenon DEF BaseInv, TypeOK, JobOf
<1>2. \A j \in Job : jobs[j].state = "succeeded" => jobs'[j].state = "succeeded"
  BY Zenon, Stable
<1>3. ASSUME NEW j \in done' PROVE jobs'[j].state = "succeeded"
  <2>1. CASE j \in done
    BY ZenonT(30), <1>2, <2>1 DEF DoneInv, BaseInv, TypeOK
  <2>2. CASE j \notin done
    BY <1>2, <2>2, FinishingStep DEF DoneInv
  <2> QED BY ZenonT(30), <2>1, <2>2
<1>4. ASSUME NEW w \in Worker, pc'[w] \in Finishing
      PROVE  jobs'[JobOf(w)'].state = "succeeded"
  <2>1. /\ msg'[w] = msg[w] /\ msg[w] \in Message
        /\ \/ pc[w] \in Finishing
           \/ JobOf(w) \in done
           \/ jobs'[JobOf(w)].state = "succeeded"
    BY ZenonT(30), <1>4, FinishingStep
  <2>2. JobOf(w)' = JobOf(w)
    BY ZenonT(30), <2>1, Stable DEF JobOf
  <2> QED BY Zenon, <1>1, <1>2, <2>1, <2>2 DEF DoneInv
<1> QED BY Zenon, <1>3, <1>4 DEF DoneInv

------------------------------------------------------------------------------
(* Leases *)

\* A lease of a live worker is the lease of the delivery it is handling.
LeaseInv ==
    \A j \in Job, w \in Worker :
       lease[j] # Absent /\ lease[j][1] = w /\ pc[w] # "dead" =>
          /\ msg[w] \in Message /\ JobOf(w) = j /\ lease[j] = HeldLease(w)
          /\ token[w] # NoToken /\ pc[w] \in Leased \union Replying

\* Every step of the fleet preserves LeaseInv.
LEMMA NextLease == BaseInv /\ LeaseInv /\ [Next]_vars => LeaseInv'
<1> SUFFICES ASSUME BaseInv, LeaseInv, [Next]_vars,
                    NEW j \in Job, NEW u \in Worker,
                    lease'[j] # Absent, lease'[j][1] = u, pc'[u] # "dead"
             PROVE  /\ msg'[u] \in Message /\ JobOf(u)' = j /\ lease'[j] = HeldLease(u)'
                    /\ token'[u] # NoToken /\ pc'[u] \in Leased \union Replying
  BY ZenonT(30) DEF LeaseInv
<1> DEFINE Held == /\ msg'[u] \in Message /\ JobOf(u)' = j /\ lease'[j] = HeldLease(u)'
                   /\ token'[u] # NoToken /\ pc'[u] \in Leased \union Replying
           Before == /\ msg[u] \in Message /\ JobOf(u) = j /\ lease[j] = HeldLease(u)
                     /\ token[u] # NoToken /\ pc[u] \in Leased \union Replying
<1> SUFFICES Held
  BY ZenonT(30)
<1>0. /\ pc \in [Worker -> PC] /\ msg \in [Worker -> Message \union {NoMsg}]
      /\ token \in [Worker -> Nat] /\ lease \in [Job -> {Absent} \union (Worker \X Nat)]
  BY ZenonT(30) DEF BaseInv, TypeOK
<1>a. lease'[j] = lease[j] /\ pc[u] # "dead" => Before
  BY Zenon DEF LeaseInv
<1>b. ASSUME lease'[j] = lease[j], pc[u] # "dead", msg'[u] = msg[u], token'[u] = token[u],
             pc'[u] \in Leased \union Replying \/ pc'[u] = pc[u]
      PROVE  Held
  <2>1. Before
    BY Zenon, <1>a, <1>b
  <2>2. JobOf(u)' = JobOf(u)
    BY ZenonT(30), <1>b, <2>1, Stable DEF JobOf
  <2> QED BY ZenonT(30), <1>b, <2>1, <2>2 DEF HeldLease
<1>1. ASSUME NEW w \in Worker, RecordStarted(w) \/ RecordCompleted(w) \/ RecordFailure(w)
      PROVE  Held
  <2>1. /\ pc[w] \in {"start", "complete", "fail"}
        /\ msg' = msg /\ token' = token /\ lease' = lease
        /\ \E l : l \in Leased \union Replying /\ Goto(w, l)
    BY Zenon, <1>1, WriteStep
  <2>2. CASE u = w
    BY Zenon, <1>0, <1>b, <2>1, <2>2 DEF Goto
  <2>3. CASE u # w
    BY ZenonT(30), <1>0, <1>b, <2>1, <2>3 DEF Goto
  <2> QED BY ZenonT(30), <2>2, <2>3
<1>2. ASSUME NEW w \in Worker,
             \/ GetDone(w) \/ SetClaim(w) \/ Execute(w) \/ SetDone(w) \/ DropClaim(w)
             \/ release_claim(w) \/ BeginFetch(w) \/ FetchTimeout(w) \/ Stop(w)
      PROVE  Held
  <2>1. /\ msg' = msg /\ token' = token /\ lease' = lease
        /\ pc[w] # "dead"
        /\ \E l : /\ pc' = [pc EXCEPT ![w] = l]
                  /\ pc[w] \in Leased \union Replying => l \in Leased \union Replying
    BY ZenonT(30), <1>2 DEF BeginFetch, FetchTimeout, Stop, GetDone, SetClaim, Execute,
       SetDone,
       DropClaim, release_claim, Goto, localVars, kvVars, Leased, Replying
  <2>2. PICK l : /\ pc' = [pc EXCEPT ![w] = l]
                 /\ pc[w] \in Leased \union Replying => l \in Leased \union Replying
    BY Zenon, <2>1
  <2>3. pc[u] # "dead" /\ (pc[u] \in Leased \union Replying => pc'[u] \in Leased \union Replying)
    BY Zenon, <1>0, <2>1, <2>2
  <2> QED BY ZenonT(30), <1>a, <1>b, <2>1, <2>3
<1>3. ASSUME NEW w \in Worker, IncrToken(w) PROVE Held
  <2>1. /\ msg' = msg /\ lease' = lease /\ pc[w] = "incr"
        /\ pc' = [pc EXCEPT ![w] = "acquire"]
        /\ token' = [token EXCEPT ![w] = counter[JobOf(w)] + 1]
    BY ZenonT(30), <1>3 DEF IncrToken, Goto
  <2>2. u # w /\ pc[u] # "dead"
    BY ZenonT(30), <1>0, <1>a, <2>1 DEF Leased, Replying
  <2> QED BY ZenonT(30), <1>0, <1>b, <2>1, <2>2
<1>4. ASSUME NEW w \in Worker, SetLease(w) PROVE Held
  <2>1. /\ msg' = msg /\ stream' = stream /\ pc[w] = "acquire"
        /\ lease' = [lease EXCEPT ![JobOf(w)] = set_if_absent(@, HeldLease(w))]
        /\ \/ /\ lease[JobOf(w)] = Absent /\ pc' = [pc EXCEPT ![w] = "start"]
              /\ token' = token
           \/ /\ lease[JobOf(w)] # Absent /\ pc' = [pc EXCEPT ![w] = "release_nak"]
              /\ token' = [token EXCEPT ![w] = NoToken]
    BY ZenonT(30), <1>4 DEF SetLease, nx_reply, Goto, brokerVars
  <2>2. /\ msg[w] \in Message /\ JobOf(w) \in Job /\ token[w] # NoToken
        /\ pc[w] \notin Leased \union Replying
    BY ZenonT(30), <2>1, JobOfType DEF BaseInv, ControlInv, Away, Exited, Leased, Replying
  <2>3. CASE lease'[j] = lease[j]
    <3>1. u # w /\ pc[u] # "dead"
      BY ZenonT(30), <1>0, <1>a, <2>1, <2>2, <2>3
    <3> QED BY Zenon, <1>0, <1>b, <2>1, <2>3, <3>1
  <2>4. CASE lease'[j] # lease[j]
    <3>1. j = JobOf(w) /\ lease[j] = Absent /\ lease'[j] = HeldLease(w) /\ u = w
      BY ZenonT(30), <1>0, <2>1, <2>2, <2>4 DEF set_if_absent, HeldLease
    <3>2. JobOf(w)' = JobOf(w)
      BY Zenon, <2>1 DEF JobOf
    <3> QED BY Zenon, <1>0, <2>1, <2>2, <3>1, <3>2 DEF HeldLease, Leased
  <2> QED BY ZenonT(30), <2>3, <2>4
<1>5. ASSUME NEW w \in Worker, NEW m \in Message, Fetch(w, m) PROVE Held
  <2>1. /\ pc[w] = "fetching" /\ pc' = [pc EXCEPT ![w] = "received"]
        /\ msg' = [msg EXCEPT ![w] = m] /\ token' = token /\ lease' = lease
    BY Zenon, <1>5 DEF Fetch, Goto, kvVars
  <2>2. u # w /\ pc[u] # "dead"
    BY ZenonT(30), <1>0, <1>a, <2>1 DEF Leased, Replying
  <2> QED BY ZenonT(30), <1>0, <1>b, <2>1, <2>2
<1>6. ASSUME NEW w \in Worker, Poisoned(w) \/ Nak(w) \/ AckOrTerm(w) PROVE Held
  <2>1. /\ \/ /\ Leave(w, "idle")
              /\ pc[w] \in Leased \union Replying => token[w] = NoToken
           \/ /\ pc' = [pc EXCEPT ![w] = "unlock"] /\ msg' = msg /\ token' = token
        /\ lease' = lease /\ pc[w] # "dead"
    BY ZenonT(30), <1>6 DEF Poisoned, Nak, AckOrTerm, AfterReply, Goto, kvVars,
       localVars, Leased, Replying
  <2>2. CASE u = w
    <3>1. Before
      BY Zenon, <1>a, <2>1, <2>2
    <3> QED BY ZenonT(30), <1>0, <1>b, <2>1, <2>2, <3>1 DEF Leased
  <2>3. CASE u # w
    BY ZenonT(30), <1>0, <1>b, <2>1, <2>3 DEF Leave, Goto
  <2> QED BY Zenon, <2>2, <2>3
<1>7. ASSUME NEW w \in Worker, ReleaseLease(w) \/ Die(w) PROVE Held
  <2>1. /\ \/ /\ Leave(w, "idle") \/ Leave(w, "dead")
              /\ pc[w] # "dead"
              /\ lease' = [lease EXCEPT ![JobOf(w)] = compare_and_delete(@, HeldLease(w))]
           \/ Leave(w, "dead") /\ lease' = lease
    BY Zenon, <1>7 DEF ReleaseLease, Die, kvVars
  <2>2. lease'[j] = lease[j]
    BY Zenon, <1>0, <2>1 DEF compare_and_delete
  <2>3. u # w
    <3> SUFFICES ASSUME u = w PROVE FALSE
      BY ZenonT(30)
    <3>1. /\ pc[w] # "dead"
          /\ lease' = [lease EXCEPT ![JobOf(w)] = compare_and_delete(@, HeldLease(w))]
      BY Zenon, <1>0, <2>1 DEF Leave, Goto
    <3>2. JobOf(w) = j /\ lease[j] = HeldLease(w)
      BY ZenonT(30), <1>a, <2>2, <3>1
    <3> QED BY ZenonT(30), <1>0, <3>1, <3>2 DEF compare_and_delete
  <2>4. pc'[u] = pc[u] /\ msg'[u] = msg[u] /\ token'[u] = token[u]
    BY ZenonT(30), <1>0, <2>1, <2>3 DEF Leave, Goto
  <2> QED BY ZenonT(30), <1>b, <2>2, <2>4
<1>8. CASE \/ \E w \in Worker : request_shutdown(w)
           \/ \E m \in Message : AckWaitExpires(m)
           \/ \E i \in Job : ClaimExpires(i) \/ LeaseExpires(i) \/ DoneExpires(i)
           \/ UNCHANGED vars
  <2>1. /\ pc' = pc /\ msg' = msg /\ token' = token
        /\ lease' = lease \/ \E i \in Job : lease' = [lease EXCEPT ![i] = Absent]
    BY ZenonT(30), <1>8 DEF request_shutdown, AckWaitExpires, ClaimExpires, LeaseExpires,
       DoneExpires,
       vars, localVars, kvVars
  <2>2. lease'[j] = lease[j]
    BY Zenon, <1>0, <2>1
  <2> QED BY ZenonT(30), <1>b, <2>1, <2>2
<1> HIDE DEF Held
<1> QED BY ZenonT(30), <1>1, <1>2, <1>3, <1>4, <1>5, <1>6, <1>7, <1>8 DEF Next, Run
------------------------------------------------------------------------------
(* The fleet's invariant *)

\* The inductive invariant.
IInv == BaseInv /\ FenceInv /\ DoneInv /\ LeaseInv

\* A fleet that has just been started satisfies IInv.
LEMMA InitIInv ==
    ASSUME FreshStart,
           stream \in [Message -> [job : Job, num_delivered : Nat, status : Status]]
    PROVE  IInv
<1>1. BaseInv /\ FenceInv
  BY Zenon, InitBase, InitFence
<1>2. DoneInv
  BY Zenon DEF FreshStart, DoneInv, Finishing
<1>3. LeaseInv
  BY Zenon DEF FreshStart, LeaseInv
<1> QED BY Zenon, <1>1, <1>2, <1>3 DEF IInv

\* Every step of the fleet preserves IInv.
LEMMA NextIInv == IInv /\ [Next]_vars => IInv'
BY Zenon, NextBase, NextFence, NextDone, NextLease DEF IInv

\* IInv holds in every reachable state.
LEMMA SpecIInv == Spec => []IInv
<1>1. Init => IInv
  <2> SUFFICES ASSUME Init PROVE IInv
    OBVIOUS
  <2>1. stream \in [Message -> [job : Job, num_delivered : Nat, status : Status]]
    BY DEF Init, Status
  <2> QED BY Zenon, <2>1, InitIInv DEF Init
<1> QED BY <1>1, NextIInv, PTL DEF Spec

\* Acking (ExecutionGuard.mark_done and the two acks of Worker.handle): a done
\* marker exists, and a worker is about to ack, only for a SUCCEEDED job.
THEOREM AckIsSafe == Spec => []DoneMeansSucceeded
<1>1. DoneInv => DoneMeansSucceeded
  BY Zenon DEF DoneInv, DoneMeansSucceeded, Finishing
<1> QED BY <1>1, SpecIInv, PTL DEF IInv

\* The finally block of Worker.handle: a lease outlives its delivery only when
\* the process died.
THEOREM LeaseIsReleased == Spec => []NoLeakedLease
<1>1. BaseInv /\ LeaseInv => NoLeakedLease
  BY Zenon, BrokerAssumption DEF LeaseInv, NoLeakedLease, NoMsg
<1> QED BY <1>1, SpecIInv, PTL DEF IInv
------------------------------------------------------------------------------
(* Writes without a token *)

PlainEvent == {"dead_lettered", "replayed"}

\* What apply answers to the listener and to the operator.
LEMMA ApplyPlainEvents ==
    ASSUME NEW s \in JobState
    PROVE  /\ apply(s, "dead_lettered") =
                IF s \in {"queued", "running"} THEN "dead_letter" ELSE IllegalTransition
           /\ apply(s, "replayed") = IF s = "dead_letter" THEN "queued" ELSE IllegalTransition
<1> USE DEF apply, legal_events, TRANSITIONS, NoState, IllegalTransition
<1>1. CASE s = "submitted"
  BY Zenon, <1>1
<1>2. CASE s = "queued"
  BY Zenon, <1>2
<1>3. CASE s = "running"
  BY Zenon, <1>3
<1>4. CASE s = "succeeded"
  BY <1>4
<1>5. CASE s = "failed"
  BY <1>5
<1>6. CASE s = "dead_letter"
  BY Zenon, <1>6
<1> QED BY Zenon, <1>1, <1>2, <1>3, <1>4, <1>5, <1>6 DEF JobState

\* What a committed write without a token leaves behind: the row keeps its token
\* and its result.
LEMMA PlainCommit ==
    ASSUME RepoTypeOK, NEW j \in Job, NEW e \in PlainEvent, NEW a \in Nat,
           record_event(j, e, a, NoToken), Verdict(j, e, NoToken) = "ok"
    PROVE  /\ RepoTypeOK'
           /\ jobs'[j].fence_token = jobs[j].fence_token /\ jobs'[j].result = jobs[j].result
           /\ apply(jobs[j].state, e) # IllegalTransition
           /\ jobs'[j].state = apply(jobs[j].state, e)
           /\ jobs'[j].state \in {"dead_letter", "queued"}
           /\ \A i \in Job \ {j} : jobs'[i] = jobs[i] /\ job_events'[i] = job_events[i]
           /\ Len(job_events'[j]) = Len(job_events[j]) + 1
           /\ job_events'[j][Len(job_events[j]) + 1].event = e
           /\ \A i \in 1..Len(job_events[j]) : job_events'[j][i] = job_events[j][i]
<1> DEFINE rec == [event |-> e, attempt |-> a, fence_token |-> NoToken]
<1>1. /\ jobs' = [jobs EXCEPT ![j] = UpdatedRow(j, e, a, NoToken)]
      /\ job_events' = [job_events EXCEPT ![j] = Append(@, rec)]
  BY Zenon DEF record_event
<1>2. /\ jobs[j].state \in JobState /\ jobs[j].attempts \in Nat
      /\ jobs[j].fence_token \in Nat /\ jobs[j].result \in Nat
  BY Zenon DEF RepoTypeOK, JobRow
<1>3. apply(jobs[j].state, e) # IllegalTransition
  BY Zenon DEF Verdict, IllegalTransition
<1>4. apply(jobs[j].state, e) \in {"dead_letter", "queued"}
  BY Zenon, <1>2, <1>3, ApplyPlainEvents DEF PlainEvent
<1>5. EffectiveToken(j, NoToken) = jobs[j].fence_token
  BY Zenon DEF EffectiveToken
<1>6. UpdatedRow(j, e, a, NoToken) \in JobRow
  BY Zenon, <1>2, <1>4, <1>5 DEF UpdatedRow, JobRow, JobState, Greatest, PlainEvent
<1>7. /\ UpdatedRow(j, e, a, NoToken).fence_token = jobs[j].fence_token
      /\ UpdatedRow(j, e, a, NoToken).state = apply(jobs[j].state, e)
      /\ UpdatedRow(j, e, a, NoToken).result = jobs[j].result
  BY Zenon, <1>5 DEF UpdatedRow, PlainEvent
<1>8. rec \in EventRow
  BY Zenon DEF EventRow, EventType, PlainEvent, NoToken
<1>9. job_events[j] \in Seq(EventRow)
  BY Zenon DEF RepoTypeOK
<1>10. RepoTypeOK'
  BY <1>1, <1>6, <1>8, <1>9 DEF RepoTypeOK
<1>11. /\ jobs'[j] = UpdatedRow(j, e, a, NoToken)
       /\ job_events'[j] = Append(job_events[j], rec)
       /\ \A i \in Job \ {j} : jobs'[i] = jobs[i] /\ job_events'[i] = job_events[i]
  BY Zenon, <1>1 DEF RepoTypeOK
<1>12. /\ Len(job_events'[j]) = Len(job_events[j]) + 1
       /\ job_events'[j][Len(job_events[j]) + 1] = rec
       /\ \A i \in 1..Len(job_events[j]) : job_events'[j][i] = job_events[j][i]
  BY <1>8, <1>9, <1>11
<1> QED BY SMTT(30), <1>3, <1>4, <1>7, <1>10, <1>11, <1>12

\* The fleet's invariant survives a write without a token: it changes neither a
\* fence token nor a worker, leaves no row RUNNING and appends no outcome.
LEMMA PlainIInv ==
    ASSUME IInv, NEW j \in Job, NEW e \in PlainEvent, NEW a \in Nat,
           record_event(j, e, a, NoToken),
           UNCHANGED <<brokerVars, pc, localVars, kvVars, shutdown>>
    PROVE  IInv'
<1>0. /\ UNCHANGED <<stream, advisories, pc, msg, attempt, token, claim, done, lease, counter, shutdown>>
      /\ RepoTypeOK
  BY Zenon DEF brokerVars, localVars, kvVars, IInv, BaseInv, TypeOK
<1>a. \A w \in Worker : JobOf(w)' = JobOf(w)
  BY Zenon, <1>0 DEF JobOf
<1>1. CASE Verdict(j, e, NoToken) # "ok"
  <2>1. UNCHANGED vars
    BY Zenon, <1>0, <1>1, Rollback DEF vars
  <2> QED BY Zenon, <2>1, NextIInv
<1>2. CASE Verdict(j, e, NoToken) = "ok"
  <2>1. /\ RepoTypeOK'
        /\ jobs'[j].fence_token = jobs[j].fence_token
        /\ apply(jobs[j].state, e) # IllegalTransition
        /\ jobs'[j].state \in {"dead_letter", "queued"}
        /\ \A i \in Job \ {j} : jobs'[i] = jobs[i] /\ job_events'[i] = job_events[i]
        /\ Len(job_events'[j]) = Len(job_events[j]) + 1
        /\ job_events'[j][Len(job_events[j]) + 1].event = e
        /\ \A i \in 1..Len(job_events[j]) : job_events'[j][i] = job_events[j][i]
    BY Zenon, <1>0, <1>2, PlainCommit
  <2>2. jobs[j].state # "succeeded"
    BY Zenon, <1>0, <2>1, ApplyPlainEvents DEF RepoTypeOK, JobRow, PlainEvent
  <2>3. BaseInv'
    BY ZenonT(30), <1>0, <2>1 DEF IInv, BaseInv, TypeOK, ControlInv
  <2>4. Len(job_events[j]) \in Nat
    BY <1>0 DEF RepoTypeOK
  <2>5. LogInv'
    BY SMTT(30), <2>1, <2>4 DEF IInv, FenceInv, LogInv, Last
  <2>6. \A i \in Job : jobs'[i].fence_token = jobs[i].fence_token
    BY ZenonT(30), <2>1
  <2>7. TokenInv'
    BY ZenonT(30), <1>0, <1>a, <2>6 DEF IInv, FenceInv, TokenInv
  <2>8. RunInv'
    <3> SUFFICES ASSUME NEW w \in Worker, pc[w] \in Executing
                 PROVE  /\ token[w] <= jobs'[JobOf(w)].fence_token
                        /\ jobs'[JobOf(w)].state = "running"
                             /\ jobs'[JobOf(w)].fence_token = token[w]
                           => Last(JobOf(w))'.attempt = attempt[w]
      BY Zenon, <1>0, <1>a DEF RunInv, Last
    <3>1. JobOf(w) \in Job
      BY Zenon, JobOfType DEF IInv, Executing, Away, Exited
    <3> QED BY ZenonT(30), <1>a, <2>1, <2>6, <3>1 DEF IInv, FenceInv, RunInv, Last
  <2>9. OutcomeFollowsOwnStart'
    <3> SUFFICES ASSUME NEW i \in Job, NEW k \in 1..Len(job_events'[i]),
                        job_events'[i][k].event \in Outcome
                 PROVE  /\ k > 1
                        /\ job_events'[i][k-1] = [job_events'[i][k] EXCEPT !.event = "started"]
      BY Zenon DEF OutcomeFollowsOwnStart
    <3>1. CASE i # j
      BY <2>1, <3>1 DEF IInv, FenceInv, OutcomeFollowsOwnStart
    <3>2. CASE i = j
      <4>1. k \in 1..Len(job_events[j])
        BY SMTT(30), <2>1, <2>4, <3>2 DEF Outcome, PlainEvent
      <4>2. k > 1 /\ job_events[j][k-1] = [job_events[j][k] EXCEPT !.event = "started"]
        BY ZenonT(30), <2>1, <3>2, <4>1 DEF IInv, FenceInv, OutcomeFollowsOwnStart
      <4>3. k - 1 \in 1..Len(job_events[j])
        BY <2>4, <4>1, <4>2
      <4>4. job_events'[j][k] = job_events[j][k] /\ job_events'[j][k-1] = job_events[j][k-1]
        BY ZenonT(30), <2>1, <4>1, <4>3
      <4> QED BY Zenon, <3>2, <4>2, <4>4
    <3> QED BY Zenon, <3>1, <3>2
  <2>10. DoneInv'
    <3>1. \A i \in Job : jobs[i].state = "succeeded" => jobs'[i].state = "succeeded"
      BY Zenon, <2>1, <2>2
    <3>2. \A w \in Worker : pc[w] \in Finishing => JobOf(w) \in Job
      BY ZenonT(30), JobOfType DEF IInv, Finishing, Away, Exited
    <3> QED BY ZenonT(30), <1>0, <1>a, <3>1, <3>2 DEF IInv, BaseInv, TypeOK, DoneInv
  <2>11. LeaseInv'
    BY Zenon, <1>0, <1>a DEF IInv, LeaseInv, HeldLease
  <2> QED BY Zenon, <2>3, <2>5, <2>7, <2>8, <2>9, <2>10, <2>11 DEF IInv, FenceInv
<1> QED BY Zenon, <1>1, <1>2

\* Nor does the fleet's invariant look at the statuses of messages.
LEMMA StreamIInv ==
    ASSUME IInv, UNCHANGED <<repoVars, advisories, pc, localVars, kvVars, shutdown>>,
           stream' \in [Message -> [job : Job, num_delivered : Nat, status : Status]],
           \A m \in Message : stream'[m].job = stream[m].job
    PROVE  IInv'
<1>0. UNCHANGED <<jobs, job_events, advisories, pc, msg, attempt, token, claim, done, lease, counter, shutdown>>
  BY Zenon DEF repoVars, localVars, kvVars
<1>a. \A w \in Worker : msg[w] \in Message => JobOf(w)' = JobOf(w)
  BY Zenon, <1>0 DEF JobOf
<1>1. BaseInv'
  BY ZenonT(30), <1>0 DEF IInv, BaseInv, TypeOK, RepoTypeOK, ControlInv
<1>2. FenceInv'
  BY ZenonT(30), <1>0, <1>1, QuietFence DEF IInv
<1>3. DoneInv'
  <2>1. \A w \in Worker : pc[w] \in Finishing => msg[w] \in Message
    BY ZenonT(30), JobOfType DEF IInv, Finishing, Away, Exited
  <2> QED BY ZenonT(30), <1>0, <1>a, <2>1 DEF IInv, DoneInv
<1>4. LeaseInv'
  BY ZenonT(30), <1>0, <1>a DEF IInv, LeaseInv, HeldLease
<1> QED BY Zenon, <1>1, <1>2, <1>3, <1>4 DEF IInv
------------------------------------------------------------------------------
(* The listener and the operator *)

ListenInv ==
    /\ ListenerTypeOK
    /\ \A l \in Listener : lpc[l] # "idle" => adv[l] \in Message

\* Every step keeps the listener's types.
LEMMA NextListen == ListenInv /\ [DNext]_allVars => ListenInv'
<1> SUFFICES ASSUME ListenInv, [DNext]_allVars PROVE ListenInv'
  OBVIOUS
<1> USE DEF ListenInv, ListenerTypeOK, LPC, Quarantining, LGoto
<1>1. ASSUME NEW l \in Listener, NEW m \in Message, FetchAdvisory(l, m) PROVE ListenInv'
  BY Zenon, <1>1 DEF FetchAdvisory
<1>2. ASSUME NEW l \in Listener,
             \/ GetMsg(l) \/ CopyMsg(l) \/ RecordDeadLettered(l) \/ DeleteMsg(l)
             \/ QuarantineRaises(l)
      PROVE  ListenInv'
  <2>1. /\ lpc[l] # "idle" /\ \E label \in LPC : lpc' = [lpc EXCEPT ![l] = label]
        /\ adv' = adv /\ acked' = acked /\ outbox' = outbox /\ crashes' = crashes
        /\ copied' \in {copied, copied \union {adv[l]}}
    BY Zenon, <1>2 DEF GetMsg, CopyMsg, RecordDeadLettered, DeleteMsg, QuarantineRaises
  <2> QED BY ZenonT(30), <2>1
<1>3. ASSUME NEW l \in Listener, AckAdvisory(l) \/ ListenerCrash(l) PROVE ListenInv'
  <2>1. /\ lpc[l] # "idle" /\ lpc' = [lpc EXCEPT ![l] = "idle"] /\ adv' = [adv EXCEPT ![l] = NoMsg]
        /\ acked' \in {acked, acked \union {adv[l]}}
        /\ copied' = copied /\ outbox' = outbox /\ crashes' \in Nat
    BY <1>3 DEF AckAdvisory, ListenerCrash
  <2> QED BY Zenon, <2>1
<1>4. ASSUME NEW j \in Job, replay_job(j) \/ RelayReplay(j) PROVE ListenInv'
  BY <1>4 DEF replay_job, RelayReplay
<1>5. CASE UNCHANGED dlqVars
  BY Zenon, <1>5 DEF dlqVars
<1> QED BY Zenon, <1>1, <1>2, <1>3, <1>4, <1>5 DEF DNext, Listen, allVars

\* The steps of the composition that are not the fleet's write without a token,
\* move one message, or leave the fleet's variables alone.
LEMMA OtherStep ==
    ASSUME IInv, ListenInv, [DNext]_allVars
    PROVE  \/ [Next]_vars
           \/ \E j \in Job, e \in PlainEvent, a \in Nat :
                 /\ record_event(j, e, a, NoToken)
                 /\ UNCHANGED <<brokerVars, pc, localVars, kvVars, shutdown>>
           \/ \E m \in Message :
                 /\ settle(m) \/ publish(m)
                 /\ UNCHANGED <<repoVars, pc, localVars, kvVars, shutdown>>
<1>1. ASSUME NEW l \in Listener, RecordDeadLettered(l)
      PROVE  \E j \in Job, e \in PlainEvent, a \in Nat :
                /\ record_event(j, e, a, NoToken)
                /\ UNCHANGED <<brokerVars, pc, localVars, kvVars, shutdown>>
  <2>1. adv[l] \in Message
    BY Zenon, <1>1 DEF ListenInv, RecordDeadLettered
  <2>2. stream[adv[l]].job \in Job /\ stream[adv[l]].num_delivered \in Nat
    BY Zenon, <2>1 DEF IInv, BaseInv, TypeOK
  <2> QED BY ZenonT(30), <1>1, <2>2 DEF RecordDeadLettered, PlainEvent
<1>2. ASSUME NEW j \in Job, replay_job(j)
      PROVE  \E i \in Job, e \in PlainEvent, a \in Nat :
                /\ record_event(i, e, a, NoToken)
                /\ UNCHANGED <<brokerVars, pc, localVars, kvVars, shutdown>>
  BY <1>2 DEF replay_job, PlainEvent
<1>3. ASSUME NEW l \in Listener, DeleteMsg(l)
      PROVE  \E m \in Message :
                /\ settle(m) \/ publish(m)
                /\ UNCHANGED <<repoVars, pc, localVars, kvVars, shutdown>>
  BY Zenon, <1>3 DEF ListenInv, DeleteMsg
<1>4. ASSUME NEW j \in Job, RelayReplay(j)
      PROVE  \E m \in Message :
                /\ settle(m) \/ publish(m)
                /\ UNCHANGED <<repoVars, pc, localVars, kvVars, shutdown>>
  BY ZenonT(30), <1>4 DEF RelayReplay, Unsent
<1>5. ASSUME NEW l \in Listener,
             \/ \E m \in Message : FetchAdvisory(l, m)
             \/ GetMsg(l) \/ CopyMsg(l) \/ AckAdvisory(l) \/ QuarantineRaises(l) \/ ListenerCrash(l)
      PROVE  UNCHANGED vars
  BY Zenon, <1>5 DEF FetchAdvisory, GetMsg, CopyMsg, AckAdvisory, QuarantineRaises,
     ListenerCrash
<1>6. CASE UNCHANGED allVars
  BY Zenon, <1>6 DEF allVars
<1> QED BY Zenon, <1>1, <1>2, <1>3, <1>4, <1>5, <1>6 DEF DNext, Listen

\* The composition preserves the fleet's invariant.
LEMMA NextDIInv == IInv /\ ListenInv /\ [DNext]_allVars => IInv'
<1> SUFFICES ASSUME IInv, ListenInv, [DNext]_allVars PROVE IInv'
  OBVIOUS
<1>1. ASSUME NEW m \in Message, settle(m) \/ publish(m),
             UNCHANGED <<repoVars, pc, localVars, kvVars, shutdown>>
      PROVE  IInv'
  <2>1. /\ stream' \in [Message -> [job : Job, num_delivered : Nat, status : Status]]
        /\ advisories' = advisories
        /\ \A n \in Message : stream'[n].job = stream[n].job
    BY <1>1 DEF settle, publish, IInv, BaseInv, TypeOK, Status
  <2> QED BY Zenon, <1>1, <2>1, StreamIInv
<1> QED BY Zenon, <1>1, OtherStep, PlainIInv, NextIInv

\* The invariants the composition starts in.
LEMMA InitD == DInit => IInv /\ ListenInv
<1> SUFFICES ASSUME DInit PROVE IInv /\ ListenInv
  OBVIOUS
<1>1. stream \in [Message -> [job : Job, num_delivered : Nat, status : Status]]
  BY DEF DInit, Status
<1>2. ListenInv
  BY Zenon DEF DInit, ListenInv, ListenerTypeOK, LPC, NoMsg
<1> QED BY Zenon, <1>1, <1>2, InitIInv DEF DInit

\* Both invariants hold in every state.
LEMMA SpecD == DSpec => [](IInv /\ ListenInv)
BY InitD, NextDIInv, NextListen, PTL DEF DSpec

\* The listener's and the operator's variables keep their types
\* (DeadLetterListener, replay_job), whatever raises or crashes when.
THEOREM ListenerTypeCorrect == DSpec => []ListenerTypeOK
BY SpecD, PTL DEF ListenInv

\* Fencing survives quarantine and replay (record_event without a token, in
\* _quarantine_inner and replay_job): in the whole system, every recorded outcome
\* directly follows the STARTED of the same lease and the same delivery.
THEOREM FencingSurvivesReplay == DSpec => []OutcomeFollowsOwnStart
BY SpecD, PTL DEF IInv, FenceInv
------------------------------------------------------------------------------
(* The lifecycle of a job *)

\* A job that has not succeeded has no result.
ResultInv == \A j \in Job : jobs[j].state # "succeeded" => jobs[j].result = 0

\* What a committed write of a worker does to the row.
LEMMA WorkerRow ==
    ASSUME RepoTypeOK, NEW j \in Job, NEW e, NEW a, NEW t,
           record_event(j, e, a, t), Verdict(j, e, t) = "ok"
    PROVE  /\ apply(jobs[j].state, e) # IllegalTransition
           /\ jobs'[j].state = apply(jobs[j].state, e)
           /\ e = "completed" => jobs'[j].result = t
           /\ e # "completed" => jobs'[j].result = jobs[j].result
           /\ \A i \in Job \ {j} : jobs'[i] = jobs[i]
<1>1. jobs' = [jobs EXCEPT ![j] = UpdatedRow(j, e, a, t)]
  BY Zenon DEF record_event
<1>2. apply(jobs[j].state, e) # IllegalTransition
  BY Zenon DEF Verdict, IllegalTransition
<1>3. /\ jobs'[j] = UpdatedRow(j, e, a, t)
      /\ \A i \in Job \ {j} : jobs'[i] = jobs[i]
  BY Zenon, <1>1 DEF RepoTypeOK
<1> QED BY SMTT(30), <1>2, <1>3 DEF UpdatedRow

\* How one transaction moves the client's view of its job.
LEMMA RowStep ==
    ASSUME RepoTypeOK, RepoTypeOK', ResultInv,
           NEW j \in Job, NEW e \in WorkerEvent \union PlainEvent, NEW t \in Nat \ {0},
           apply(jobs[j].state, e) # IllegalTransition,
           jobs'[j].state = apply(jobs[j].state, e),
           e = "completed" => jobs'[j].result = t,
           e # "completed" => jobs'[j].result = jobs[j].result,
           \A i \in Job \ {j} : jobs'[i] = jobs[i]
    PROVE  ResultInv' /\ [L!Next]_(L!vars)
<1> DEFINE stage == [i \in Job |-> Stage(jobs[i].state)]
           stage2 == [i \in Job |-> Stage(jobs'[i].state)]
           res == [i \in Job |-> jobs[i].result]
           res2 == [i \in Job |-> jobs'[i].result]
           s == jobs[j].state
           s2 == jobs'[j].state
<1>1. /\ s \in JobState /\ s2 \in JobState /\ jobs[j].result \in Nat
  BY ZenonT(30) DEF RepoTypeOK, JobRow
<1>2. /\ e = "started" => s \in {"queued", "running"} /\ s2 = "running"
      /\ e = "completed" => s = "running" /\ s2 = "succeeded"
      /\ e = "requeued" => s = "running" /\ s2 = "queued"
      /\ e = "failed" => s = "running" /\ s2 = "failed"
      /\ e = "dead_lettered" => s \in {"queued", "running"} /\ s2 = "dead_letter"
      /\ e = "replayed" => s = "dead_letter" /\ s2 = "queued"
  BY SMTT(30), <1>1, ApplyWorkerEvents, ApplyPlainEvents
<1>3. ResultInv'
  BY Zenon, <1>2 DEF ResultInv, WorkerEvent, PlainEvent
<1>4. /\ stage2 = [stage EXCEPT ![j] = Stage(s2)]
      /\ res2 = [res EXCEPT ![j] = jobs'[j].result]
      /\ stage[j] = Stage(s) /\ res[j] = jobs[j].result /\ res2[j] = jobs'[j].result
  BY Zenon
<1>5. /\ Stage("queued") = "active" /\ Stage("running") = "active"
      /\ Stage("succeeded") = "succeeded" /\ Stage("failed") = "failed"
      /\ Stage("dead_letter") = "quarantined"
  BY ZenonT(30) DEF Stage, is_terminal, TERMINAL_STATES
<1>6. e # "completed" => res2 = res
  BY ZenonT(30), <1>4
<1> HIDE DEF stage, stage2, res, res2, s, s2
<1>7. CASE e \in {"started", "requeued"}
  <2>1. stage2 = stage /\ res2 = res
    BY ZenonT(30), <1>2, <1>4, <1>5, <1>6, <1>7 DEF stage
  <2> QED BY ZenonT(30), <1>3, <2>1 DEF L!vars, stage, stage2, res, res2
<1>8. CASE e = "completed"
  <2>1. /\ stage[j] = "active" /\ res[j] = 0 /\ stage2 = [stage EXCEPT ![j] = "succeeded"]
        /\ res2[j] # 0 /\ res2 = [res EXCEPT ![j] = res2[j]]
    BY Zenon, <1>2, <1>4, <1>5, <1>8 DEF ResultInv, s
  <2>2. L!Succeed(j)
    BY ZenonT(30), <2>1 DEF L!Succeed, stage, stage2, res, res2
  <2> QED BY Zenon, <1>3, <2>2 DEF L!Next
<1>9. CASE e \in {"failed", "dead_lettered"}
  <2>1. /\ stage[j] = "active" /\ res2 = res
        /\ \E verdict \in {"failed", "quarantined"} : stage2 = [stage EXCEPT ![j] = verdict]
    BY Zenon, <1>2, <1>4, <1>5, <1>6, <1>9
  <2>2. L!GiveUp(j)
    BY Zenon, <2>1 DEF L!GiveUp, stage, stage2, res, res2
  <2> QED BY Zenon, <1>3, <2>2 DEF L!Next
<1>10. CASE e = "replayed"
  <2>1. stage[j] = "quarantined" /\ res2 = res /\ stage2 = [stage EXCEPT ![j] = "active"]
    BY Zenon, <1>2, <1>4, <1>5, <1>6, <1>10
  <2>2. L!Replay(j)
    BY Zenon, <2>1 DEF L!Replay, stage, stage2, res, res2
  <2> QED BY Zenon, <1>3, <2>2 DEF L!Next
<1> QED BY Zenon, <1>7, <1>8, <1>9, <1>10 DEF WorkerEvent, PlainEvent

\* A step that writes no row.
LEMMA NoRowStep ==
    ASSUME ResultInv, jobs' = jobs PROVE ResultInv' /\ [L!Next]_(L!vars)
BY Zenon DEF ResultInv, L!vars

\* Every step of the composition is a step of the lifecycle, or no change of it.
LEMMA NextLifecycle ==
    ASSUME IInv, IInv', ListenInv, ResultInv, [DNext]_allVars
    PROVE  ResultInv' /\ [L!Next]_(L!vars)
<1>0. RepoTypeOK /\ RepoTypeOK' /\ BaseInv
  BY Zenon DEF IInv, BaseInv, TypeOK
<1>1. ASSUME NEW j \in Job, NEW e \in PlainEvent, NEW a \in Nat, record_event(j, e, a, NoToken)
      PROVE  ResultInv' /\ [L!Next]_(L!vars)
  <2>1. CASE Verdict(j, e, NoToken) # "ok"
    <3>1. jobs' = jobs
      BY ZenonT(30), <1>1, <2>1, Rollback
    <3> QED BY Zenon, <3>1, NoRowStep
  <2>2. CASE Verdict(j, e, NoToken) = "ok"
    <3>1. /\ jobs'[j].result = jobs[j].result
          /\ apply(jobs[j].state, e) # IllegalTransition
          /\ jobs'[j].state = apply(jobs[j].state, e)
          /\ \A i \in Job \ {j} : jobs'[i] = jobs[i]
      BY Zenon, <1>0, <1>1, <2>2, PlainCommit
    <3>2. e # "completed" /\ 1 \in Nat \ {0} /\ e \in WorkerEvent \union PlainEvent
      BY DEF PlainEvent
    <3> QED BY Zenon, <1>0, <3>1, <3>2, RowStep
  <2> QED BY Zenon, <2>1, <2>2
<1>2. ASSUME NEW w \in Worker, RecordStarted(w) \/ RecordCompleted(w) \/ RecordFailure(w)
      PROVE  ResultInv' /\ [L!Next]_(L!vars)
  <2>1. PICK e \in WorkerEvent : record_event(JobOf(w), e, attempt[w], token[w])
    BY ZenonT(30), <1>0, <1>2, WriteStep
  <2>2. /\ JobOf(w) \in Job /\ attempt[w] \in Nat /\ token[w] \in Nat \ {0}
    BY Zenon, <1>0, <1>2, WriteStep, JobOfType
       DEF BaseInv, TypeOK, ControlInv, NoToken, Leased, Away, Exited
  <2>3. CASE Verdict(JobOf(w), e, token[w]) # "ok"
    <3>1. jobs' = jobs
      BY ZenonT(30), <2>1, <2>3, Rollback
    <3> QED BY ZenonT(30), <3>1, NoRowStep
  <2>4. CASE Verdict(JobOf(w), e, token[w]) = "ok"
    <3>1. /\ apply(jobs[JobOf(w)].state, e) # IllegalTransition
          /\ jobs'[JobOf(w)].state = apply(jobs[JobOf(w)].state, e)
          /\ e = "completed" => jobs'[JobOf(w)].result = token[w]
          /\ e # "completed" => jobs'[JobOf(w)].result = jobs[JobOf(w)].result
          /\ \A i \in Job \ {JobOf(w)} : jobs'[i] = jobs[i]
      BY ZenonT(30), <1>0, <2>1, <2>2, <2>4, WorkerRow
    <3> QED BY ZenonT(30), <1>0, <2>2, <3>1, RowStep
  <2> QED BY ZenonT(30), <2>3, <2>4
<1>3. ASSUME [Next]_vars,
             ~ \E w \in Worker : RecordStarted(w) \/ RecordCompleted(w) \/ RecordFailure(w)
      PROVE  jobs' = jobs
  <2>1. CASE \E w \in Worker : IncrToken(w)
    BY Zenon, <2>1 DEF IncrToken, repoVars
  <2> QED BY Zenon, <1>0, <1>3, <2>1, QuietStep
<1>4. ASSUME NEW m \in Message, UNCHANGED <<repoVars, pc, localVars, kvVars, shutdown>>
      PROVE  jobs' = jobs
  BY Zenon, <1>4 DEF repoVars
<1> QED BY ZenonT(30), <1>1, <1>2, <1>3, <1>4, NoRowStep, OtherStep

\* The refinement: for any number of workers, listeners, jobs and messages, and
\* whatever expires, dies or raises when, the rows of the database move as the
\* lifecycle of a job allows (record_event, the transition table of
\* state_machine.py): a result is written once and never lost, and a finished job
\* stays finished.
THEOREM LifecycleIsKept == DSpec => LifecycleIsSafe
<1>1. DInit => ResultInv /\ L!Init
  <2> SUFFICES ASSUME DInit PROVE ResultInv /\ L!Init
    OBVIOUS
  <2>1. jobs = [j \in Job |-> SubmittedRow] /\ SubmittedRow.state = "queued" /\ SubmittedRow.result = 0
    BY Zenon DEF DInit, FreshStart, SubmittedRow
  <2>2. Stage("queued") = "active"
    BY Zenon DEF Stage, is_terminal, TERMINAL_STATES
  <2> QED BY Zenon, <2>1, <2>2 DEF ResultInv, L!Init
<1>2. /\ IInv /\ IInv' /\ ListenInv /\ ResultInv /\ [DNext]_allVars
         => ResultInv' /\ [L!Next]_(L!vars)
  BY Zenon, NextLifecycle
<1> QED BY SpecD, <1>1, <1>2, PTL DEF DSpec, LifecycleIsSafe, L!Safety
==============================================================================
