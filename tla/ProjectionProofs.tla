-------------------------- MODULE ProjectionProofs ---------------------------
(***************************************************************************)
(* The state column of jobs is the fold of the log: what replay computes,  *)
(* what a write does to a row and its log, and the theorem for the fleet   *)
(* alone and for the whole system.  replay is a recursive function, so its *)
(* facts are proved by induction, in the form of a least counterexample.   *)
(* Then the queries of JobQueries: what an answer shows was written, and   *)
(* a quarantine is lifted once.                                            *)
(***************************************************************************)
EXTENDS DeadLetterProofs, JobQueries, FiniteSetTheorems, WellFoundedInduction

Less == {pair \in Nat \X Nat : pair[1] < pair[2]}

\* A set of numbers that is not empty has a least element.
LEMMA LeastNumber ==
    ASSUME NEW T \in SUBSET Nat, T # {}
    PROVE  \E n \in T : \A k \in T : n <= k
<1>1. IsWellFoundedOn(Less, Nat)
  BY Zenon, NatLessThanWellFounded, Zenon DEF OpToRel, Less
<1>2. PICK n \in T : \A k \in T : ~ (<<k, n>> \in Less)
  BY ZenonT(30), <1>1, WFMin
<1>3. ASSUME NEW k \in T PROVE n <= k
  <2>1. <<k, n>> \in Less <=> k < n
    BY Zenon DEF Less
  <2> QED BY <1>2, <2>1
<1> QED BY Zenon, <1>3

------------------------------------------------------------------------------
(* The fold *)

\* One event on, as replay folds it.
NextState(state, event) ==
    IF state = IllegalTransition THEN IllegalTransition ELSE apply(state, event)

\* run gives the states of events after 0, 1, ... n of them.
IsRun(run, events, n) ==
    run = [i \in 0..n |-> IF i = 0 THEN NoState
                          ELSE IF run[i-1] = IllegalTransition THEN IllegalTransition
                          ELSE apply(run[i-1], events[i])]

\* What it means step by step.
LEMMA RunSteps ==
    ASSUME NEW events, NEW n \in Nat, NEW run, IsRun(run, events, n)
    PROVE  /\ run[0] = NoState
           /\ \A i \in 1..n : run[i] = NextState(run[i-1], events[i])
<1> DEFINE F == [i \in 0..n |-> IF i = 0 THEN NoState
                                ELSE IF run[i-1] = IllegalTransition THEN IllegalTransition
                                ELSE apply(run[i-1], events[i])]
<1>1. run = F
  BY Zenon DEF IsRun
<1>2. F[0] = NoState
  OBVIOUS
<1>3. ASSUME NEW i \in 1..n PROVE F[i] = NextState(run[i-1], events[i])
  <2>1. i \in 0..n /\ i # 0
    OBVIOUS
  <2> QED BY Zenon, <2>1 DEF NextState
<1> HIDE DEF F
<1> QED BY Zenon, <1>1, <1>2, <1>3

\* Every log has a run, of any length.
LEMMA RunExists ==
    ASSUME NEW events, NEW n \in Nat
    PROVE  \E run : IsRun(run, events, n)
<1> DEFINE T == {k \in Nat : ~ \E run : IsRun(run, events, k)}
<1>1. SUFFICES ASSUME T # {} PROVE FALSE
  OBVIOUS
<1>2. PICK k \in T : \A i \in T : k <= i
  BY ZenonT(30), <1>1, LeastNumber
<1>3. k # 0
  <2> DEFINE r == [i \in 0..0 |-> NoState]
  <2>1. IsRun(r, events, 0)
    BY DEF IsRun
  <2> QED BY Zenon, <2>1
<1>4. k - 1 \in Nat /\ k - 1 \notin T
  BY <1>2, <1>3
<1>5. PICK r : IsRun(r, events, k - 1)
  BY Zenon, <1>4
<1> DEFINE s == [i \in 0..k |-> IF i = k THEN NextState(r[k-1], events[k]) ELSE r[i]]
<1>6. r[0] = NoState /\ \A i \in 1..(k-1) : r[i] = NextState(r[i-1], events[i])
  BY Zenon, <1>4, <1>5, RunSteps
<1>7. s[0] = NoState
  BY <1>3, <1>6
<1>8. ASSUME NEW i \in 1..k PROVE s[i] = NextState(s[i-1], events[i])
  <2>1. CASE i = k
    BY <2>1
  <2>2. CASE i # k
    <3>1. i \in 1..(k-1) /\ i - 1 # k /\ i - 1 \in 0..k /\ i \in 0..k
      BY <2>2
    <3> QED BY Zenon, <1>6, <2>2, <3>1
  <2> QED BY Zenon, <2>1, <2>2
<1>9. IsRun(s, events, k)
  <2>1. s = [i \in 0..k |-> s[i]]
    OBVIOUS
  <2> HIDE DEF s
  <2>2. ASSUME NEW i \in 0..k
        PROVE  s[i] = IF i = 0 THEN NoState
                      ELSE IF s[i-1] = IllegalTransition THEN IllegalTransition
                      ELSE apply(s[i-1], events[i])
    BY <1>7, <1>8 DEF NextState
  <2> QED BY ZenonT(30), <2>1, <2>2 DEF IsRun
<1> QED BY Zenon, <1>9

\* Logs that agree up to n have runs that agree up to n.
LEMMA RunsAgree ==
    ASSUME NEW d, NEW e, NEW k \in Nat, NEW l \in Nat, NEW r, NEW s,
           IsRun(r, d, k), IsRun(s, e, l), NEW n \in Nat, n <= k, n <= l,
           \A i \in 1..n : d[i] = e[i]
    PROVE  r[n] = s[n]
<1> DEFINE T == {i \in 0..n : r[i] # s[i]}
<1>1. SUFFICES ASSUME T # {} PROVE FALSE
  OBVIOUS
<1>2. PICK i \in T : \A j \in T : i <= j
  <2>1. T \in SUBSET Nat
    OBVIOUS
  <2> QED BY ZenonT(30), <1>1, <2>1, LeastNumber
<1>3. /\ r[0] = NoState /\ \A j \in 1..k : r[j] = NextState(r[j-1], d[j])
      /\ s[0] = NoState /\ \A j \in 1..l : s[j] = NextState(s[j-1], e[j])
  BY Zenon, RunSteps
<1>4. i \in 1..n /\ i - 1 \in 0..n /\ i - 1 \notin T /\ i \in 1..k /\ i \in 1..l
  BY <1>2, <1>3
<1> QED BY Zenon, <1>3, <1>4

\* The run replay takes its result from.
LEMMA ReplayIsRun ==
    ASSUME NEW events, Len(events) \in Nat
    PROVE  \E run : IsRun(run, events, Len(events)) /\ replay(events) = run[Len(events)]
<1> DEFINE run == CHOOSE r : IsRun(r, events, Len(events))
<1>1. replay(events) = run[Len(events)]
  BY Zenon DEF replay, IsRun
<1>2. \E r : IsRun(r, events, Len(events))
  BY Zenon, RunExists
<1>3. IsRun(run, events, Len(events))
  BY Zenon, <1>2, Zenon
<1> QED BY ZenonT(30), <1>1, <1>3

\* replay takes the events in turn.
LEMMA ReplayAppend ==
    ASSUME NEW E, NEW events \in Seq(E), NEW e \in E
    PROVE  replay(Append(events, e)) = NextState(replay(events), e)
<1> DEFINE n == Len(events)
           more == Append(events, e)
<1>1. n \in Nat /\ Len(more) = n + 1 /\ more[n+1] = e /\ \A i \in 1..n : events[i] = more[i]
  OBVIOUS
<1>2. PICK r : IsRun(r, events, n) /\ replay(events) = r[n]
  BY Zenon, <1>1, ReplayIsRun
<1> HIDE DEF n, more
<1>3. PICK s : IsRun(s, more, n + 1) /\ replay(more) = s[n + 1]
  <2>1. Len(more) \in Nat
    BY <1>1
  <2>2. PICK s : IsRun(s, more, Len(more)) /\ replay(more) = s[Len(more)]
    BY Zenon, <2>1, ReplayIsRun
  <2> QED BY Zenon, <1>1, <2>2
<1>4. r[n] = s[n]
  BY <1>1, <1>2, <1>3, RunsAgree
<1>5. s[n+1] = NextState(s[n], more[n+1])
  <2>1. n + 1 \in Nat /\ n + 1 \in 1..(n+1) /\ (n + 1) - 1 = n
    BY <1>1
  <2>2. \A i \in 1..(n+1) : s[i] = NextState(s[i-1], more[i])
    BY Zenon, <1>3, <2>1, RunSteps
  <2> QED BY Zenon, <2>1, <2>2
<1> QED BY Zenon, <1>1, <1>2, <1>3, <1>4, <1>5 DEF more

\* A log of no events replays to no state.
LEMMA ReplayEmpty == replay(<< >>) = NoState
<1>1. Len(<< >>) = 0
  OBVIOUS
<1>2. PICK r : IsRun(r, << >>, 0) /\ replay(<< >>) = r[0]
  BY Zenon, <1>1, ReplayIsRun
<1> QED BY Zenon, <1>2, RunSteps
------------------------------------------------------------------------------
(* Rows and logs *)

\* The event types of a log are a sequence of event types, one per row.
LEMMA EventTypesType ==
    ASSUME NEW log \in Seq(EventRow)
    PROVE  EventTypes(log) \in Seq(EventType) /\ Len(EventTypes(log)) = Len(log)
<1>1. \A row \in EventRow : row.event \in EventType
  BY Zenon DEF EventRow
<1>2. EventTypes(log) \in [1..Len(log) -> EventType]
  BY <1>1 DEF EventTypes
<1> QED BY <1>2

\* A row more is an event type more.
LEMMA EventTypesAppend ==
    ASSUME NEW log \in Seq(EventRow), NEW row \in EventRow
    PROVE  EventTypes(Append(log, row)) = Append(EventTypes(log), row.event)
<1> DEFINE a == EventTypes(Append(log, row))
           b == Append(EventTypes(log), row.event)
<1>0. Append(log, row) \in Seq(EventRow) /\ row.event \in EventType
  BY DEF EventRow
<1>1. a \in Seq(EventType) /\ b \in Seq(EventType) /\ Len(a) = Len(log) + 1 /\ Len(b) = Len(log) + 1
  <2>1. a \in Seq(EventType) /\ Len(a) = Len(Append(log, row))
    BY ZenonT(30), <1>0, EventTypesType
  <2>2. EventTypes(log) \in Seq(EventType) /\ Len(EventTypes(log)) = Len(log)
    BY Zenon, EventTypesType
  <2> QED BY <1>0, <2>1, <2>2
<1>2. \A i \in 1..(Len(log) + 1) : a[i] = b[i]
  BY <1>0, EventTypesType DEF EventTypes
<1> QED BY <1>1, <1>2

\* The two events submit_job logs fold to QUEUED.
LEMMA SubmittedReplay ==
    replay(EventTypes(SubmittedLog)) = SubmittedRow.state
<1>1. EventTypes(SubmittedLog) = Append(Append(<< >>, "submitted"), "enqueued")
  BY DEF EventTypes, SubmittedLog
<1>2. << >> \in Seq(EventType) /\ "submitted" \in EventType /\ "enqueued" \in EventType
  BY DEF EventType
<1>3. Append(<< >>, "submitted") \in Seq(EventType)
  BY <1>2
<1>4. replay(Append(<< >>, "submitted")) = NextState(NoState, "submitted")
  BY ZenonT(30), <1>2, ReplayAppend, ReplayEmpty
<1>5. NextState(NoState, "submitted") = "submitted"
  BY Zenon DEF NextState, apply, legal_events, NoState, IllegalTransition
<1>6. replay(EventTypes(SubmittedLog)) = NextState("submitted", "enqueued")
  BY ZenonT(30), <1>1, <1>2, <1>3, <1>4, <1>5, ReplayAppend
<1> QED BY Zenon, <1>6
        DEF NextState, apply, legal_events, TRANSITIONS, NoState, IllegalTransition, SubmittedRow

\* record_event keeps every row the fold of its log: the UPDATE and the INSERT
\* judge the same state by the same apply, and commit together.
LEMMA RecordReplays ==
    ASSUME RepoTypeOK, ProjectionIsReplay, NEW j \in Job, NEW e \in EventType,
           NEW a \in Nat, NEW t \in Nat, record_event(j, e, a, t)
    PROVE  ProjectionIsReplay'
<1>1. CASE Verdict(j, e, t) # "ok"
  BY Zenon, <1>1 DEF record_event, repoVars, ProjectionIsReplay
<1>2. CASE Verdict(j, e, t) = "ok"
  <2> DEFINE rec == [event |-> e, attempt |-> a, fence_token |-> t]
  <2>1. /\ jobs' = [jobs EXCEPT ![j] = UpdatedRow(j, e, a, t)]
        /\ job_events' = [job_events EXCEPT ![j] = Append(@, rec)]
    BY Zenon, <1>2 DEF record_event
  <2>2. /\ jobs'[j].state = apply(jobs[j].state, e)
        /\ job_events'[j] = Append(job_events[j], rec)
        /\ \A i \in Job \ {j} : jobs'[i] = jobs[i] /\ job_events'[i] = job_events[i]
    BY Zenon, <2>1 DEF RepoTypeOK, UpdatedRow
  <2>3. job_events[j] \in Seq(EventRow) /\ rec \in EventRow /\ rec.event = e
    BY ZenonT(30) DEF RepoTypeOK, EventRow
  <2>4. jobs[j].state # IllegalTransition
    BY ZenonT(30) DEF RepoTypeOK, JobRow, JobState, IllegalTransition
  <2>5. jobs[j].state = replay(EventTypes(job_events[j]))
    BY Zenon DEF ProjectionIsReplay
  <2> HIDE DEF rec
  <2>6. EventTypes(job_events'[j]) = Append(EventTypes(job_events[j]), e)
    BY Zenon, <2>2, <2>3, EventTypesAppend
  <2>7. EventTypes(job_events[j]) \in Seq(EventType)
    BY Zenon, <2>3, EventTypesType
  <2>8. replay(EventTypes(job_events'[j])) = NextState(jobs[j].state, e)
    BY Zenon, <2>5, <2>6, <2>7, ReplayAppend
  <2>9. NextState(jobs[j].state, e) = apply(jobs[j].state, e)
    BY Zenon, <2>4 DEF NextState
  <2> QED BY Zenon, <2>2, <2>8, <2>9 DEF ProjectionIsReplay
<1> QED BY Zenon, <1>1, <1>2
------------------------------------------------------------------------------
(* Theorems *)

\* What a fleet that has just been started satisfies.
LEMMA InitProjection == FreshStart => ProjectionIsReplay
BY Zenon, SubmittedReplay DEF FreshStart, ProjectionIsReplay

\* A step of the fleet keeps every row the fold of its log.
LEMMA NextProjection ==
    ASSUME BaseInv, ProjectionIsReplay, [Next]_vars PROVE ProjectionIsReplay'
<1>0. RepoTypeOK
  BY Zenon DEF BaseInv, TypeOK
<1>1. ASSUME NEW w \in Worker, RecordStarted(w) \/ RecordCompleted(w) \/ RecordFailure(w)
      PROVE  ProjectionIsReplay'
  <2>1. PICK e \in WorkerEvent : record_event(JobOf(w), e, attempt[w], token[w])
    BY ZenonT(30), <1>1, WriteStep
  <2>2. JobOf(w) \in Job /\ attempt[w] \in Nat /\ token[w] \in Nat
    BY ZenonT(30), <1>1, WriteStep, JobOfType DEF BaseInv, TypeOK, Away, Exited
  <2>3. e \in EventType
    BY Zenon DEF WorkerEvent, EventType
  <2> QED BY Zenon, <1>0, <2>1, <2>2, <2>3, RecordReplays
<1>2. CASE ~ \E w \in Worker : RecordStarted(w) \/ RecordCompleted(w) \/ RecordFailure(w)
  <2>1. jobs' = jobs /\ job_events' = job_events
    <3>1. CASE \E w \in Worker : IncrToken(w)
      BY Zenon, <3>1 DEF IncrToken, repoVars
    <3> QED BY ZenonT(30), <1>2, <3>1, QuietStep
  <2> QED BY Zenon, <2>1 DEF ProjectionIsReplay
<1> QED BY Zenon, <1>1, <1>2

\* The projection (repo._apply_event, state_machine.replay): whatever order the
\* workers' transactions commit in, and whichever of them roll back, the state
\* column of jobs is the fold of the job's log, and no log has an illegal step.
THEOREM ProjectionFollowsLog == Spec => []ProjectionIsReplay
<1>1. Init => ProjectionIsReplay
  BY Zenon, InitProjection DEF Init
<1> QED BY <1>1, SpecFence, NextProjection, PTL DEF Spec

\* The projection survives quarantine and replay: in the whole system the state
\* column of jobs is the fold of the job's log.
THEOREM ProjectionSurvivesReplay == DSpec => []ProjectionIsReplay
<1>1. DInit => ProjectionIsReplay
  BY Zenon, InitProjection DEF DInit
<1>2. ASSUME IInv, ListenInv, ProjectionIsReplay, [DNext]_allVars PROVE ProjectionIsReplay'
  <2>0. RepoTypeOK /\ BaseInv
    BY Zenon, <1>2 DEF IInv, BaseInv, TypeOK
  <2>1. ASSUME NEW j \in Job, NEW e \in PlainEvent, NEW a \in Nat, record_event(j, e, a, NoToken)
        PROVE  ProjectionIsReplay'
    <3>1. e \in EventType /\ NoToken \in Nat
      BY Zenon DEF PlainEvent, EventType, NoToken
    <3> QED BY Zenon, <1>2, <2>0, <2>1, <3>1, RecordReplays
  <2>2. ASSUME UNCHANGED repoVars PROVE ProjectionIsReplay'
    BY Zenon, <1>2, <2>2 DEF repoVars, ProjectionIsReplay
  <2> QED BY ZenonT(30), <1>2, <2>0, <2>1, <2>2, OtherStep, NextProjection
<1> QED BY <1>1, <1>2, SpecD, PTL DEF DSpec
------------------------------------------------------------------------------
(* What clients and operators see *)

\* What a committed write of a worker, the listener or an operator leaves behind.
LEMMA Written ==
    ASSUME RepoTypeOK, NEW j \in Job, NEW e \in WorkerEvent \union PlainEvent,
           NEW a \in Nat, NEW t \in Nat, t = NoToken <=> e \in PlainEvent,
           record_event(j, e, a, t), Verdict(j, e, t) = "ok"
    PROVE  /\ RepoTypeOK'
           /\ apply(jobs[j].state, e) # IllegalTransition
           /\ jobs'[j].state = apply(jobs[j].state, e)
           /\ jobs'[j].result = IF e = "completed" THEN t ELSE jobs[j].result
           /\ job_events'[j] =
                 Append(job_events[j], [event |-> e, attempt |-> a, fence_token |-> t])
           /\ \A i \in Job \ {j} : jobs'[i] = jobs[i] /\ job_events'[i] = job_events[i]
<1>1. RepoTypeOK'
  <2>1. CASE e \in PlainEvent
    BY ZenonT(30), <2>1, PlainCommit
  <2>2. CASE e \notin PlainEvent
    <3>1. e \in WorkerEvent /\ t \in Nat \ {0}
      BY Zenon, <2>2 DEF NoToken
    <3> QED BY Zenon, <3>1, Commit
  <2> QED BY Zenon, <2>1, <2>2
<1>2. /\ job_events'[j] =
            Append(job_events[j], [event |-> e, attempt |-> a, fence_token |-> t])
      /\ \A i \in Job \ {j} : job_events'[i] = job_events[i]
  BY Zenon DEF record_event, RepoTypeOK
<1> QED BY <1>1, <1>2, WorkerRow

\* A log with a row more still backs an answer that is not final.
LEMMA BackedGrows ==
    ASSUME NEW answer, NEW log \in Seq(EventRow), NEW row \in EventRow,
           Backed(answer, log), ~ is_terminal(answer.state)
    PROVE  Backed(answer, Append(log, row))
<1>1. PICK n \in 1..Len(log) : answer.state = replay(EventTypes(SubSeq(log, 1, n)))
  BY Zenon DEF Backed
<1>2. SubSeq(Append(log, row), 1, n) = SubSeq(log, 1, n)
  OBVIOUS
<1>3. n \in 1..Len(Append(log, row))
  OBVIOUS
<1> QED BY Zenon, <1>1, <1>2, <1>3 DEF Backed

\* The log backs the row of its job.
LEMMA RowIsBacked ==
    ASSUME NEW log \in Seq(EventRow), Len(log) > 0, NEW answer,
           answer.state = replay(EventTypes(log)),
           answer.state = "succeeded" <=> answer.result # 0
    PROVE  Backed(answer, log)
<1>1. SubSeq(log, 1, Len(log)) = log /\ Len(log) \in 1..Len(log)
  OBVIOUS
<1> QED BY Zenon, <1>1 DEF Backed

\* How often an event is in a log with a row more.
LEMMA HowOftenAppend ==
    ASSUME NEW log \in Seq(EventRow), NEW row \in EventRow, NEW event
    PROVE  /\ HowOften(log, event) \in Nat
           /\ HowOften(Append(log, row), event) =
                 HowOften(log, event) + (IF row.event = event THEN 1 ELSE 0)
<1> DEFINE n == Len(log)
           more == Append(log, row)
           S == {i \in 1..n : log[i].event = event}
           T == {i \in 1..(n+1) : more[i].event = event}
<1>1. n \in Nat /\ Len(more) = n + 1 /\ more[n+1] = row /\ \A i \in 1..n : more[i] = log[i]
  OBVIOUS
<1>2. IsFiniteSet(S) /\ Cardinality(S) \in Nat
  <2>1. IsFiniteSet(1..n)
    BY <1>1, FS_Interval
  <2>2. S \in SUBSET (1..n)
    OBVIOUS
  <2> HIDE DEF S
  <2>3. IsFiniteSet(S)
    BY Zenon, <2>1, <2>2, FS_Subset
  <2> QED BY Zenon, <2>3, FS_CardinalityType
<1>3. T = IF row.event = event THEN S \union {n+1} ELSE S
  <2> HIDE DEF more, n
  <2>1. ASSUME NEW i PROVE i \in T <=> i \in S \/ (i = n + 1 /\ row.event = event)
    BY <1>1
  <2> HIDE DEF S, T
  <2> QED BY Zenon, <2>1
<1>4. n + 1 \notin S
  BY <1>1
<1>5. HowOften(log, event) = Cardinality(S) /\ HowOften(more, event) = Cardinality(T)
  BY Zenon, <1>1 DEF HowOften
<1> HIDE DEF S, T, more, n
<1>6. Cardinality(S \union {n+1}) = Cardinality(S) + 1
  BY Zenon, <1>2, <1>4, FS_AddElement
<1> QED BY <1>2, <1>3, <1>5, <1>6 DEF more

\* What the queries rest on.  Rows are the folds of their logs and have a result if
\* and only if the job succeeded; a row that was read waits for events that back it.
View == [job : Job \union {NoJob}, state : JobState \union {NoState}, result : Nat,
         events : Seq(EventRow)]

LogsInv == \A j \in Job :
    /\ Len(job_events[j]) > 0
    /\ jobs[j].state = "succeeded" <=> jobs[j].result # 0

ReadInv == \A c \in Client : view[c] # NoView /\ view[c].events = Unread =>
    view[c].job \in Job /\ Backed(view[c], job_events[view[c].job])

QueryTypes ==
    RepoTypeOK /\ requeues \in [Job -> Nat] /\ view \in [Client -> View]

QueryInv ==
    /\ QueryTypes /\ ProjectionIsReplay /\ LogsInv
    /\ ReadInv /\ AnswerIsBacked /\ ReplayOncePerQuarantine

\* What holds before anything was asked.
LEMMA InitQuery == QueryInit => QueryInv
<1> SUFFICES ASSUME QueryInit PROVE QueryInv
  OBVIOUS
<1>1. /\ SubmittedLog \in Seq(EventRow) /\ Len(SubmittedLog) = 2
      /\ SubmittedLog[1].event = "submitted" /\ SubmittedLog[2].event = "enqueued"
  BY DEF SubmittedLog, EventRow, EventType, NoToken
<1>2. SubmittedRow \in JobRow /\ SubmittedRow.state = "queued" /\ SubmittedRow.result = 0
  BY Zenon DEF SubmittedRow, JobRow, JobState
<1>3. NoView \in View /\ NoView.events = Unread
  BY DEF NoView, View, Unread
<1>4. QueryTypes
  BY Zenon, <1>1, <1>2, <1>3 DEF QueryInit, QueryTypes, RepoTypeOK
<1>5. ProjectionIsReplay
  BY Zenon, SubmittedReplay DEF QueryInit, ProjectionIsReplay
<1>6. LogsInv
  <2>1. \A j \in Job : jobs[j] = SubmittedRow /\ job_events[j] = SubmittedLog
    BY Zenon DEF QueryInit
  <2> QED BY SMTT(30), <1>1, <1>2, <2>1 DEF LogsInv
<1>7. ReadInv /\ AnswerIsBacked
  BY Zenon, <1>3 DEF QueryInit, ReadInv, AnswerIsBacked
<1>8. ASSUME NEW e \in PlainEvent PROVE HowOften(SubmittedLog, e) = 0
  <2>1. {i \in 1..Len(SubmittedLog) : SubmittedLog[i].event = e} = {}
    BY <1>1 DEF PlainEvent
  <2> QED BY Zenon, <2>1, FS_EmptySet DEF HowOften
<1>9. ReplayOncePerQuarantine
  BY <1>2, <1>8 DEF QueryInit, ReplayOncePerQuarantine, Dead, PlainEvent
<1> QED BY Zenon, <1>4, <1>5, <1>6, <1>7, <1>9 DEF QueryInv

\* A committed write leaves every pending answer backed: while a job is not
\* finished its log may grow under a reader, and once it is, nothing is written.
LEMMA WriteQuery ==
    ASSUME QueryInv, NEW j \in Job, NEW e \in WorkerEvent \union PlainEvent,
           NEW a \in Nat, NEW t \in Nat, t = NoToken <=> e \in PlainEvent,
           record_event(j, e, a, t), Verdict(j, e, t) = "ok", view' = view,
           requeues' = [requeues EXCEPT ![j] = @ + (IF e = "replayed" THEN 1 ELSE 0)]
    PROVE  QueryInv'
<1> DEFINE rec == [event |-> e, attempt |-> a, fence_token |-> t]
           s == jobs[j].state
           s2 == jobs'[j].state
<1>1. /\ RepoTypeOK' /\ apply(s, e) # IllegalTransition /\ s2 = apply(s, e)
      /\ jobs'[j].result = IF e = "completed" THEN t ELSE jobs[j].result
      /\ job_events'[j] = Append(job_events[j], rec)
      /\ \A i \in Job \ {j} : jobs'[i] = jobs[i] /\ job_events'[i] = job_events[i]
  BY ZenonT(30), Written DEF QueryInv, QueryTypes
<1>2. s \in JobState /\ job_events[j] \in Seq(EventRow) /\ rec \in EventRow /\ rec.event = e
  BY Zenon DEF QueryInv, QueryTypes, RepoTypeOK, JobRow, EventRow, WorkerEvent,
     PlainEvent, EventType
<1> HIDE DEF rec
<1>a. job_events'[j] = Append(job_events[j], rec)
  BY Zenon, <1>1
<1>3. /\ e = "started" => s \in {"queued", "running"} /\ s2 = "running"
      /\ e = "completed" => s = "running" /\ s2 = "succeeded"
      /\ e = "requeued" => s = "running" /\ s2 = "queued"
      /\ e = "failed" => s = "running" /\ s2 = "failed"
      /\ e = "dead_lettered" => s \in {"queued", "running"} /\ s2 = "dead_letter"
      /\ e = "replayed" => s = "dead_letter" /\ s2 = "queued"
  <2> HIDE DEF s, s2
  <2> QED BY SMTT(30), <1>1, <1>2, ApplyWorkerEvents, ApplyPlainEvents
<1>4. QueryTypes'
  BY <1>1 DEF QueryInv, QueryTypes
<1>5. ProjectionIsReplay'
  <2>1. e \in EventType
    BY Zenon DEF WorkerEvent, PlainEvent, EventType
  <2> QED BY Zenon, <2>1, RecordReplays DEF QueryInv, QueryTypes
<1>6. LogsInv'
  <2> SUFFICES ASSUME NEW i \in Job
               PROVE  /\ Len(job_events'[i]) > 0
                      /\ jobs'[i].state = "succeeded" <=> jobs'[i].result # 0
    BY Zenon DEF LogsInv
  <2>1. Len(job_events[i]) > 0 /\ (jobs[i].state = "succeeded" <=> jobs[i].result # 0)
    BY Zenon DEF QueryInv, LogsInv
  <2>2. CASE i # j
    BY Zenon, <1>1, <2>1, <2>2
  <2>3. CASE i = j
    <3>1. Len(job_events'[j]) > 0
      BY <1>a, <1>2
    <3>2. e = "completed" => jobs'[j].result # 0
      BY Zenon, <1>1 DEF PlainEvent, NoToken
    <3>3. e # "completed" => jobs'[j].result = jobs[j].result
      BY Zenon, <1>1
    <3> QED BY Zenon, <1>3, <2>1, <2>3, <3>1, <3>2, <3>3 DEF WorkerEvent, PlainEvent
  <2> QED BY Zenon, <2>2, <2>3
<1>7. ReadInv'
  <2> SUFFICES ASSUME NEW c \in Client, view[c] # NoView, view[c].events = Unread
               PROVE  view[c].job \in Job /\ Backed(view[c], job_events'[view[c].job])
    BY Zenon DEF ReadInv
  <2>1. view[c].job \in Job /\ Backed(view[c], job_events[view[c].job])
    BY Zenon DEF QueryInv, ReadInv
  <2>2. CASE view[c].job # j
    BY ZenonT(30), <1>1, <2>1, <2>2
  <2>3. CASE view[c].job = j
    <3>1. ~ is_terminal(view[c].state)
      <4> SUFFICES ASSUME is_terminal(view[c].state) PROVE FALSE
        OBVIOUS
      <4>1. view[c].state = replay(EventTypes(SubSeq(job_events[j], 1, Len(job_events[j]))))
        BY Zenon, <2>1, <2>3 DEF Backed
      <4>2. SubSeq(job_events[j], 1, Len(job_events[j])) = job_events[j]
        BY <1>2
      <4>3. view[c].state = s
        BY Zenon, <4>1, <4>2 DEF QueryInv, ProjectionIsReplay
      <4> QED BY Zenon, <1>3, <4>3 DEF is_terminal, TERMINAL_STATES, WorkerEvent, PlainEvent
    <3>2. Backed(view[c], job_events[j]) /\ job_events'[j] = Append(job_events[j], rec)
      BY Zenon, <1>1, <2>1, <2>3
    <3>3. Backed(view[c], Append(job_events[j], rec))
      BY Zenon, <1>2, <3>1, <3>2, BackedGrows
    <3> QED BY Zenon, <2>1, <2>3, <3>2, <3>3
  <2> QED BY ZenonT(30), <2>2, <2>3
<1>8. AnswerIsBacked'
  BY Zenon DEF QueryInv, AnswerIsBacked
<1>9. ReplayOncePerQuarantine'
  <2> DEFINE d(log) == HowOften(log, "dead_lettered")
             r(log) == HowOften(log, "replayed")
  <2> SUFFICES ASSUME NEW i \in Job
               PROVE  /\ d(job_events'[i]) = r(job_events'[i]) + (IF Dead(i)' THEN 1 ELSE 0)
                      /\ requeues'[i] = r(job_events'[i])
    BY Zenon DEF ReplayOncePerQuarantine
  <2>1. /\ d(job_events[i]) = r(job_events[i]) + (IF Dead(i) THEN 1 ELSE 0)
        /\ requeues[i] = r(job_events[i])
    BY Zenon DEF QueryInv, ReplayOncePerQuarantine
  <2>2. requeues \in [Job -> Nat]
    BY Zenon DEF QueryInv, QueryTypes
  <2>3. CASE i # j
    BY ZenonT(30), <1>1, <2>1, <2>2, <2>3 DEF Dead
  <2>4. CASE i = j
    <3>1. /\ d(job_events[j]) \in Nat /\ r(job_events[j]) \in Nat
          /\ d(job_events'[j]) = d(job_events[j]) + (IF e = "dead_lettered" THEN 1 ELSE 0)
          /\ r(job_events'[j]) = r(job_events[j]) + (IF e = "replayed" THEN 1 ELSE 0)
      <4>1. ASSUME NEW x
            PROVE  /\ HowOften(job_events[j], x) \in Nat
                   /\ HowOften(job_events'[j], x) =
                         HowOften(job_events[j], x) + (IF e = x THEN 1 ELSE 0)
        <5>1. /\ HowOften(job_events[j], x) \in Nat
              /\ HowOften(Append(job_events[j], rec), x) =
                    HowOften(job_events[j], x) + (IF rec.event = x THEN 1 ELSE 0)
          BY Zenon, <1>2, HowOftenAppend
        <5>2. rec.event = e
          BY Zenon, <1>2
        <5> QED BY Zenon, <1>a, <5>1, <5>2
      <4> QED BY Zenon, <4>1
    <3>2. requeues'[j] = requeues[j] + (IF e = "replayed" THEN 1 ELSE 0)
      BY Zenon, <2>2
    <3> HIDE DEF d, r
    <3>3. (Dead(j) <=> e = "replayed") /\ (Dead(j)' <=> e = "dead_lettered")
      BY Zenon, <1>3 DEF Dead, WorkerEvent, PlainEvent
    <3> QED BY ZenonT(30), <2>1, <2>4, <3>1, <3>2, <3>3
  <2> QED BY Zenon, <2>3, <2>4
<1> QED BY Zenon, <1>4, <1>5, <1>6, <1>7, <1>8, <1>9 DEF QueryInv

\* A query or a write leaves every answer backed and every quarantine accounted for.
LEMMA NextQuery == QueryInv /\ [QueryNext]_queryVars => QueryInv'
<1> SUFFICES ASSUME QueryInv, [QueryNext]_queryVars PROVE QueryInv'
  OBVIOUS
<1>0. view \in [Client -> View] /\ requeues \in [Job -> Nat] /\ RepoTypeOK
  BY Zenon DEF QueryInv, QueryTypes
<1>1. ASSUME NEW j \in Job, NEW w \in Writes, Write(j, w) PROVE QueryInv'
  <2>1. /\ w[1] \in WorkerEvent \union PlainEvent /\ w[1] # "replayed" /\ w[2] \in Nat
        /\ w[2] = NoToken <=> w[1] \in PlainEvent
    BY QueryAssumption DEF Writes, WorkerEvent, PlainEvent, NoToken
  <2>2. /\ record_event(j, w[1], 1, w[2]) /\ Verdict(j, w[1], w[2]) = "ok"
        /\ view' = view /\ requeues' = requeues
    BY Zenon, <1>1 DEF Write
  <2>3. requeues' = [requeues EXCEPT ![j] = @ + (IF w[1] = "replayed" THEN 1 ELSE 0)]
    BY <1>0, <2>1, <2>2
  <2>4. 1 \in Nat
    OBVIOUS
  <2> QED BY Zenon, <2>1, <2>2, <2>3, <2>4, WriteQuery
<1>2. ASSUME NEW o \in Operator, NEW j \in Job, PostReplay(o, j) PROVE QueryInv'
  <2>1. /\ record_event(j, "replayed", 0, NoToken) /\ Verdict(j, "replayed", NoToken) = "ok"
        /\ view' = view /\ requeues' = [requeues EXCEPT ![j] = @ + 1]
    BY Zenon, <1>2 DEF PostReplay
  <2>2. "replayed" \in PlainEvent /\ NoToken \in Nat
    BY Zenon DEF PlainEvent, NoToken
  <2>3. requeues' = [requeues EXCEPT ![j] = @ + (IF "replayed" = "replayed" THEN 1 ELSE 0)]
    BY Zenon, <2>1
  <2>4. 0 \in Nat
    OBVIOUS
  <2> QED BY Zenon, <2>1, <2>2, <2>3, <2>4, WriteQuery
<1>3. ASSUME UNCHANGED <<jobs, job_events, requeues>>
      PROVE  /\ RepoTypeOK' /\ requeues' \in [Job -> Nat] /\ ProjectionIsReplay' /\ LogsInv'
             /\ ReplayOncePerQuarantine'
  BY Zenon, <1>0, <1>3
     DEF QueryInv, RepoTypeOK, ProjectionIsReplay, LogsInv, ReplayOncePerQuarantine, Dead
<1>4. ASSUME NEW c \in Client, NEW j \in Job, SelectRow(c, j) PROVE QueryInv'
  <2> DEFINE row == [job |-> j, state |-> jobs[j].state, result |-> jobs[j].result,
                     events |-> Unread]
  <2>1. UNCHANGED <<jobs, job_events, requeues>> /\ view' = [view EXCEPT ![c] = row]
    BY Zenon, <1>4 DEF SelectRow
  <2>2. /\ row \in View /\ row.job = j /\ row.events = Unread
        /\ row.state = jobs[j].state /\ row.result = jobs[j].result
    <3>1. jobs[j].state \in JobState /\ jobs[j].result \in Nat
      BY Zenon, <1>0 DEF RepoTypeOK, JobRow
    <3>2. Unread \in Seq(EventRow)
      BY DEF Unread
    <3> QED BY Zenon, <3>1, <3>2 DEF View
  <2>3. job_events[j] \in Seq(EventRow) /\ Len(job_events[j]) > 0
    BY Zenon, <1>0 DEF QueryInv, LogsInv, RepoTypeOK
  <2> HIDE DEF row
  <2>4. Backed(row, job_events[j])
    <3>1. row.state = replay(EventTypes(job_events[j]))
      BY Zenon, <2>2 DEF QueryInv, ProjectionIsReplay
    <3>2. row.state = "succeeded" <=> row.result # 0
      BY Zenon, <2>2 DEF QueryInv, LogsInv
    <3> QED BY Zenon, <2>3, <3>1, <3>2, RowIsBacked
  <2>5. view' \in [Client -> View]
    BY Zenon, <1>0, <2>1, <2>2
  <2>6. view'[c] = row /\ \A k \in Client \ {c} : view'[k] = view[k]
    BY Zenon, <1>0, <2>1
  <2>7. ReadInv'
    BY Zenon, <2>1, <2>2, <2>4, <2>6 DEF QueryInv, ReadInv
  <2>8. AnswerIsBacked'
    BY Zenon, <2>2, <2>6 DEF QueryInv, AnswerIsBacked
  <2> QED BY Zenon, <1>3, <2>1, <2>5, <2>7, <2>8 DEF QueryInv, QueryTypes
<1>5. ASSUME NEW c \in Client, SelectEvents(c) PROVE QueryInv'
  <2> DEFINE log == job_events[view[c].job]
  <2>1. /\ view[c] # NoView /\ view[c].events = Unread
        /\ view' = [view EXCEPT ![c] = [view[c] EXCEPT !.events = log]]
        /\ UNCHANGED <<jobs, job_events, requeues>>
    BY Zenon, <1>5 DEF SelectEvents
  <2>2. view[c].job \in Job /\ Backed(view[c], log)
    BY Zenon, <2>1 DEF QueryInv, ReadInv
  <2>3. log \in Seq(EventRow) /\ log # Unread
    BY <1>0, <2>2 DEF QueryInv, LogsInv, RepoTypeOK, Unread
  <2> HIDE DEF log
  <2> DEFINE answer == [view[c] EXCEPT !.events = log]
  <2>a. view[c] \in View
    BY Zenon, <1>0
  <2>b. /\ answer \in View /\ answer.state = view[c].state
        /\ answer.result = view[c].result /\ answer.events = log
    BY Zenon, <2>a, <2>3 DEF View
  <2> HIDE DEF answer
  <2>c. view' = [view EXCEPT ![c] = answer]
    BY Zenon, <2>1 DEF answer
  <2>4. /\ view'[c] = answer /\ \A k \in Client \ {c} : view'[k] = view[k]
        /\ view' \in [Client -> View]
    BY Zenon, <1>0, <2>b, <2>c
  <2>5. Backed(view'[c], view'[c].events)
    BY Zenon, <2>2, <2>4, <2>b DEF Backed
  <2>6. ReadInv'
    BY Zenon, <2>1, <2>3, <2>4, <2>b DEF QueryInv, ReadInv
  <2>7. AnswerIsBacked'
    BY Zenon, <2>4, <2>5 DEF QueryInv, AnswerIsBacked
  <2> QED BY Zenon, <1>3, <2>1, <2>4, <2>6, <2>7 DEF QueryInv, QueryTypes
<1>6. ASSUME UNCHANGED <<jobs, job_events, requeues, view>> PROVE QueryInv'
  BY Zenon, <1>3, <1>6 DEF QueryInv, QueryTypes, ReadInv, AnswerIsBacked
<1>7. ASSUME NEW o \in Operator, GetDlq(o) PROVE QueryInv'
  BY Zenon, <1>6, <1>7 DEF GetDlq
<1>8. CASE UNCHANGED queryVars
  BY Zenon, <1>6, <1>8 DEF queryVars
<1> QED BY Zenon, <1>1, <1>2, <1>4, <1>5, <1>7, <1>8 DEF QueryNext

\* QueryInv holds in every reachable state.
LEMMA SpecQuery == QuerySpec => []QueryInv
BY InitQuery, NextQuery, PTL DEF QuerySpec

\* get_job's two queries (GET /jobs/{id}), for any jobs, clients and writers: an
\* answer never shows a state that its own events do not account for, of a finished
\* job it shows the whole log, and it has a result if and only if the job succeeded.
THEOREM AnswersAreBacked == QuerySpec => []AnswerIsBacked
BY SpecQuery, PTL DEF QueryInv

\* POST /jobs/{id}/replay, for any operators and lists of any age: every quarantine
\* but the present one was lifted exactly once, and every replay queued one message.
THEOREM QuarantineIsLiftedOnce == QuerySpec => []ReplayOncePerQuarantine
BY SpecQuery, PTL DEF QueryInv
==============================================================================
