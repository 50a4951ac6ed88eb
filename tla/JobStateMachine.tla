--------------------------- MODULE JobStateMachine ---------------------------
(***************************************************************************)
(* The job lifecycle of orbiter.domain: the states, the events and the one *)
(* function, apply, that judges a transition legal.  Constant-level: every *)
(* other module extends it.                                                *)
(***************************************************************************)
EXTENDS Naturals, Sequences

JobState ==
    {"submitted", "queued", "running", "succeeded", "failed", "dead_letter"}

EventType ==
    {"submitted", "enqueued", "started", "completed", "failed", "requeued",
     "dead_lettered", "replayed"}

TERMINAL_STATES == {"succeeded", "failed"}

\* state -> (event -> next state); an event outside the domain is illegal.
TRANSITIONS ==
    [submitted   |-> [enqueued |-> "queued"],
     queued      |-> [started |-> "running", dead_lettered |-> "dead_letter"],
     running     |-> [completed |-> "succeeded", failed |-> "failed",
                      requeued |-> "queued", dead_lettered |-> "dead_letter",
                      started |-> "running"],
     dead_letter |-> [replayed |-> "queued"],
     succeeded   |-> << >>,
     failed      |-> << >>]

\* The state argument None: the job does not exist yet.
NoState == "none"

\* The exception apply raises.
IllegalTransition == "IllegalTransition"

is_terminal(state) == state \in TERMINAL_STATES

legal_events(state) ==
    IF state = NoState THEN {"submitted"} ELSE DOMAIN TRANSITIONS[state]

apply(state, event) ==
    IF event \notin legal_events(state) THEN IllegalTransition
    ELSE IF state = NoState THEN "submitted"
    ELSE TRANSITIONS[state][event]

\* The fold of a log of event types; an illegal event anywhere makes the whole
\* replay raise.
replay(events) ==
    LET after[i \in 0..Len(events)] ==
          IF i = 0 THEN NoState
          ELSE IF after[i-1] = IllegalTransition THEN IllegalTransition
          ELSE apply(after[i-1], events[i])
    IN  after[Len(events)]
==============================================================================
