SPECIFICATION DSpec
CONSTANTS
    Worker = {w1, w2}
    Job = {j1}
    Poison = {}
    Mortal = {}
    Drained = {}
    Punctual = FALSE
    Message = {1, 2}
    MaxDeliver = 1
    Listener = {l1}
    Flaky = TRUE
    MaxCrashes = 0
SYMMETRY ProcessSymmetry
INVARIANT OutcomeFollowsOwnStart
PROPERTY LifecycleIsSafe
CHECK_DEADLOCK FALSE
