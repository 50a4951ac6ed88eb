SPECIFICATION Spec
CONSTANTS
    Worker = {w1, w2}
    Job = {j1}
    Poison = {}
    Mortal = {w1, w2}
    Drained = {w1, w2}
    Punctual = FALSE
    Message = {1}
    MaxDeliver = 3
SYMMETRY WorkerSymmetry
INVARIANTS TypeOK ProjectionIsReplay OutcomeFollowsOwnStart DoneMeansSucceeded NoLeakedLease
CHECK_DEADLOCK FALSE
