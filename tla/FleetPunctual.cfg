SPECIFICATION FairSpec
CONSTANTS
    Worker = {w1, w2}
    Job = {j1, j2}
    Poison = {j2}
    Mortal = {w1}
    Drained = {w1}
    Punctual = TRUE
    Message = {1, 2, 3}
    MaxDeliver = 2
INVARIANTS NoJobStranded OneExecutor NoLeakedClaim
PROPERTY EveryJobSettles
CHECK_DEADLOCK FALSE
