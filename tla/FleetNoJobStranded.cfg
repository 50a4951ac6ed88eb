SPECIFICATION Spec
CONSTANTS
    Worker = {w1, w2}
    Job = {j1}
    Poison = {}
    Mortal = {}
    Drained = {}
    Punctual = FALSE
    Message = {1}
    MaxDeliver = 3
INVARIANT NoJobStranded
CHECK_DEADLOCK FALSE
