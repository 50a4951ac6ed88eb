SPECIFICATION FairSpec
CONSTANTS
    r1 = r1  r2 = r2  r3 = r3  k1 = k1  k2 = k2
    Request = {r1, r2, r3}
    KeyOf <- KeyOfThree
    Capacity = 2
    Relay = {x1, x2}
    Drained = {x1}
    BatchSize = 2
    MaxId = 3
    MaxFailures = 2
    MaxLapses = 2
INVARIANTS TypeOK RepliesAgree NothingLost NothingInvented DuplicatesNeedFailure SlotsBalance
PROPERTY HandsOver
