SPECIFICATION FairSpec
CONSTANTS
    Message = {1, 2}
    MaxDeliver = 5
    AckWait = 30
    LeaseTtl = 20
    Latency = 1
    BounceDelay <- UniformDelay
    FailDelay <- RetryDelay
    Duration = 18
    MaxKills = 2
    MaxFailures = 1
INVARIANTS TypeOK OwnClaimIsGone NothingWasted QuarantineSparesRunning
PROPERTY KilledJobRecovers
