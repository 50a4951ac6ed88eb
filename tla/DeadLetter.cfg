SPECIFICATION DFairSpec
CONSTANTS
    Worker = {w1, w2}
    Job = {j1}
    Poison = {}
    Mortal = {w1}
    Drained = {}
    Punctual = TRUE
    Message = {1, 2}
    MaxDeliver = 1
    Listener = {l1, l2}
    Flaky = FALSE
    MaxCrashes = 1
INVARIANTS ListenerTypeOK CopyBeforeDelete QuarantineNotLost NoJobForgotten CrashNeedsQuarantine
PROPERTY KeepsLifecycle
CHECK_DEADLOCK FALSE
