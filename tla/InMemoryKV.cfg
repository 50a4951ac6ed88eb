SPECIFICATION KvSpec
CONSTANTS
    Key = {k1, k2}
    Value = {v1, v2}
    Ttl = {0, 3, 4}
    Seconds = {1, 3}
    Millisecond = 2
    MaxTime = 8
INVARIANT LivesItsTime
PROPERTY ImplementsKeys
