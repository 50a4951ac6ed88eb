SPECIFICATION FairBootSpec
CONSTANTS
    Api = {api}
    RelayProcess = {relay}
    Worker = {w1}
    Listener = {dlq}
    Poison = {m1, m2}
    MaxFaults = 2
INVARIANT NoSchemaCollision
PROPERTIES PlatformComesUp DowntimeLosesNothing
CHECK_DEADLOCK FALSE
