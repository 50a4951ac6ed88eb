SPECIFICATION QuerySpec
CONSTANTS
    Job = {j1, j2}
    Client = {c1}
    Operator = {o1, o2}
    Limit = 1
    MaxToken = 1
    MaxEvents = 6
INVARIANTS AnswerIsBacked ReplayOncePerQuarantine
