\* One refused stop notification: the join that is repeated posts the whole
\* crew's again, and the next pool finds what is left over.
CONSTANTS
    Client = client
    Workers = {w1, w2}
    None = none
    Requests = {r1, r2}
    Stop = stop
    MaxStarts = 0
    MaxPools = 2
    MaxRefusals = 1
    MaxStopRefusals = 1
SPECIFICATION Spec
INVARIANTS
    PoolKeepsWorkers
CHECK_DEADLOCK FALSE
