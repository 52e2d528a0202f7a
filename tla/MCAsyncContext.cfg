\* Two workers, two request objects, three transfers: some may be started by
\* callbacks, one refused.  Pools are replaced on the same context, joins are
\* interrupted by a refused stop notification and repeated.
CONSTANTS
    Client = client
    Workers = {w1, w2}
    None = none
    Requests = {r1, r2}
    Stop = stop
    MaxStarts = 3
    MaxPools = 2
    MaxRefusals = 1
    MaxStopRefusals = 1
SPECIFICATION Spec
INVARIANTS
    ContextInv
PROPERTIES
    JoinReturns
    PoolServes
\* The context ends destroyed.
CHECK_DEADLOCK FALSE
