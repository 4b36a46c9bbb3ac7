SPECIFICATION FairSpec
CONSTANTS
    Clients = {c1, c2, c3, c4}
    Callers = {r1, r2}
    Enders = {e1, e2}
    None = None
    PoolMax = 1
    PoolMin = 1
    MaxUses = 0
    ConnectionTimeout = FALSE
    IdleTimeout = TRUE
    MaxLifetime = FALSE
    RollbackOnRelease = TRUE
    ErrorListener = TRUE
    MaxTicks = 2
    MaxLate = 1
INVARIANT SlotAccounted
PROPERTY CallsSettle
CHECK_DEADLOCK FALSE
