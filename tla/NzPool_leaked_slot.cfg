SPECIFICATION Spec
CONSTANTS
    Clients = {c1, c2, c3, c4}
    Callers = {r1, r2}
    Enders = {e1}
    None = None
    PoolMax = 1
    PoolMin = 0
    MaxUses = 0
    ConnectionTimeout = TRUE
    IdleTimeout = FALSE
    MaxLifetime = FALSE
    RollbackOnRelease = TRUE
    ErrorListener = TRUE
    MaxTicks = 2
    MaxLate = 1
INVARIANT SlotAccounted
CHECK_DEADLOCK FALSE
