SPECIFICATION Spec
CONSTANTS
    Clients = {c1, c2, c3, c4, c5, c6}
    Callers = {r1, r2, r3}
    Enders = {e1}
    None = None
    PoolMax = 2
    PoolMin = 1
    MaxUses = 2
    ConnectionTimeout = TRUE
    IdleTimeout = TRUE
    MaxLifetime = TRUE
    RollbackOnRelease = TRUE
    ErrorListener = TRUE
    MaxTicks = 2
    MaxLate = 1
SYMMETRY CallerSymmetry
INVARIANT TypeOK
INVARIANT CapacityBound
INVARIANT ExclusiveOwner
INVARIANT RequestAccounted
INVARIANT NoLostWakeup
INVARIANT ClientsFit
PROPERTY ImplementsLease
CHECK_DEADLOCK FALSE
