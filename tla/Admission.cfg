SPECIFICATION Spec
CONSTANTS
    None = None
    c1 = c1  c2 = c2  d1 = d1  d2 = d2  f1 = f1  f2 = f2
    Callers = {c1, c2}
    Domains = {d1, d2}
    Evidence <- Rollover
    Interval = 1
    Burst = 1
    RefillEach = 1
    MaxTracked = 1
    MaxTime = 1
INVARIANTS TypeOK TableIsBounded RowsAreBounded
PROPERTY OnlyRepeatsRefused
SYMMETRY Sym
CHECK_DEADLOCK FALSE
