SPECIFICATION Spec
CONSTANTS
    None = None  Failed = Failed
    r1 = r1  r2 = r2  r3 = r3  d1 = d1  d2 = d2
    Domains = {d1}
    Authorities = {d2}
    Requests = {r1, r2, r3}
    MaxConcurrent = 1
INVARIANTS TypeOK TableIsExact SlotsAreHeld AnswersItsQuestion
PROPERTY EveryRequestReturns
CHECK_DEADLOCK FALSE
