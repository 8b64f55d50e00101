SPECIFICATION DSpec
CONSTANTS
    None = None
    Malformed = Malformed
    o1 = o1  o2 = o2  w1 = w1  w2 = w2  x1 = x1  x2 = x2  d1 = d1  d2 = d2
    m1 = m1  m2 = m2  f1 = f1  f2 = f2  a = a
    Domains = {d1, d2}
    Observers = {o1, o2}
    Workers = {w1}
    Closers = {x1, x2}
    QueueSize = 1
    Manifests = {m1, m2}
    Fingerprints = {f1, f2}
    Delegates = {a}
    Hears <- MCHears
    Served <- MCServed
INVARIANTS DTypeOK MarksMatchWork QuietAfterClose BehindIsPursued NoRecordWins
PROPERTIES EveryTriggerAnswered CloseReturns
