SPECIFICATION Spec
CONSTANTS
    None = None
    Invalid = Invalid
    m1 = m1  m2 = m2  m2x = m2x  a = a  b = b  d = d  c1 = c1  c2 = c2
    Manifests = {m1, m2}
    IssuedAt <- MCIssued
    NotAfter <- MCNotAfter
    Fingerprints = {a, b}
    Delegates = {}
    HistoryLimit = 1
    RefreshBefore = 1
    InstabilityWindow = 1
    Callers = {c1}
    Ops = {"send"}
    Answers <- AnswersFew
    Succession <- AtoB
    Withdrawn = {}
    Sightings <- NoSightings
    AdminPolicies = {"require", "disabled"}
    AdminActs = {"downgrade", "forget"}
    MaxClockSkew = 0
    FaultKinds = {"read", "write", "latch", "corrupt"}
    MaxFaults = 1
    MaxCalls = 2
    MaxTime = 3
INVARIANTS TypeOK LatchedNeverPlaintext PinImpliesLatch
CHECK_DEADLOCK FALSE
