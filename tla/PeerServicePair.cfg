SPECIFICATION EstablishedSpec
CONSTANTS
    None = None
    Invalid = Invalid
    m1 = m1  m2 = m2  m2x = m2x  a = a  b = b  d = d  c1 = c1  c2 = c2
    IssuedAt <- MCIssued
    NotAfter <- MCNotAfter
    InstabilityWindow = 1
    Manifests = {m1}
    Fingerprints = {a, b}
    Delegates = {}
    HistoryLimit = 1
    RefreshBefore = 1
    Callers = {c1, c2}
    Ops = {"send", "add"}
    Answers <- AnswersEach
    Succession = {}
    Withdrawn = {}
    Sightings <- NoSightings
    AdminPolicies = {}
    AdminActs = {}
    MaxClockSkew = 0
    FaultKinds = {"write", "latch"}
    MaxFaults = 1
    MaxCalls = 2
    MaxTime = 2
INVARIANTS PinnedCacheIsSigned
PROPERTIES PinKept
SYMMETRY Sym
CHECK_DEADLOCK FALSE
