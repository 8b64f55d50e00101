SPECIFICATION Spec
CONSTANTS
    None = None
    Invalid = Invalid
    m1 = m1  m2 = m2  m2x = m2x  a = a  b = b  d = d  c1 = c1  c2 = c2
    IssuedAt <- MCIssued
    NotAfter <- MCNotAfter
    InstabilityWindow = 1
    Manifests = {m1, m2}
    Fingerprints = {a}
    Delegates = {}
    HistoryLimit = 1
    RefreshBefore = 1
    Callers = {c1, c2}
    Ops = {"send", "worker"}
    Answers <- AnswersSigned
    Succession = {}
    Withdrawn = {}
    Sightings <- NoSightings
    AdminPolicies = {}
    AdminActs = {}
    MaxClockSkew = 0
    FaultKinds = {}
    MaxFaults = 0
    MaxCalls = 2
    MaxTime = 2
PROPERTY NewerManifestKept
CHECK_DEADLOCK FALSE
