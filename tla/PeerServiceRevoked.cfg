SPECIFICATION Spec
CONSTANTS
    None = None
    Invalid = Invalid
    m1 = m1  m2 = m2  m2x = m2x  a = a  b = b  d = d  c1 = c1  c2 = c2
    IssuedAt <- MCIssued
    NotAfter <- MCNotAfter
    InstabilityWindow = 1
    Manifests = {m1}
    Fingerprints = {a, b}
    Delegates = {}
    HistoryLimit = 1
    RefreshBefore = 1
    Callers = {c1}
    Ops = {"send"}
    Answers <- AnswersTwoSigners
    Succession = {}
    Withdrawn = {a}
    Sightings <- NoSightings
    AdminPolicies = {}
    AdminActs = {}
    MaxClockSkew = 0
    FaultKinds = {}
    MaxFaults = 0
    MaxCalls = 2
    MaxTime = 2
PROPERTY RevokedHolds
CHECK_DEADLOCK FALSE
