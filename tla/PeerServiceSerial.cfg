SPECIFICATION Spec
CONSTANTS
    None = None
    Invalid = Invalid
    m1 = m1  m2 = m2  m2x = m2x  a = a  b = b  d = d  c1 = c1  c2 = c2
    IssuedAt <- MCIssued
    NotAfter <- MCShortLived
    InstabilityWindow = 1
    Manifests = {m1, m2, m2x}
    Fingerprints = {a, b}
    Delegates = {d}
    HistoryLimit = 1
    RefreshBefore = 1
    Callers = {c1}
    Ops = {"send-accepting", "refresh"}
    Answers <- AnswersAll
    Succession <- AtoB
    Withdrawn = {a}
    Sightings <- DnsBVia
    AdminPolicies = {"require"}
    AdminActs = {"forget"}
    MaxClockSkew = 1
    FaultKinds = {}
    MaxFaults = 0
    MaxCalls = 2
    MaxTime = 2
INVARIANTS RequireNeverPlaintext FirstContactIsDirect PinnedCacheIsSigned
PROPERTIES WatermarkKept NewerManifestKept ImplementsTrustAnchor
CHECK_DEADLOCK FALSE
