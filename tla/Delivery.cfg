SPECIFICATION DSpec
CONSTANTS
    None = None
    Invalid = Invalid
    ka = ka  kb = kb  kc = kc  us = us  them = them
    Keys = {ka, kb, kc}
    Statements <- Signed
    MaxChainEntries = 3
    MaxTime = 3
    Clients = {us, them}
    Us = us
    Lineage <- Honest
    MaxAge = 2
    RefreshBefore = 1
    Lifetime <- Lives
    MaxManifests = 2
INVARIANTS DTypeOK MovesAreAuthorized RevocationStands SameUnlessForked
           ProofFitsBody ReplacedFallsDue FreshIsValid AbsentIsTrue AnnouncedIsFollowed
CHECK_DEADLOCK FALSE
