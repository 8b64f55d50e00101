----------------------------- MODULE PeerHealth ------------------------------
(***************************************************************************)
(* What is read off a peer record and off a publisher, and never decides a *)
(* send: the health of a peer (peer/health.go), whether its record may be  *)
(* dropped (peer/state.go Prunable), and the check a domain makes of its   *)
(* own advertisement (identity/selfcheck.go).  Findings are sets: levelOf  *)
(* and Blocked ask only whether a finding is among them.                   *)
(***************************************************************************)
EXTENDS PeerState

Where(condition, finding) == IF condition THEN {finding} ELSE {}

-----------------------------------------------------------------------------
(* Health.                                                                 *)

\* The zero fingerprint and the zero manifest id mean that nobody ever signed.
HasEffectiveProof(id) == id.fp # None \/ id.verified # None

AnchorFindings(id) ==
    CASE id.status = "pinned" -> {}
      [] id.status = "contested" -> {"contested"}
      [] OTHER -> IF HasEffectiveProof(id) THEN {"unpinned"} ELSE {"unsigned"}

DNSFindings(id) ==
    IF id.dnsFP = None THEN {"dns-absent"}
    ELSE Where(id.status = "pinned" /\ id.dnsFP # id.fp, "dns-incoherent")

Unexpired(p, now) == p.effective # None /\ NotAfter[p.effective.manifest] > now

MailFindings(p) ==
    Where("mail-held" \in p.issues, "mail-held")
    \cup Where("downgrade-blocked" \in p.issues, "downgrade-blocked")
    \cup Where("refresh-failed" \in p.issues, "unreachable")

Findings(p, now) ==
    AnchorFindings(p.identity) \cup DNSFindings(p.identity)
    \cup Where(p.unstable, "unstable")
    \cup Where(p.effective # None /\ ~Unexpired(p, now), "stale")
    \cup MailFindings(p)

AffectsDelivery == {"mail-held", "downgrade-blocked"}

LevelOf(findings) ==
    IF findings \cap {"unstable", "stale", "contested", "unreachable"} # {} THEN "broken"
    ELSE IF findings \cap {"unsigned", "unpinned", "dns-incoherent", "dns-absent"} # {}
         THEN "degraded" ELSE "ok"

Assess(p, now) ==
    IF p = None
    THEN [level |-> "unknown", findings |-> {}, deliveryAffected |-> FALSE, encrypting |-> FALSE]
    ELSE LET findings == Findings(p, now)
             affected == findings \cap AffectsDelivery # {}
         IN  [level |-> LevelOf(findings), findings |-> findings,
              deliveryAffected |-> affected,
              encrypting |-> ~affected /\ Unexpired(p, now)]

-----------------------------------------------------------------------------
(* Pruning: no more than ttl ago means later than now - ttl.               *)

Recent(at, now, ttl) == at # 0 /\ at + ttl > now

Prunable(p, now, ttl) ==
    /\ p # None /\ ttl > 0
    /\ p.policy = "auto"
    /\ p.effective = None /\ p.history = <<>>
    /\ \A i \in DOMAIN p.observations :
          /\ p.observations[i].source # "manual"
          /\ ~Recent(p.observations[i].at, now, ttl)
    /\ ~Recent(p.lastVerified, now, ttl)

-----------------------------------------------------------------------------
(* The publisher's own check; None is a value that was not observed.       *)

SelfCheckInput ==
    [configured : Fingerprints \cup {None}, served : Fingerprints \cup {None},
     external : Fingerprints \cup {None}, dns : Fingerprints \cup {None},
     dnssec : BOOLEAN]

SelfCheck(in) ==
    (IF in.served = None THEN {"not-serving"}
     ELSE Where(in.configured \notin {None, in.served}, "served-mismatch"))
    \cup (IF in.external = None THEN {"external-unreachable"}
          ELSE Where(in.served \notin {None, in.external}, "external-mismatch"))
    \cup (IF in.dns = None THEN {"dns-absent"}
          ELSE IF in.served \notin {None, in.dns} THEN {"dns-mismatch"}
          ELSE Where(~in.dnssec, "dnssec-unvalidated"))

Blocking == {"not-serving", "served-mismatch", "external-mismatch", "external-unreachable"}

Blocked(findings) == findings \cap Blocking # {}

=============================================================================
