------------------------------ MODULE PeerState ------------------------------
(***************************************************************************)
(* The pure transition rules of a peer record: what one stored mutation    *)
(* does to the record of one mail domain (peer/state.go, peer/memstore.go) *)
(* and what the identity matrix decides about one fetched manifest         *)
(* (peer/identity.go).  No variables: PeerService drives these operators.  *)
(*                                                                         *)
(* A manifest is its manifest_id, the hash of its canonical bytes, so its  *)
(* issue time and expiry are functions of it.  An identity key is its      *)
(* fingerprint, the hash of the public key.  Time is a natural number and  *)
(* 0 is Go's zero time.                                                    *)
(***************************************************************************)
EXTENDS Naturals, Sequences

CONSTANTS
    Manifests,          \* manifest ids an authority can serve
    IssuedAt,           \* [Manifests -> time], the signed issued_at
    NotAfter,           \* [Manifests -> time], the signed expires_at
    Fingerprints,       \* identity keys
    Delegates,          \* authorities an observation's a= can name
    HistoryLimit,       \* state.go HistoryLimit (8)
    RefreshBefore,      \* state.go RefreshBefore (6h)
    InstabilityWindow,  \* state.go instabilityWindow (1h)
    None,               \* nil, and the absent optional value
    Invalid             \* a proof that was present and wrong

ASSUME ManifestAssumption ==
    /\ IssuedAt \in [Manifests -> Nat \ {0}]
    /\ NotAfter \in [Manifests -> Nat \ {0}]
ASSUME LimitAssumption ==
    /\ HistoryLimit \in Nat
    /\ RefreshBefore \in Nat
    /\ InstabilityWindow \in Nat
ASSUME NoneAssumption ==
    /\ None \notin Manifests \cup Fingerprints \cup Delegates \cup {Invalid}
    /\ Invalid \notin Fingerprints

-----------------------------------------------------------------------------
(* The data.                                                               *)

Sources == {"dns", "header", "manual"}

\* "none" is the empty Policy of a record SetIdentity created.
Policies == {"none", "auto", "require", "disabled"}

States == {"discovered", "active", "expired", "unavailable", "disabled"}

ObservationStatuses ==
    {"pending", "confirmed", "stale", "malformed", "inconsistent"}

\* The issue codes the service raises or clears.
IssueCodes == {"signer-changed", "proof-missing", "pin-withheld", "replay",
               "refresh-failed", "downgrade-blocked", "mail-held", "revoked"}

Observation ==
    [source : Sources, id : Manifests \cup {None}, fp : Fingerprints \cup {None},
     authority : Delegates \cup {None}, at : Nat, status : ObservationStatuses]

\* signer and until are auxiliary: whose valid proof came with the manifest (None
\* for an unsigned one) and the cache bound of the answer it came with.  The code
\* stores neither and no operator below reads them.
ManifestRecord ==
    [manifest : Manifests, fetched : Nat, intact : BOOLEAN,
     signer : Fingerprints \cup {None}, until : Nat]

IdentityState ==
    [status : {"unpinned", "pinned", "contested"},
     fp : Fingerprints \cup {None}, key : Fingerprints \cup {None},
     dnsFP : Fingerprints \cup {None}, dnsAt : Nat,
     issued : Nat, verified : Manifests \cup {None}]

NoIdentity ==
    [status |-> "unpinned", fp |-> None, key |-> None,
     dnsFP |-> None, dnsAt |-> 0, issued |-> 0, verified |-> None]

Peer ==
    [policy : Policies, state : States,
     effective : ManifestRecord \cup {None}, history : Seq(Manifests),
     observations : Seq(Observation), lastVerified : Nat, nextRefresh : Nat,
     lastError : BOOLEAN, unstable : BOOLEAN,
     identity : IdentityState, issues : SUBSET IssueCodes]

\* A nil pointer is no record.
ASSUME RecordAssumption == None \notin Peer \cup ManifestRecord

Proofs == Fingerprints \cup {None, Invalid}

\* What a successful authority fetch returns.  until is the cache bound,
\* never past the manifest's expiry.
Result == [manifest : Manifests, proof : Proofs, fetched : Nat, until : Nat]

Capability == [ever : BOOLEAN, disabled : BOOLEAN]

Requires(cap) == cap.ever /\ ~cap.disabled

-----------------------------------------------------------------------------
(* Reading a record.                                                       *)

New ==
    [policy |-> "auto", state |-> "discovered", effective |-> None,
     history |-> <<>>, observations |-> <<>>, lastVerified |-> 0,
     nextRefresh |-> 0, lastError |-> FALSE, unstable |-> FALSE,
     identity |-> NoIdentity, issues |-> {}]

Upsert(p) == IF p = None THEN New ELSE p

IdentityOf(p) == IF p = None THEN NoIdentity ELSE p.identity

Disabled(p) == p # None /\ p.policy = "disabled"

Pinned(p) == p # None /\ p.identity.status = "pinned"

Usable(p, now) ==
    /\ p # None
    /\ p.effective # None
    /\ p.policy # "disabled"
    /\ NotAfter[p.effective.manifest] > now

\* An observation whose id disagrees with the effective manifest.
Behind(p) ==
    \E i \in DOMAIN p.observations :
        p.observations[i].id \notin {None, p.effective.manifest}

NeedsRefresh(p, now) ==
    \/ p = None
    \/ /\ p.policy # "disabled"
       /\ \/ p.effective = None
          \/ NotAfter[p.effective.manifest] <= now
          \/ p.nextRefresh # 0 /\ p.nextRefresh <= now
          \/ Behind(p)

\* Mutant: the hint is followed before any pin exists.
AuthorityHintUnpinned(p) ==
    IF p = None \/ p.observations = <<>> THEN None
    ELSE p.observations[Len(p.observations)].authority

\* The a= of the newest observation, and only for a pinned domain; the first
\* stored wins a tie.
AuthorityHint(p) ==
    IF ~Pinned(p) THEN None
    ELSE LET obs == p.observations
             newest == {i \in DOMAIN obs : /\ obs[i].at > 0
                                           /\ \A j \in DOMAIN obs : obs[j].at <= obs[i].at}
         IN  IF newest = {} THEN None
             ELSE obs[CHOOSE i \in newest : \A j \in newest : i <= j].authority

-----------------------------------------------------------------------------
(* Changing a record.                                                      *)

Classify(p, o) ==
    IF o.status \in {"malformed", "inconsistent"} THEN o.status
    ELSE IF o.id = None \/ p.effective = None THEN "pending"
    ELSE IF p.effective.manifest = o.id THEN "confirmed" ELSE "stale"

StateOf(p, now) ==
    IF p.policy = "disabled" THEN "disabled"
    ELSE IF p.effective = None THEN IF p.lastError THEN "unavailable" ELSE "discovered"
    ELSE IF NotAfter[p.effective.manifest] > now THEN "active" ELSE "expired"

Reconcile(p, now) ==
    [p EXCEPT !.observations =
                 [i \in DOMAIN @ |->
                    [p.observations[i] EXCEPT !.status = Classify(p, p.observations[i])]],
              !.state = StateOf(p, now)]

RefreshAt(r) ==
    IF r.until >= RefreshBefore + r.fetched
    THEN r.until - RefreshBefore
    ELSE r.fetched + (r.until - r.fetched) \div 2

\* The history after a different manifest replaced the effective one.
Demoted(p) ==
    LET longer == <<p.effective.manifest>> \o p.history
    IN  SubSeq(longer, 1, IF Len(longer) > HistoryLimit THEN HistoryLimit ELSE Len(longer))

RotatedBack(p, m) == \E i \in DOMAIN p.history : p.history[i] = m

Install(p, r, now) ==
    LET replaces == p.effective # None /\ p.effective.manifest # r.manifest
        flips == /\ replaces
                 /\ r.fetched < p.effective.fetched + InstabilityWindow
                 /\ RotatedBack(p, r.manifest)
        signer == IF r.proof \in Fingerprints THEN r.proof ELSE None
    IN  Reconcile([p EXCEPT
            !.effective = [manifest |-> r.manifest, fetched |-> r.fetched,
                           intact |-> TRUE, signer |-> signer, until |-> r.until],
            !.history = IF replaces THEN Demoted(p) ELSE @,
            !.unstable = @ \/ flips,
            !.lastVerified = r.fetched,
            !.lastError = FALSE,
            !.nextRefresh = RefreshAt(r)], now)

\* DNS corroboration moves forward in time only, and absence erases nothing.
ObserveDNSFingerprint(st, o) ==
    IF o.source = "dns" /\ o.fp # None /\ o.at >= st.dnsAt
    THEN [st EXCEPT !.dnsFP = o.fp, !.dnsAt = o.at]
    ELSE st

Observe(p, o) ==
    LET seen == [o EXCEPT !.status = Classify(p, o)]
        held == \E i \in DOMAIN p.observations : p.observations[i].source = o.source
    IN  [p EXCEPT
            !.identity = ObserveDNSFingerprint(@, o),
            !.observations =
                IF held
                THEN [i \in DOMAIN @ |-> IF @[i].source = o.source THEN seen ELSE @[i]]
                ELSE Append(@, seen)]

Fail(p, now) == Reconcile([p EXCEPT !.lastError = TRUE], now)

Forget(p) ==
    [p EXCEPT !.effective = None, !.history = <<>>, !.observations = <<>>,
              !.lastVerified = 0, !.nextRefresh = 0, !.lastError = FALSE,
              !.unstable = FALSE,
              !.state = IF p.policy = "disabled" THEN "disabled" ELSE "discovered"]

-----------------------------------------------------------------------------
(* The store's mutations, each one critical section.                       *)

PutObservation(p, o) == Observe(Upsert(p), o)

RecordFailure(p, now) == Fail(Upsert(p), now)

RecordIssue(p, code) == [Upsert(p) EXCEPT !.issues = @ \cup {code}]

ClearIssues(p, codes) == [Upsert(p) EXCEPT !.issues = @ \ codes]

SetPolicy(p, policy, now) ==
    LET q == Upsert(p)
    IN  Reconcile([q EXCEPT !.policy = policy], now)

\* A record born here has no policy, not the automatic one.
SetIdentity(p, st) ==
    [(IF p = None THEN [New EXCEPT !.policy = "none"] ELSE p) EXCEPT !.identity = st]

\* Mutant: the whole record goes, whatever was decided about it.
ForgetPeerWhole(p) == None

\* Only the automatic policy lets the whole record go.
ForgetPeer(p) ==
    IF p = None \/ p.policy = "auto" THEN None ELSE Forget(p)

-----------------------------------------------------------------------------
(* The identity matrix and the replay rules.                               *)

ReplayReasons == {"replay/expired", "replay/rollback", "replay/same-issued-different-id"}

Reasons == ReplayReasons \cup
    {"pinned/valid-proof-from-pin", "pinned/dns-disagrees", "pinned/valid-proof-other-signer",
     "pinned/proof-absent-or-invalid", "unpinned/pin-established", "unpinned/dns-disagrees",
     "unpinned/no-proof", "unpinned/invalid-proof", "unpinned/dns-fp-but-no-proof"}

Verdict ==
    [encrypt : BOOLEAN, accept : BOOLEAN, pin : Fingerprints \cup {None},
     status : {"unpinned", "pinned", "contested"}, reason : Reasons]

\* The absent reason is not a reason.
ASSUME ReasonAssumption == None \notin ReplayReasons

\* The ordering rule a response breaks, or None.
CheckReplay(st, r) ==
    IF r.until <= r.fetched THEN "replay/expired"
    ELSE IF st.issued = 0 THEN None
    ELSE IF IssuedAt[r.manifest] < st.issued THEN "replay/rollback"
    ELSE IF IssuedAt[r.manifest] = st.issued /\ r.manifest # st.verified
         THEN "replay/same-issued-different-id"
    ELSE None

\* Mutant: the order of issue times is not asked.
AfterIdentityAuthorizationUnordered(st, r, cachedUsable, accepted) == accepted

AfterIdentityAuthorization(st, r, cachedUsable, accepted) ==
    LET replay == CheckReplay(st, r)
    IN  IF replay = None THEN accepted
        ELSE [encrypt |-> cachedUsable, accept |-> FALSE,
              pin |-> IF st.status = "pinned" /\ replay # "replay/expired"
                      THEN st.fp ELSE None,
              status |-> st.status, reason |-> replay]

DecideIdentity(st, r, cachedUsable) ==
    LET accept(pin, status, reason) ==
            AfterIdentityAuthorization(st, r, cachedUsable,
                [encrypt |-> TRUE, accept |-> TRUE, pin |-> pin,
                 status |-> status, reason |-> reason])
        refuse(reason) ==
            [encrypt |-> cachedUsable, accept |-> FALSE, pin |-> st.fp,
             status |-> "pinned", reason |-> reason]
        signed == r.proof \in Fingerprints
        dnsDisagrees(fp) == st.dnsFP \notin {None, fp}
    IN  CASE st.status = "pinned" /\ signed /\ r.proof = st.fp ->
                accept(st.fp, "pinned", IF dnsDisagrees(st.fp) THEN "pinned/dns-disagrees"
                                        ELSE "pinned/valid-proof-from-pin")
          [] st.status = "pinned" /\ signed /\ r.proof # st.fp ->
                refuse("pinned/valid-proof-other-signer")
          [] st.status = "pinned" /\ ~signed ->
                refuse("pinned/proof-absent-or-invalid")
          [] st.status # "pinned" /\ r.proof = Invalid ->
                accept(None, st.status, "unpinned/invalid-proof")
          [] st.status # "pinned" /\ r.proof = None ->
                accept(None, st.status, IF st.dnsFP # None THEN "unpinned/dns-fp-but-no-proof"
                                        ELSE "unpinned/no-proof")
          [] st.status # "pinned" /\ signed /\ dnsDisagrees(r.proof) ->
                accept(None, "contested", "unpinned/dns-disagrees")
          [] st.status # "pinned" /\ signed /\ ~dnsDisagrees(r.proof) ->
                accept(r.proof, "pinned", "unpinned/pin-established")

\* Mutants: every response moves the watermark; every signer moves the pin.
ApplyIdentityUnguarded(st, v, r) ==
    [st EXCEPT !.status = v.status, !.fp = v.pin, !.key = v.pin,
               !.issued = IssuedAt[r.manifest], !.verified = r.manifest]
ApplyIdentityFollowing(st, v, r) ==
    [st EXCEPT !.status = v.status,
               !.fp = IF r.proof \in Fingerprints THEN r.proof ELSE @]

\* The pin is established once, and the watermark advances only on acceptance.
ApplyIdentity(st, v, r) ==
    LET pins == v.pin # None /\ st.status # "pinned"
        advances == v.accept /\ IssuedAt[r.manifest] > st.issued
    IN  [st EXCEPT
            !.status = IF pins THEN "pinned"
                       ELSE IF v.status = "contested" /\ @ # "pinned" THEN "contested" ELSE @,
            !.fp = IF pins THEN v.pin ELSE @,
            !.key = IF pins /\ r.proof = v.pin THEN r.proof ELSE @,
            !.issued = IF advances THEN IssuedAt[r.manifest] ELSE @,
            !.verified = IF advances THEN r.manifest ELSE @]

\* A verified rotation: the pin and its key move, the watermark starts over.
MovePin(st, fp, r) ==
    [st EXCEPT !.status = "pinned", !.fp = fp, !.key = fp,
               !.issued = IssuedAt[r.manifest], !.verified = r.manifest]

IssueOf(reason) ==
    IF reason \in ReplayReasons THEN "replay"
    ELSE IF reason = "pinned/valid-proof-other-signer" THEN "signer-changed"
    ELSE IF reason = "pinned/proof-absent-or-invalid" THEN "proof-missing"
    ELSE "pin-withheld"

\* What a sender may proceed past: a signed response, and never a replay.
Overridable(reason, r) == r.proof \in Fingerprints /\ reason \notin ReplayReasons

=============================================================================
