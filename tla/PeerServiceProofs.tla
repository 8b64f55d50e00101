-------------------------- MODULE PeerServiceProofs --------------------------
(***************************************************************************)
(* Theorems about PeerService for every set of callers, manifests and keys, *)
(* every authority, every administrator and any number of store failures.  *)
(*                                                                         *)
(* The invariant Inv says of every call in progress what its locals hold   *)
(* (Good), and of the shared state that a pin stands behind the latch and  *)
(* that whoever is owed encryption still has the latch, or the require     *)
(* policy, to count on.  The policy is read from the record at the start   *)
(* of a send, so what it promises holds where reads do not fail.           *)
(*                                                                         *)
(* The lemmas on the rules of PeerState come first, and what the views of  *)
(* PeerHealth say, held against those rules, comes last.                   *)
(***************************************************************************)
EXTENDS PeerService, PeerHealth, SequenceTheorems, WellFoundedInduction, TLAPS

-----------------------------------------------------------------------------
(* The rules: every stored mutation and every verdict is of its type, and  *)
(* what each leaves alone.                                                 *)

\* The manifest in effect, of a record that may not exist.
EffectiveOf(p) == IF p = None THEN None ELSE p.effective

\* A record made for a domain never seen is a record (state.go New).
LEMMA NewType == New \in Peer
  BY EmptySeq, NoneAssumption, SMTT(30)
     DEF New, NoIdentity, Peer, Policies, States, IdentityState, ManifestRecord

\* Reconcile recomputes statuses and the state, and nothing else (state.go).
LEMMA ReconcileType ==
  ASSUME NEW p \in Peer, NEW t
  PROVE  /\ Reconcile(p, t) \in Peer
         /\ Reconcile(p, t).identity = p.identity
         /\ Reconcile(p, t).policy = p.policy
         /\ Reconcile(p, t).effective = p.effective
  <1> DEFINE obs == p.observations
             seen == [i \in DOMAIN obs |-> [obs[i] EXCEPT !.status = Classify(p, obs[i])]]
  <1>1. obs \in Seq(Observation)
    BY DEF Peer
  <1>2. DOMAIN obs = 1..Len(obs) /\ Len(obs) \in Nat
    BY <1>1, LenProperties
  <1>3. ASSUME NEW o \in Observation
        PROVE  [o EXCEPT !.status = Classify(p, o)] \in Observation
    BY DEF Observation, ObservationStatuses, Classify
  <1>4. \A i \in 1..Len(obs) : obs[i] \in Observation
    BY <1>1, ElementOfSeq
  <1>5. seen \in [1..Len(obs) -> Observation]
    BY <1>2, <1>3, <1>4
  <1>6. seen \in Seq(Observation)
    BY <1>2, <1>5, SeqDef
  <1>7. StateOf(p, t) \in States
    BY DEF StateOf, States
  <1>8. Reconcile(p, t) = [p EXCEPT !.observations = seen, !.state = StateOf(p, t)]
    BY DEF Reconcile
  <1> HIDE DEF seen
  <1> QED
    BY <1>6, <1>7, <1>8 DEF Peer

\* The history that Install leaves is a bounded sequence of manifests.
LEMMA DemotedType ==
  ASSUME NEW p \in Peer, p.effective \in ManifestRecord
  PROVE  /\ Demoted(p) \in Seq(Manifests)
         /\ Len(Demoted(p)) <= HistoryLimit
  <1> DEFINE longer == <<p.effective.manifest>> \o p.history
             n == IF Len(longer) > HistoryLimit THEN HistoryLimit ELSE Len(longer)
  <1>1. p.effective.manifest \in Manifests /\ p.history \in Seq(Manifests)
    BY DEF Peer, ManifestRecord
  <1>2. <<p.effective.manifest>> \in Seq(Manifests)
    BY <1>1
  <1>3. longer \in Seq(Manifests)
    BY <1>1, <1>2, ConcatProperties
  <1>4. Len(longer) \in Nat
    BY <1>3, LenProperties
  <1>5. n \in Nat /\ n <= Len(longer) /\ n <= HistoryLimit
    BY <1>4, LimitAssumption
  <1>6. \A i \in 1..n : longer[i] \in Manifests
    BY <1>3, <1>4, <1>5, ElementOfSeq
  <1>7. Demoted(p) = SubSeq(longer, 1, n)
    BY DEF Demoted
  <1> HIDE DEF longer, n
  <1>8. /\ SubSeq(longer, 1, n) \in Seq(Manifests)
        /\ Len(SubSeq(longer, 1, n)) = IF 1 <= n THEN n - 1 + 1 ELSE 0
    BY <1>5, <1>6, SubSeqProperties
  <1> QED
    BY <1>5, <1>7, <1>8, LimitAssumption

\* The next refresh is a time, and never after the cache bound.
LEMMA RefreshAtType ==
  ASSUME NEW r \in Result, r.fetched <= r.until
  PROVE  RefreshAt(r) \in Nat /\ RefreshAt(r) <= r.until
  <1>1. r.until \in Nat /\ r.fetched \in Nat
    BY DEF Result
  <1>2. (r.until - r.fetched) \div 2 \in Nat /\ (r.until - r.fetched) \div 2 <= r.until - r.fetched
    BY <1>1
  <1> QED
    BY <1>1, <1>2, LimitAssumption DEF RefreshAt

\* An accepted manifest becomes the effective one; trust and policy stay.
LEMMA InstallType ==
  ASSUME NEW p \in Peer, NEW r \in Result, r.fetched <= r.until, NEW t
  PROVE  /\ Install(p, r, t) \in Peer
         /\ Install(p, r, t).identity = p.identity
         /\ Install(p, r, t).policy = p.policy
         /\ Install(p, r, t).effective \in ManifestRecord
         /\ Install(p, r, t).effective.manifest = r.manifest
         /\ Install(p, r, t).effective.signer =
               IF r.proof \in Fingerprints THEN r.proof ELSE None
  <1> DEFINE replaces == p.effective # None /\ p.effective.manifest # r.manifest
             flips == /\ replaces
                      /\ r.fetched < p.effective.fetched + InstabilityWindow
                      /\ RotatedBack(p, r.manifest)
             signer == IF r.proof \in Fingerprints THEN r.proof ELSE None
             history == IF replaces THEN Demoted(p) ELSE p.history
             q == [p EXCEPT
                      !.effective = [manifest |-> r.manifest, fetched |-> r.fetched,
                                     intact |-> TRUE, signer |-> signer,
                                     until |-> r.until],
                      !.history = history,
                      !.unstable = p.unstable \/ flips,
                      !.lastVerified = r.fetched,
                      !.lastError = FALSE,
                      !.nextRefresh = RefreshAt(r)]
  <1>1. history \in Seq(Manifests)
    BY DemotedType DEF Peer
  <1>2. RefreshAt(r) \in Nat
    BY RefreshAtType
  <1>3. Install(p, r, t) = Reconcile(q, t)
    BY DEF Install
  <1>4. signer \in Fingerprints \cup {None}
    OBVIOUS
  <1>5. (p.unstable \/ flips) \in BOOLEAN
    BY Zenon
  <1>6. q \in Peer
    <2> HIDE DEF history, flips, signer
    <2> QED
      BY <1>1, <1>2, <1>4, <1>5 DEF Peer, Result, ManifestRecord
  <1>7. /\ q.identity = p.identity /\ q.policy = p.policy
        /\ q.effective = [manifest |-> r.manifest, fetched |-> r.fetched,
                          intact |-> TRUE, signer |-> signer, until |-> r.until]
    BY DEF Peer
  <1>8. q.effective \in ManifestRecord /\ q.effective.manifest = r.manifest
        /\ q.effective.signer = signer
    <2> HIDE DEF q, signer
    <2> QED
      BY <1>4, <1>7 DEF Result, ManifestRecord
  <1> HIDE DEF q
  <1> QED
    BY <1>3, <1>6, <1>7, <1>8, ReconcileType

\* A record read as the code reads it: made if it was not there.
LEMMA UpsertType ==
  ASSUME NEW p \in Peer \cup {None}
  PROVE  /\ Upsert(p) \in Peer
         /\ Upsert(p).identity = IdentityOf(p)
         /\ Upsert(p).policy = IF p = None THEN "auto" ELSE p.policy
         /\ Upsert(p).effective = EffectiveOf(p)
  BY NewType DEF Upsert, IdentityOf, EffectiveOf, New

LEMMA IdentityOfType ==
  ASSUME NEW p \in Peer \cup {None}
  PROVE  IdentityOf(p) \in IdentityState
  BY NewType DEF IdentityOf, New, Peer

\* Only a fingerprint sighting touches the identity, and only its DNS view.
LEMMA ObserveDNSType ==
  ASSUME NEW st \in IdentityState, NEW o \in Observation
  PROVE  /\ ObserveDNSFingerprint(st, o) \in IdentityState
         /\ ObserveDNSFingerprint(st, o).status = st.status
         /\ ObserveDNSFingerprint(st, o).fp = st.fp
         /\ ObserveDNSFingerprint(st, o).issued = st.issued
         /\ ObserveDNSFingerprint(st, o).dnsAt >= st.dnsAt
  <1> DEFINE moved == [st EXCEPT !.dnsFP = o.fp, !.dnsAt = o.at]
  <1>1. o.fp \in Fingerprints \cup {None} /\ o.at \in Nat /\ st.dnsAt \in Nat
    BY DEF IdentityState, Observation
  <1>2. /\ moved \in IdentityState
        /\ moved.status = st.status /\ moved.fp = st.fp /\ moved.issued = st.issued
        /\ moved.dnsAt = o.at
    BY <1>1 DEF IdentityState
  <1> HIDE DEF moved
  <1>3. CASE o.source = "dns" /\ o.fp # None /\ o.at >= st.dnsAt
    <2>1. ObserveDNSFingerprint(st, o) = moved
      BY <1>3 DEF ObserveDNSFingerprint, moved
    <2> QED
      BY <1>1, <1>2, <1>3, <2>1
  <1>4. CASE ~(o.source = "dns" /\ o.fp # None /\ o.at >= st.dnsAt)
    BY <1>1, <1>4 DEF ObserveDNSFingerprint
  <1> QED
    BY <1>3, <1>4

\* An observation is kept beside the others and never moves the pin.
LEMMA PutObservationType ==
  ASSUME NEW p \in Peer \cup {None}, NEW o \in Observation
  PROVE  /\ PutObservation(p, o) \in Peer
         /\ PutObservation(p, o).identity.status = IdentityOf(p).status
         /\ PutObservation(p, o).identity.fp = IdentityOf(p).fp
         /\ PutObservation(p, o).identity.issued = IdentityOf(p).issued
         /\ PutObservation(p, o).policy = IF p = None THEN "auto" ELSE p.policy
         /\ PutObservation(p, o).effective = EffectiveOf(p)
  <1> DEFINE q == Upsert(p)
             obs == q.observations
             seen == [o EXCEPT !.status = Classify(q, o)]
             kept == [i \in DOMAIN obs |-> IF obs[i].source = o.source THEN seen ELSE obs[i]]
             held == \E i \in DOMAIN obs : obs[i].source = o.source
             all == IF held THEN kept ELSE Append(obs, seen)
             id == ObserveDNSFingerprint(q.identity, o)
  <1>1. q \in Peer /\ obs \in Seq(Observation) /\ q.identity \in IdentityState
    BY UpsertType DEF Peer
  <1>2. DOMAIN obs = 1..Len(obs) /\ Len(obs) \in Nat
    BY <1>1, LenProperties
  <1>3. seen \in Observation
    BY DEF Observation, ObservationStatuses, Classify
  <1>4. \A i \in 1..Len(obs) : obs[i] \in Observation
    BY <1>1, ElementOfSeq
  <1>5. kept \in [1..Len(obs) -> Observation]
    BY <1>2, <1>3, <1>4
  <1>6. kept \in Seq(Observation)
    BY <1>2, <1>5, SeqDef
  <1>7. Append(obs, seen) \in Seq(Observation)
    BY <1>1, <1>3
  <1>8. all \in Seq(Observation)
    BY <1>6, <1>7
  <1>9. PutObservation(p, o) = [q EXCEPT !.identity = id, !.observations = all]
    BY DEF PutObservation, Observe
  <1>10. /\ id \in IdentityState /\ id.status = q.identity.status
         /\ id.fp = q.identity.fp /\ id.issued = q.identity.issued
    BY <1>1, ObserveDNSType
  <1>11. /\ q.identity = IdentityOf(p)
         /\ q.policy = IF p = None THEN "auto" ELSE p.policy
         /\ q.effective = EffectiveOf(p)
    BY UpsertType
  <1> HIDE DEF q, all, id
  <1> QED
    BY <1>1, <1>8, <1>9, <1>10, <1>11 DEF Peer

\* Failures and issues leave trust and policy alone.
LEMMA RecordFailureType ==
  ASSUME NEW p \in Peer \cup {None}, NEW t
  PROVE  /\ RecordFailure(p, t) \in Peer
         /\ RecordFailure(p, t).identity = IdentityOf(p)
         /\ RecordFailure(p, t).policy = IF p = None THEN "auto" ELSE p.policy
         /\ RecordFailure(p, t).effective = EffectiveOf(p)
  <1> DEFINE q == [Upsert(p) EXCEPT !.lastError = TRUE]
  <1>1. /\ q \in Peer
        /\ q.identity = IdentityOf(p)
        /\ q.policy = IF p = None THEN "auto" ELSE p.policy
        /\ q.effective = EffectiveOf(p)
    <2>1. PICK u \in Peer : /\ u = Upsert(p) /\ u.identity = IdentityOf(p)
                            /\ u.policy = IF p = None THEN "auto" ELSE p.policy
                            /\ u.effective = EffectiveOf(p)
      BY UpsertType
    <2>2. [u EXCEPT !.lastError = TRUE] \in Peer
      BY DEF Peer
    <2>3. /\ [u EXCEPT !.lastError = TRUE].identity = u.identity
          /\ [u EXCEPT !.lastError = TRUE].policy = u.policy
          /\ [u EXCEPT !.lastError = TRUE].effective = u.effective
      BY DEF Peer
    <2> QED
      BY <2>1, <2>2, <2>3
  <1>2. RecordFailure(p, t) = Reconcile(q, t)
    BY DEF RecordFailure, Fail
  <1> HIDE DEF q
  <1> QED
    BY <1>1, <1>2, ReconcileType

LEMMA IssueType ==
  ASSUME NEW p \in Peer \cup {None}, NEW code \in IssueCodes, NEW codes
  PROVE  /\ RecordIssue(p, code) \in Peer
         /\ RecordIssue(p, code).identity = IdentityOf(p)
         /\ RecordIssue(p, code).policy = IF p = None THEN "auto" ELSE p.policy
         /\ RecordIssue(p, code).effective = EffectiveOf(p)
         /\ ClearIssues(p, codes) \in Peer
         /\ ClearIssues(p, codes).identity = IdentityOf(p)
         /\ ClearIssues(p, codes).policy = IF p = None THEN "auto" ELSE p.policy
         /\ ClearIssues(p, codes).effective = EffectiveOf(p)
  <1> DEFINE q == Upsert(p)
  <1>1. /\ q \in Peer
        /\ q.identity = IdentityOf(p)
        /\ q.policy = IF p = None THEN "auto" ELSE p.policy
        /\ q.effective = EffectiveOf(p)
    BY UpsertType
  <1>2. q.issues \cup {code} \in SUBSET IssueCodes /\ q.issues \ codes \in SUBSET IssueCodes
    BY <1>1 DEF Peer
  <1>3. /\ RecordIssue(p, code) = [q EXCEPT !.issues = q.issues \cup {code}]
        /\ ClearIssues(p, codes) = [q EXCEPT !.issues = q.issues \ codes]
    BY DEF RecordIssue, ClearIssues
  <1> HIDE DEF q
  <1> QED
    BY <1>1, <1>2, <1>3 DEF Peer

\* An administrator's policy leaves trust alone.
LEMMA SetPolicyType ==
  ASSUME NEW p \in Peer \cup {None}, NEW policy \in Policies, NEW t
  PROVE  /\ SetPolicy(p, policy, t) \in Peer
         /\ SetPolicy(p, policy, t).identity = IdentityOf(p)
         /\ SetPolicy(p, policy, t).policy = policy
         /\ SetPolicy(p, policy, t).effective = EffectiveOf(p)
  <1> DEFINE q == [Upsert(p) EXCEPT !.policy = policy]
  <1>1. /\ q \in Peer /\ q.identity = IdentityOf(p) /\ q.policy = policy
        /\ q.effective = EffectiveOf(p)
    BY UpsertType DEF Peer
  <1>2. SetPolicy(p, policy, t) = Reconcile(q, t)
    BY DEF SetPolicy
  <1> HIDE DEF q
  <1> QED
    BY <1>1, <1>2, ReconcileType

\* Writing the identity changes the identity only.
LEMMA SetIdentityType ==
  ASSUME NEW p \in Peer \cup {None}, NEW st \in IdentityState
  PROVE  /\ SetIdentity(p, st) \in Peer
         /\ SetIdentity(p, st).identity = st
         /\ SetIdentity(p, st).policy = IF p = None THEN "none" ELSE p.policy
         /\ SetIdentity(p, st).effective = EffectiveOf(p)
  <1>1. /\ [New EXCEPT !.policy = "none"] \in Peer
        /\ [New EXCEPT !.policy = "none"].policy = "none"
        /\ [New EXCEPT !.policy = "none"].effective = None
    BY NewType DEF Peer, Policies, New
  <1> DEFINE q == IF p = None THEN [New EXCEPT !.policy = "none"] ELSE p
  <1>2. /\ q \in Peer /\ q.policy = IF p = None THEN "none" ELSE p.policy
        /\ q.effective = EffectiveOf(p)
    BY <1>1 DEF EffectiveOf
  <1>3. SetIdentity(p, st) = [q EXCEPT !.identity = st]
    BY DEF SetIdentity
  <1> HIDE DEF q
  <1> QED
    BY <1>2, <1>3 DEF Peer

\* Forgetting keeps a record only where an operator decided something.
LEMMA ForgetPeerType ==
  ASSUME NEW p \in Peer \cup {None}
  PROVE  /\ ForgetPeer(p) \in Peer \cup {None}
         /\ ForgetPeer(p) # None =>
              /\ ForgetPeer(p).identity = IdentityOf(p)
              /\ p # None /\ ForgetPeer(p).policy = p.policy
              /\ ForgetPeer(p).effective = None
  <1>1. CASE p = None \/ p.policy = "auto"
    BY <1>1 DEF ForgetPeer
  <1>2. CASE ~(p = None \/ p.policy = "auto")
    <2>1. /\ Forget(p) \in Peer /\ Forget(p).identity = p.identity
          /\ Forget(p).policy = p.policy /\ Forget(p).effective = None
      BY <1>2, EmptySeq DEF Forget, Peer, States
    <2> QED
      BY <1>2, <2>1 DEF ForgetPeer, IdentityOf
  <1> QED
    BY <1>1, <1>2

\* An operator's decision survives being forgotten.
LEMMA ForgetPeerKeeps ==
  ASSUME NEW p \in Peer, p.policy # "auto"
  PROVE  ForgetPeer(p) # None /\ ForgetPeer(p).policy = p.policy
  <1>1. Forget(p) \in Peer /\ Forget(p).policy = p.policy
    BY EmptySeq DEF Forget, Peer, States
  <1> QED
    BY <1>1, RecordAssumption DEF ForgetPeer

\* What the ordering rules make of an accepting verdict: they may refuse it,
\* with a reason of their own, and never turn a refusal into an acceptance.
LEMMA AuthorizationType ==
  ASSUME NEW st \in IdentityState, NEW r, NEW usable \in BOOLEAN, NEW v \in Verdict,
         NEW w, w = AfterIdentityAuthorization(st, r, usable, v)
  PROVE  w \in Verdict /\ (w = v \/ (~w.accept /\ w.reason \in ReplayReasons))
  <1> DEFINE replay == CheckReplay(st, r)
             refused == [encrypt |-> usable, accept |-> FALSE,
                         pin |-> IF st.status = "pinned" /\ replay # "replay/expired"
                                 THEN st.fp ELSE None,
                         status |-> st.status, reason |-> replay]
  <1>1. replay = None \/ replay \in ReplayReasons
    BY DEF CheckReplay, ReplayReasons
  <1>2. ReplayReasons \subseteq Reasons
    BY DEF Reasons
  <1>3. CASE replay = None
    BY <1>3, Zenon DEF AfterIdentityAuthorization
  <1>4. CASE replay # None
    <2>1. w = refused
      BY <1>4 DEF AfterIdentityAuthorization
    <2>2. (IF st.status = "pinned" /\ replay # "replay/expired" THEN st.fp ELSE None)
             \in Fingerprints \cup {None}
      BY DEF IdentityState
    <2>3. st.status \in {"unpinned", "pinned", "contested"}
      BY DEF IdentityState
    <2>4. replay \in Reasons /\ replay \in ReplayReasons
      BY <1>1, <1>2, <1>4
    <2> HIDE DEF replay
    <2>5. refused \in Verdict /\ ~refused.accept /\ refused.reason = replay
      BY <2>2, <2>3, <2>4 DEF Verdict
    <2> QED
      BY <2>1, <2>4, <2>5
  <1> QED
    BY <1>3, <1>4

\* The ordering rules accept nothing older than what was verified, and a
\* refusal of theirs names only a pin there was.
LEMMA AuthorizationKeeps ==
  ASSUME NEW st \in IdentityState, NEW r \in Result, NEW usable, NEW v,
         NEW w, w = AfterIdentityAuthorization(st, r, usable, v)
  PROVE  /\ w.accept => IssuedAt[r.manifest] >= st.issued
         /\ w = v \/ (~w.accept /\ (w.pin # None => st.status = "pinned"))
  <1> DEFINE replay == CheckReplay(st, r)
  <1>1. IssuedAt[r.manifest] \in Nat /\ st.issued \in Nat
    BY ManifestAssumption DEF Result, IdentityState
  <1>2. replay = None => IssuedAt[r.manifest] >= st.issued
    BY <1>1, ReasonAssumption DEF CheckReplay, ReplayReasons
  <1>3. CASE replay = None
    <2>1. w = v
      BY <1>3 DEF AfterIdentityAuthorization
    <2> QED
      BY <1>2, <1>3, <2>1
  <1>4. CASE replay # None
    <2> DEFINE pin == IF st.status = "pinned" /\ replay # "replay/expired" THEN st.fp ELSE None
    <2>1. w = [encrypt |-> usable, accept |-> FALSE, pin |-> pin,
               status |-> st.status, reason |-> replay]
      BY <1>4 DEF AfterIdentityAuthorization
    <2>2. pin # None => st.status = "pinned"
      OBVIOUS
    <2> HIDE DEF pin, replay
    <2> QED
      BY <2>1, <2>2
  <1> QED
    BY <1>3, <1>4

\* The matrix: a pinned domain accepts only a response its pin signed, the
\* rotation walk is reached only from a pin by another valid signer, an
\* accepted pin is the pin there was or the signer seen, nothing older than
\* what was verified is accepted, and a refusal pins nobody.
LEMMA DecideIdentityType ==
  ASSUME NEW st \in IdentityState, NEW r \in Result, NEW usable \in BOOLEAN,
         NEW v, v = DecideIdentity(st, r, usable)
  PROVE  /\ v \in Verdict
         /\ v.reason = "pinned/valid-proof-other-signer" =>
               st.status = "pinned" /\ r.proof \in Fingerprints /\ r.proof # st.fp /\ ~v.accept
         /\ v.accept /\ st.status = "pinned" => r.proof = st.fp
         /\ v.accept => IssuedAt[r.manifest] >= st.issued
         /\ v.pin # None /\ st.status # "pinned" => v.accept /\ v.pin = r.proof
  <1> DEFINE accepting(pin, status, reason) ==
                [encrypt |-> TRUE, accept |-> TRUE, pin |-> pin,
                 status |-> status, reason |-> reason]
             refusing(reason) ==
                [encrypt |-> usable, accept |-> FALSE, pin |-> st.fp,
                 status |-> "pinned", reason |-> reason]
             signed == r.proof \in Fingerprints
  <1>1. /\ st.fp \in Fingerprints \cup {None}
        /\ st.status \in {"unpinned", "pinned", "contested"}
        /\ r.proof \in Fingerprints \cup {None, Invalid}
    BY DEF IdentityState, Result, Proofs
  <1>2. ASSUME NEW pin \in Fingerprints \cup {None},
               NEW status \in {"unpinned", "pinned", "contested"},
               NEW reason \in {"pinned/dns-disagrees", "pinned/valid-proof-from-pin",
                               "unpinned/invalid-proof", "unpinned/dns-fp-but-no-proof",
                               "unpinned/no-proof", "unpinned/dns-disagrees",
                               "unpinned/pin-established"},
               v = AfterIdentityAuthorization(st, r, usable, accepting(pin, status, reason)),
               st.status = "pinned" => r.proof = st.fp,
               pin # None /\ st.status # "pinned" => pin = r.proof
        PROVE  /\ v \in Verdict
               /\ v.reason # "pinned/valid-proof-other-signer"
               /\ v.accept /\ st.status = "pinned" => r.proof = st.fp
               /\ v.accept => IssuedAt[r.manifest] >= st.issued
               /\ v.pin # None /\ st.status # "pinned" => v.accept /\ v.pin = r.proof
    <2>1. accepting(pin, status, reason) \in Verdict
      BY DEF Verdict, Reasons
    <2>2. /\ accepting(pin, status, reason).reason = reason
          /\ accepting(pin, status, reason).accept
          /\ accepting(pin, status, reason).pin = pin
      OBVIOUS
    <2> HIDE DEF accepting
    <2>3. v \in Verdict /\ (v = accepting(pin, status, reason) \/ v.reason \in ReplayReasons)
      BY <1>2, <2>1, AuthorizationType
    <2>4. /\ v.accept => IssuedAt[r.manifest] >= st.issued
          /\ \/ v = accepting(pin, status, reason)
             \/ ~v.accept /\ (v.pin # None => st.status = "pinned")
      BY <1>2, AuthorizationKeeps
    <2> QED
      BY <1>2, <2>2, <2>3, <2>4 DEF ReplayReasons
  <1>3. CASE st.status = "pinned" /\ signed /\ r.proof = st.fp
    <2> DEFINE dns == IF st.dnsFP \notin {None, st.fp} THEN "pinned/dns-disagrees"
                      ELSE "pinned/valid-proof-from-pin"
    <2>1. v = AfterIdentityAuthorization(st, r, usable, accepting(st.fp, "pinned", dns))
      BY <1>3 DEF DecideIdentity
    <2> HIDE DEF accepting
    <2> QED
      BY <1>1, <1>2, <1>3, <2>1
  <1>4. CASE st.status = "pinned" /\ signed /\ r.proof # st.fp
    <2>1. v = refusing("pinned/valid-proof-other-signer")
      BY <1>4 DEF DecideIdentity
    <2> QED
      BY <1>1, <1>4, <2>1 DEF Verdict, Reasons, ReplayReasons
  <1>5. CASE st.status = "pinned" /\ ~signed
    <2>1. v = refusing("pinned/proof-absent-or-invalid")
      BY <1>5 DEF DecideIdentity
    <2> QED
      BY <1>1, <1>5, <2>1 DEF Verdict, Reasons, ReplayReasons
  <1>6. CASE st.status # "pinned"
    <2>1. \E pin \in Fingerprints \cup {None}, status \in {"unpinned", "pinned", "contested"},
             reason \in {"unpinned/invalid-proof", "unpinned/dns-fp-but-no-proof",
                         "unpinned/no-proof", "unpinned/dns-disagrees",
                         "unpinned/pin-established"} :
             /\ v = AfterIdentityAuthorization(st, r, usable, accepting(pin, status, reason))
             /\ pin # None => pin = r.proof
      <3>1. CASE r.proof = Invalid
        <4>1. v = AfterIdentityAuthorization(st, r, usable,
                     accepting(None, st.status, "unpinned/invalid-proof"))
          BY <1>6, <3>1, NoneAssumption DEF DecideIdentity
        <4> QED
          BY <1>1, <4>1
      <3>2. CASE r.proof = None
        <4>1. ~signed /\ r.proof # Invalid
          BY <3>2, NoneAssumption
        <4> DEFINE dns == IF st.dnsFP # None THEN "unpinned/dns-fp-but-no-proof"
                          ELSE "unpinned/no-proof"
        <4>2. v = AfterIdentityAuthorization(st, r, usable, accepting(None, st.status, dns))
          BY <1>6, <3>2, <4>1 DEF DecideIdentity
        <4> HIDE DEF accepting
        <4> QED
          BY <1>1, <4>2
      <3>3. CASE signed
        <4>1. r.proof # None /\ r.proof # Invalid
          BY <3>3, NoneAssumption
        <4>2. CASE st.dnsFP \notin {None, r.proof}
          <5>1. v = AfterIdentityAuthorization(st, r, usable,
                       accepting(None, "contested", "unpinned/dns-disagrees"))
            BY <1>6, <3>3, <4>1, <4>2 DEF DecideIdentity
          <5> QED
            BY <5>1
        <4>3. CASE ~(st.dnsFP \notin {None, r.proof})
          <5>1. v = AfterIdentityAuthorization(st, r, usable,
                       accepting(r.proof, "pinned", "unpinned/pin-established"))
            BY <1>6, <3>3, <4>1, <4>3 DEF DecideIdentity
          <5> QED
            BY <3>3, <5>1
        <4> QED
          BY <4>2, <4>3
      <3> QED
        BY <1>1, <3>1, <3>2, <3>3
    <2> HIDE DEF accepting
    <2> QED
      BY <1>2, <1>6, <2>1
  <1> QED
    BY <1>1, <1>3, <1>4, <1>5, <1>6

\* The pin is established once: no verdict moves it, and what has been
\* verified never goes back in time; an accepted manifest is either the newest
\* verified or older than that (identity.go ApplyIdentity).
LEMMA ApplyIdentityType ==
  ASSUME NEW st \in IdentityState, NEW v \in Verdict, NEW r \in Result
  PROVE  /\ ApplyIdentity(st, v, r) \in IdentityState
         /\ st.status = "pinned" => /\ ApplyIdentity(st, v, r).status = "pinned"
                                    /\ ApplyIdentity(st, v, r).fp = st.fp
         /\ ApplyIdentity(st, v, r).issued >= st.issued
         /\ st.status # "pinned" /\ v.pin # None =>
               /\ ApplyIdentity(st, v, r).status = "pinned"
               /\ ApplyIdentity(st, v, r).fp = v.pin
         /\ st.status # "pinned" /\ v.pin = None =>
               /\ ApplyIdentity(st, v, r).status # "pinned"
               /\ ApplyIdentity(st, v, r).fp = st.fp
         /\ v.accept => ApplyIdentity(st, v, r).issued >= IssuedAt[r.manifest]
         /\ ApplyIdentity(st, v, r).issued \in {st.issued, IssuedAt[r.manifest]}
  <1> DEFINE pins == v.pin # None /\ st.status # "pinned"
             advances == v.accept /\ IssuedAt[r.manifest] > st.issued
             status == IF pins THEN "pinned"
                       ELSE IF v.status = "contested" /\ st.status # "pinned"
                            THEN "contested" ELSE st.status
             fp == IF pins THEN v.pin ELSE st.fp
             key == IF pins /\ r.proof = v.pin THEN r.proof ELSE st.key
             issued == IF advances THEN IssuedAt[r.manifest] ELSE st.issued
             verified == IF advances THEN r.manifest ELSE st.verified
             new == [st EXCEPT !.status = status, !.fp = fp, !.key = key,
                               !.issued = issued, !.verified = verified]
  <1>1. /\ st.fp \in Fingerprints \cup {None} /\ st.key \in Fingerprints \cup {None}
        /\ st.issued \in Nat /\ st.verified \in Manifests \cup {None}
        /\ st.status \in {"unpinned", "pinned", "contested"}
        /\ v.pin \in Fingerprints \cup {None}
        /\ r.manifest \in Manifests
    BY DEF IdentityState, Verdict, Result
  <1>2. IssuedAt[r.manifest] \in Nat
    BY <1>1, ManifestAssumption
  <1>3. status \in {"unpinned", "pinned", "contested"} /\ fp \in Fingerprints \cup {None}
    BY <1>1
  <1>4. key \in Fingerprints \cup {None}
    BY <1>1
  <1>5. /\ issued \in Nat /\ issued >= st.issued /\ verified \in Manifests \cup {None}
        /\ v.accept => issued >= IssuedAt[r.manifest]
        /\ issued \in {st.issued, IssuedAt[r.manifest]}
    BY <1>1, <1>2
  <1>6. /\ st.status = "pinned" => status = "pinned" /\ fp = st.fp
        /\ st.status # "pinned" /\ v.pin # None => status = "pinned" /\ fp = v.pin
        /\ st.status # "pinned" /\ v.pin = None => status # "pinned" /\ fp = st.fp
    OBVIOUS
  <1>7. ApplyIdentity(st, v, r) = new
    BY Zenon DEF ApplyIdentity
  <1> HIDE DEF status, fp, key, issued, verified
  <1>8. /\ new \in IdentityState
        /\ new.status = status /\ new.fp = fp /\ new.issued = issued
    BY <1>3, <1>4, <1>5 DEF IdentityState
  <1> HIDE DEF new
  <1> QED
    BY <1>5, <1>6, <1>7, <1>8

\* A rotation moves the pin to the identity it names.
LEMMA MovePinType ==
  ASSUME NEW st \in IdentityState, NEW fp \in Fingerprints, NEW r \in Result
  PROVE  /\ MovePin(st, fp, r) \in IdentityState
         /\ MovePin(st, fp, r).status = "pinned"
         /\ MovePin(st, fp, r).fp = fp
         /\ MovePin(st, fp, r).issued = IssuedAt[r.manifest]
  <1>1. r.manifest \in Manifests /\ IssuedAt[r.manifest] \in Nat
    BY ManifestAssumption DEF Result
  <1> QED
    BY <1>1 DEF MovePin, IdentityState

\* A usable record holds a manifest.
LEMMA UsableType ==
  ASSUME NEW p \in Peer \cup {None}, NEW t, Usable(p, t)
  PROVE  p \in Peer /\ p.effective \in ManifestRecord
  BY DEF Usable, Peer

\* A set of naturals that is not empty has a least element.
LEMMA LeastOfNats ==
  ASSUME NEW T, T \subseteq Nat, T # {}
  PROVE  \E x \in T : \A y \in T : x <= y
  <1> DEFINE R == OpToRel(<, Nat)
  <1>1. IsWellFoundedOn(R, Nat)
    BY NatLessThanWellFounded
  <1> HIDE DEF R
  <1>2. PICK x \in T : \A y \in T : <<y, x>> \notin R
    BY <1>1, WFMin
  <1>3. \A y \in T : y < x => <<y, x>> \in R
    BY <1>2 DEF R, OpToRel
  <1>4. \A y \in T : x \in Nat /\ y \in Nat /\ ~(y < x)
    BY <1>2, <1>3
  <1> QED
    BY <1>2, <1>4

\* The route a hint names is a delegate.
LEMMA AuthorityHintType ==
  ASSUME NEW p \in Peer \cup {None}
  PROVE  AuthorityHint(p) \in Delegates \cup {None}
  <1> DEFINE obs == p.observations
             newest == {i \in DOMAIN obs : /\ obs[i].at > 0
                                           /\ \A j \in DOMAIN obs : obs[j].at <= obs[i].at}
             first == CHOOSE i \in newest : \A j \in newest : i <= j
  <1> SUFFICES ASSUME Pinned(p), newest # {}
               PROVE  obs[first].authority \in Delegates \cup {None}
    BY DEF AuthorityHint
  <1>1. obs \in Seq(Observation)
    BY DEF Pinned, Peer
  <1>2. newest \in SUBSET Nat /\ newest # {}
    BY <1>1, LenProperties
  <1> HIDE DEF newest
  <1>3. \E i \in newest : \A j \in newest : i <= j
    BY <1>2, LeastOfNats
  <1>4. first \in newest
    BY <1>3
  <1>5. newest \subseteq 1..Len(obs)
    BY <1>1, LenProperties DEF newest
  <1>6. obs[first] \in Observation
    BY <1>1, <1>4, <1>5, ElementOfSeq
  <1> QED
    BY <1>6 DEF Observation

-----------------------------------------------------------------------------
(* The service.                                                            *)

OwedByPolicy(ow) == "require" \in ow /\ "read" \notin FaultKinds
OwedKey(ow) == "latch" \in ow \/ OwedByPolicy(ow)

\* k: the locals of a call; cp: the latch; ow: what the call is owed.
Good(k, cp, ow) ==
    /\ CallShape(k)
    /\ k.pc \in {"latch", "identity"} /\ k.verdict.reason = "pinned/valid-proof-other-signer"
          => k.prev \in PeerView /\ k.res.proof \in Fingerprints
    /\ k.pc = "manual" => k.op = "add"
    /\ k.pc \in Deciding \ {"latch"} => cp.ever
    /\ OwedKey(ow) => /\ k.op \in Sends
                      /\ k.err # "disabled"
                      /\ k.pc = "done" => k.err # "bare"
    /\ OwedByPolicy(ow) /\ k.pc \notin {"idle", "lookup", "done"} => k.policy = "require"

Typed ==
    /\ peer \in Peer \cup {None}
    /\ cap \in Capability
    /\ now \in Nat
    /\ call \in [Callers -> CallState]
    /\ owed \in [Callers -> SUBSET {"latch", "require"}]
    /\ torn \in BOOLEAN
    /\ faults \in Nat /\ begun \in Nat

OwedHolds ==
    \A c \in Callers :
        /\ "latch" \in owed[c] => Requires(cap) /\ ~Disabled(peer)
        /\ "require" \in owed[c] => peer # None /\ peer.policy = "require"

Inv ==
    /\ Typed
    /\ PinImpliesLatch
    /\ OwedHolds
    /\ \A c \in Callers : Good(call[c], cap, owed[c])

\* What a step of one caller may do: change its own locals, set the latch,
\* and rewrite the record without pinning before the latch or disabling it.
PeerMoves ==
    /\ peer' \in Peer \cup {None}
    /\ Pinned(peer') => Pinned(peer) \/ cap.ever
    /\ Disabled(peer') => Disabled(peer)
    /\ peer # None => peer' # None /\ peer'.policy = peer.policy

CapMoves ==
    /\ cap' \in Capability
    /\ cap.ever => cap'.ever
    /\ cap'.disabled = cap.disabled

CallMoves(c) ==
    \E k \in CallState : Good(k, cap', owed[c]) /\ call' = [call EXCEPT ![c] = k]

CallerStep(c) ==
    /\ PeerMoves /\ CapMoves /\ CallMoves(c)
    /\ UNCHANGED <<now, owed, torn, begun>>
    /\ faults' \in Nat

-----------------------------------------------------------------------------

\* A step of a caller keeps everyone's part of the invariant.
LEMMA CallerStepKeepsInv ==
  ASSUME Inv, NEW c \in Callers, CallerStep(c)
  PROVE  Inv'
  <1> USE DEF Inv, Typed
  <1>1. PICK k \in CallState : Good(k, cap', owed[c]) /\ call' = [call EXCEPT ![c] = k]
    BY DEF CallerStep, CallMoves
  <1>2. Typed'
    BY <1>1 DEF CallerStep, PeerMoves, CapMoves
  <1>3. PinImpliesLatch'
    BY DEF PinImpliesLatch, CallerStep, PeerMoves, CapMoves
  <1>4. OwedHolds'
    BY DEF OwedHolds, CallerStep, PeerMoves, CapMoves, Requires
  <1>5. ASSUME NEW x \in Callers
        PROVE  Good(call'[x], cap', owed'[x])
    <2>1. owed' = owed /\ (cap.ever => cap'.ever)
      BY DEF CallerStep, CapMoves
    <2>2. CASE x = c
      BY <1>1, <2>1, <2>2
    <2>3. CASE x # c
      <3>1. call'[x] = call[x] /\ Good(call[x], cap, owed[x])
        BY <1>1, <2>3
      <3> QED
        BY <2>1, <3>1 DEF Good
    <2> QED
      BY <2>2, <2>3
  <1> QED
    BY <1>2, <1>3, <1>4, <1>5

-----------------------------------------------------------------------------
(* The ways a call goes on.                                                *)

LEMMA IdleType == Idle \in CallState
  BY DEF Idle, CallState, PCs, Operations, Errors

\* Ending a call.
LEMMA EndsMoves ==
  ASSUME Inv, NEW c \in Callers, NEW m \in Manifests \cup {None}, NEW e \in Errors,
         Ends(c, m, e), OwedKey(owed[c]) => e \notin {"bare", "disabled"}
  PROVE  CallMoves(c)
  <1> DEFINE k == [Idle EXCEPT !.pc = "done", !.op = call[c].op, !.got = m, !.err = e]
  <1>1. call[c] \in CallState /\ Good(call[c], cap, owed[c])
    BY DEF Inv, Typed
  <1>2. call[c].op \in Operations
    BY <1>1 DEF CallState
  <1>3. k \in CallState
    <2>1. "done" \in PCs
      BY DEF PCs
    <2> QED
      BY <1>2, <2>1, IdleType DEF CallState
  <1>4. k.pc = "done" /\ k.op = call[c].op /\ k.err = e
    BY IdleType DEF CallState
  <1>5. call' = [call EXCEPT ![c] = k]
    BY DEF Ends
  <1> HIDE DEF k
  <1>6. Good(k, cap', owed[c])
    BY <1>1, <1>4 DEF Good, CallShape, Deciding, Walking
  <1> QED
    BY <1>3, <1>5, <1>6 DEF CallMoves

\* An error on its way to policyFailure.
LEMMA ToPolicyMoves ==
  ASSUME Inv, NEW c \in Callers, NEW e \in Errors,
         ToPolicy(c, e), OwedKey(owed[c]) => e # "disabled",
         OwedByPolicy(owed[c]) => call[c].policy = "require"
  PROVE  CallMoves(c)
  <1> DEFINE k == [Idle EXCEPT !.pc = "policy", !.op = call[c].op,
                               !.policy = call[c].policy, !.err = e]
  <1>1. call[c] \in CallState /\ Good(call[c], cap, owed[c])
    BY DEF Inv, Typed
  <1>2. call[c].op \in Operations /\ call[c].policy \in Policies \cup {None}
    BY <1>1 DEF CallState
  <1>3. /\ k \in CallState /\ k.pc = "policy" /\ k.op = call[c].op /\ k.err = e
        /\ k.policy = call[c].policy
    <2>1. "policy" \in PCs
      BY DEF PCs
    <2> QED
      BY <1>2, <2>1, IdleType DEF CallState
  <1>4. call' = [call EXCEPT ![c] = k]
    BY DEF ToPolicy
  <1> HIDE DEF k
  <1>5. Good(k, cap', owed[c])
    BY <1>1, <1>3 DEF Good, CallShape, Deciding, Walking
  <1> QED
    BY <1>3, <1>4, <1>5 DEF CallMoves

LEMMA ReturnStoredMoves ==
  ASSUME Inv, NEW c \in Callers, NEW rec \in ManifestRecord, ReturnStored(c, rec),
         call[c].pc \notin {"idle", "lookup", "done"}
  PROVE  CallMoves(c)
  <1>1. /\ rec.manifest \in Manifests /\ {"none", "bare"} \subseteq Errors
        /\ OwedByPolicy(owed[c]) => call[c].policy = "require"
    BY DEF ManifestRecord, Errors, Inv, Good
  <1>2. CASE rec.intact
    BY <1>1, <1>2, EndsMoves DEF ReturnStored
  <1>3. CASE ~rec.intact
    BY <1>1, <1>3, ToPolicyMoves DEF ReturnStored
  <1> QED
    BY <1>2, <1>3

\* resolve's error, seen by whoever called it.
LEMMA ReturnErrorMoves ==
  ASSUME Inv, NEW c \in Callers, NEW e \in Errors, ReturnError(c, e),
         OwedKey(owed[c]) => e # "disabled",
         call[c].pc \notin {"idle", "lookup", "done"}
  PROVE  CallMoves(c)
  <1>1. /\ call[c] \in CallState /\ Good(call[c], cap, owed[c])
        /\ OwedByPolicy(owed[c]) => call[c].policy = "require"
    BY DEF Inv, Typed, Good
  <1>2. CASE call[c].op \notin Sends
    <2>1. ~OwedKey(owed[c])
      BY <1>1, <1>2 DEF Good
    <2> QED
      BY <1>2, <2>1, EndsMoves DEF ReturnError
  <1>3. CASE call[c].op \in Sends /\ call[c].fallback # None
    BY <1>1, <1>3, ReturnStoredMoves DEF ReturnError, CallState
  <1>4. CASE call[c].op \in Sends /\ call[c].fallback = None
    BY <1>1, <1>4, ToPolicyMoves DEF ReturnError
  <1> QED
    BY <1>2, <1>3, <1>4

LEMMA ReturnCachedMoves ==
  ASSUME Inv, NEW c \in Callers, NEW rec \in ManifestRecord, ReturnCached(c, rec),
         call[c].pc \notin {"idle", "lookup", "done"}
  PROVE  CallMoves(c)
  <1>1. /\ rec.manifest \in Manifests /\ {"none", "bare"} \subseteq Errors
        /\ OwedByPolicy(owed[c]) => call[c].policy = "require"
    BY DEF ManifestRecord, Errors, Inv, Good
  <1>2. CASE rec.intact
    BY <1>1, <1>2, EndsMoves DEF ReturnCached
  <1>3. CASE ~rec.intact
    BY <1>1, <1>3, ReturnErrorMoves DEF ReturnCached
  <1> QED
    BY <1>2, <1>3

\* Going on to another point with the locals as they are.
LEMMA GotoMoves ==
  ASSUME Inv, NEW c \in Callers, NEW pc \in PCs \ {"done", "manual", "latch", "identity"},
         Goto(c, pc), CapMoves, call[c].pc \notin {"idle", "lookup", "done"},
         pc \in Deciding \cup {"decide"} => At(c, "latch") \/ At(c, "identity")
                                            \/ call[c].pc \in Deciding,
         pc \in Walking => \/ call[c].pc \in Walking
                           \/ /\ At(c, "identity")
                              /\ call[c].verdict.reason = "pinned/valid-proof-other-signer",
         pc \in Deciding => cap'.ever
  PROVE  CallMoves(c)
  <1> DEFINE k == [call[c] EXCEPT !.pc = pc]
  <1>1. call[c] \in CallState /\ Good(call[c], cap, owed[c])
    BY DEF Inv, Typed
  <1>2. /\ k \in CallState
        /\ k.pc = pc /\ k.op = call[c].op /\ k.err = call[c].err /\ k.policy = call[c].policy
        /\ k.res = call[c].res /\ k.verdict = call[c].verdict /\ k.prev = call[c].prev
    BY <1>1 DEF CallState
  <1>3. call' = [call EXCEPT ![c] = k]
    BY <1>1 DEF Goto, Inv, Typed
  <1> HIDE DEF k
  <1>4. Good(k, cap', owed[c])
    BY <1>1, <1>2 DEF Good, CallShape, Deciding, Walking, At
  <1> QED
    BY <1>2, <1>3, <1>4 DEF CallMoves

-----------------------------------------------------------------------------
(* What the steps of a caller do to the record.                            *)

\* A mutation that leaves trust and policy alone.
LEMMA SameTrustMoves ==
  ASSUME Inv, peer' \in Peer, peer'.identity.status = IdentityOf(peer).status,
         peer'.policy = "disabled" => Disabled(peer),
         peer # None => peer'.policy = peer.policy
  PROVE  PeerMoves
  BY NoneAssumption, RecordAssumption DEF PeerMoves, Pinned, Disabled, IdentityOf, NoIdentity

LEMMA FailureMoves ==
  ASSUME Inv, NEW t, peer' = RecordFailure(peer, t)
  PROVE  PeerMoves
  BY RecordFailureType, SameTrustMoves DEF Inv, Typed, Disabled

LEMMA IssueMoves ==
  ASSUME Inv, NEW code \in IssueCodes, NEW codes,
         peer' \in {RecordIssue(peer, code), ClearIssues(peer, codes)}
  PROVE  PeerMoves
  BY IssueType, SameTrustMoves DEF Inv, Typed, Disabled

LEMMA InstallMoves ==
  ASSUME Inv, NEW r \in Result, r.fetched <= r.until, NEW t,
         peer' = Install(Upsert(peer), r, t)
  PROVE  PeerMoves
  <1> DEFINE u == Upsert(peer)
  <1>1. /\ u \in Peer
        /\ u.identity = IdentityOf(peer)
        /\ u.policy = IF peer = None THEN "auto" ELSE peer.policy
    BY UpsertType DEF Inv, Typed
  <1>2. peer' = Install(u, r, t)
    OBVIOUS
  <1> HIDE DEF u
  <1> DEFINE q == Install(u, r, t)
  <1>3. q \in Peer /\ q.identity = u.identity /\ q.policy = u.policy
    BY <1>1, InstallType
  <1>4. peer' = q
    BY <1>2
  <1> HIDE DEF q
  <1> QED
    BY <1>1, <1>3, <1>4, SameTrustMoves DEF Disabled

\* The identity is written only by a caller that has set the latch.
LEMMA IdentityMoves ==
  ASSUME Inv, cap.ever, NEW st \in IdentityState, peer' = SetIdentity(peer, st)
  PROVE  PeerMoves
  BY SetIdentityType, RecordAssumption DEF Inv, Typed, PeerMoves, Disabled

LEMMA NothingMoves ==
  ASSUME Inv, UNCHANGED peer
  PROVE  PeerMoves
  BY DEF Inv, Typed, PeerMoves, Pinned, Disabled

LEMMA LatchStays ==
  ASSUME Inv, UNCHANGED cap
  PROVE  CapMoves
  BY DEF Inv, Typed, CapMoves

LEMMA FaultsType ==
  ASSUME Inv, NEW kind, Breaks(kind) \/ Works
  PROVE  faults' \in Nat
  BY DEF Inv, Typed, Breaks, Works

\* A step that only moves its caller, and one that also writes the record.
LEMMA LocalStep ==
  ASSUME Inv, NEW c \in Callers, Local, NEW kind, Breaks(kind) \/ Works, CallMoves(c)
  PROVE  CallerStep(c)
  BY NothingMoves, LatchStays, FaultsType DEF Local, CallerStep

LEMMA OnPeerStep ==
  ASSUME Inv, NEW c \in Callers, OnPeer, NEW kind, Breaks(kind) \/ Works, CallMoves(c),
         PeerMoves
  PROVE  CallerStep(c)
  BY LatchStays, FaultsType DEF OnPeer, CallerStep

\* A caller's step that changes a few locals besides the program counter.
LEMMA SetsMoves ==
  ASSUME Inv, NEW c \in Callers, NEW k \in CallState, call' = [call EXCEPT ![c] = k],
         Good(k, cap', owed[c])
  PROVE  CallMoves(c)
  BY DEF CallMoves

\* Whoever is owed a key is not stopped by a disabled domain.
LEMMA OwedAnswer ==
  ASSUME Inv, NEW c \in Callers, OwedKey(owed[c])
  PROVE  ~Disabled(peer)
  BY DEF Inv, OwedHolds, OwedKey, OwedByPolicy, Disabled

-----------------------------------------------------------------------------
(* One lemma per phase of the procedure, one step per action.              *)

LEMMA LookupSteps ==
  ASSUME Inv, NEW c \in Callers,
         LookupFails(c) \/ LookupDisabled(c) \/ LookupCached(c) \/ LookupMisses(c)
  PROVE  CallerStep(c)
  <1>1. call[c] \in CallState /\ Good(call[c], cap, owed[c]) /\ peer \in Peer \cup {None}
    BY DEF Inv, Typed
  <1>2. OwedKey(owed[c]) => ~Disabled(peer)
    BY OwedAnswer
  <1>3. {"none", "bare", "disabled", "required"} \subseteq Errors
    BY DEF Errors
  <1>4. CASE LookupFails(c)
    BY <1>3, <1>4, ToPolicyMoves, LocalStep DEF LookupFails, OwedByPolicy, Breaks
  <1>5. CASE LookupDisabled(c)
    BY <1>2, <1>3, <1>5, ToPolicyMoves, LocalStep DEF LookupDisabled, OwedKey
  <1>6. CASE LookupCached(c)
    <2>1. peer \in Peer /\ peer.effective \in ManifestRecord
      BY <1>1, <1>6, UsableType DEF LookupCached
    <2>2. CASE peer.effective.intact
      <3>1. Ends(c, peer.effective.manifest, "none") /\ peer.effective.manifest \in Manifests
        BY <1>6, <2>1, <2>2 DEF LookupCached, ManifestRecord
      <3>2. CallMoves(c)
        BY <1>3, <3>1, EndsMoves
      <3> QED
        BY <1>6, <3>2, LocalStep DEF LookupCached
    <2>3. CASE ~peer.effective.intact
      <3> DEFINE k == [call[c] EXCEPT !.pc = "policy", !.policy = peer.policy, !.err = "bare"]
      <3>1. call' = [call EXCEPT ![c] = k]
        BY <1>6, <2>3 DEF LookupCached, Inv, Typed
      <3>2. peer.policy \in Policies \cup {None}
        BY <2>1 DEF Peer
      <3>3. k \in CallState
        BY <1>1, <1>3, <3>2 DEF CallState, PCs
      <3>4. /\ k.pc = "policy" /\ k.op = call[c].op /\ k.err = "bare"
            /\ OwedByPolicy(owed[c]) => k.policy = "require"
        BY <1>1 DEF CallState, Inv, OwedHolds, OwedByPolicy
      <3> HIDE DEF k
      <3>5. Good(k, cap', owed[c])
        BY <1>1, <3>4 DEF Good, CallShape, Deciding, Walking
      <3>6. CallMoves(c)
        BY <3>1, <3>3, <3>5, SetsMoves
      <3> QED
        BY <1>6, <3>6, LocalStep DEF LookupCached
    <2> QED
      BY <2>2, <2>3
  <1>7. CASE LookupMisses(c)
    <2> DEFINE policy == IF peer = None THEN None ELSE peer.policy
               fallback == IF Usable(peer, now) THEN peer.effective ELSE None
               k == [call[c] EXCEPT !.pc = "check", !.policy = policy, !.fallback = fallback]
    <2>1. policy \in Policies \cup {None}
      BY <1>1 DEF Peer
    <2>2. fallback \in ManifestRecord \cup {None}
      BY <1>1, UsableType
    <2>3. call' = [call EXCEPT ![c] = k]
      BY <1>7 DEF LookupMisses, Inv, Typed
    <2>7. OwedByPolicy(owed[c]) => policy = "require"
      BY DEF Inv, OwedHolds, OwedByPolicy
    <2> HIDE DEF policy, fallback
    <2>4. /\ k \in CallState
          /\ k.pc = "check" /\ k.op = call[c].op /\ k.err = call[c].err
          /\ k.policy = policy
      <3>1. "check" \in PCs
        BY DEF PCs
      <3> QED
        BY <1>1, <2>1, <2>2, <3>1 DEF CallState
    <2> HIDE DEF k
    <2>5. Good(k, cap', owed[c])
      BY <1>1, <2>4, <2>7 DEF Good, CallShape, Deciding, Walking
    <2>6. CallMoves(c)
      BY <2>3, <2>4, <2>5, SetsMoves
    <2> QED
      BY <1>7, <2>6, LocalStep DEF LookupMisses
  <1> QED
    BY <1>4, <1>5, <1>6, <1>7

\* Everything up to the response, or the failure to get one.
LEMMA FetchSteps ==
  ASSUME Inv, NEW c \in Callers,
         \/ AddManual(c) \/ CheckDisabled(c) \/ CheckCached(c) \/ CheckMisses(c) \/ Route(c)
         \/ FetchFails(c) \/ RecordFetchFailure(c) \/ RaiseRefreshFailed(c)
         \/ \E a \in Answers : FetchAnswers(c, a)
  PROVE  CallerStep(c)
  <1>1. call[c] \in CallState /\ Good(call[c], cap, owed[c]) /\ peer \in Peer \cup {None}
    BY DEF Inv, Typed
  <1>2. OwedKey(owed[c]) => ~Disabled(peer)
    BY OwedAnswer
  <1>3. {"none", "bare", "disabled", "required"} \subseteq Errors
    BY DEF Errors
  <1>4. ASSUME NEW pc \in {"route", "fetch", "failed", "failed-issue"}, Goto(c, pc),
               UNCHANGED cap, call[c].pc \notin {"idle", "lookup", "done"}
        PROVE  CallMoves(c)
    BY <1>4, LatchStays, GotoMoves DEF PCs, Deciding, Walking
  <1>5. CASE AddManual(c)
    <2>1. At(c, "manual") /\ OnPeer
      BY <1>5 DEF AddManual
    <2>2. CASE Breaks("write") /\ Ends(c, None, "bare") /\ UNCHANGED peer
      <3>1. ~OwedKey(owed[c])
        BY <1>1, <2>1 DEF Good, At, Sends
      <3>2. CallMoves(c) /\ PeerMoves
        BY <1>3, <2>2, <3>1, EndsMoves, NothingMoves
      <3> QED
        BY <2>1, <2>2, <3>2, OnPeerStep
    <2> DEFINE o == [source |-> "manual", id |-> None, fp |-> None, authority |-> None,
                     at |-> now, status |-> "pending"]
    <2>3. CASE Works /\ peer' = PutObservation(peer, o) /\ Goto(c, "route")
      <3>1. o \in Observation
        BY DEF Observation, Sources, ObservationStatuses, Inv, Typed
      <3> HIDE DEF o
      <3>2. PeerMoves
        BY <1>1, <2>3, <3>1, PutObservationType, SameTrustMoves DEF Disabled
      <3>3. CallMoves(c)
        BY <1>4, <2>1, <2>3 DEF OnPeer, At
      <3> QED
        BY <2>1, <2>3, <3>2, <3>3, OnPeerStep
    <2> QED
      BY <1>5, <2>2, <2>3 DEF AddManual
  <1>6. CASE CheckDisabled(c)
    BY <1>2, <1>3, <1>6, ReturnErrorMoves, LocalStep DEF CheckDisabled, At
  <1>7. CASE CheckCached(c)
    BY <1>1, <1>7, UsableType, ReturnCachedMoves, LocalStep DEF CheckCached, At
  <1>8. CASE CheckMisses(c)
    <2>1. CallMoves(c)
      BY <1>4, <1>8 DEF CheckMisses, Local, At
    <2> QED
      BY <1>8, <2>1, LocalStep DEF CheckMisses
  <1>9. CASE Route(c)
    <2>1. CASE Breaks("read") /\ Goto(c, "fetch")
      <3>1. CallMoves(c)
        BY <1>4, <1>9, <2>1 DEF Route, Local, At
      <3> QED
        BY <1>9, <2>1, <3>1, LocalStep DEF Route
    <2>2. CASE /\ Works
               /\ call' = [call EXCEPT ![c].pc = "fetch", ![c].route = AuthorityHint(peer)]
      <3> DEFINE k == [call[c] EXCEPT !.pc = "fetch", !.route = AuthorityHint(peer)]
      <3>1. AuthorityHint(peer) \in Delegates \cup {None}
        BY <1>1, AuthorityHintType
      <3>2. call' = [call EXCEPT ![c] = k]
        BY <2>2 DEF Inv, Typed
      <3>3. k \in CallState
        BY <1>1, <3>1 DEF CallState, PCs
      <3>4. /\ k.pc = "fetch" /\ k.op = call[c].op /\ k.err = call[c].err
            /\ k.policy = call[c].policy
        BY <1>1 DEF CallState
      <3> HIDE DEF k
      <3>5. Good(k, cap', owed[c])
        BY <1>1, <1>9, <3>4 DEF Good, CallShape, Deciding, Walking, Route, At
      <3>6. CallMoves(c)
        BY <3>2, <3>3, <3>5, SetsMoves
      <3> QED
        BY <1>9, <2>2, <3>6, LocalStep DEF Route
    <2> QED
      BY <1>9, <2>1, <2>2 DEF Route
  <1>10. CASE FetchFails(c)
    <2>1. CallMoves(c)
      BY <1>4, <1>10 DEF FetchFails, Local, At
    <2> QED
      BY <1>10, <2>1, LocalStep DEF FetchFails
  <1>11. CASE RecordFetchFailure(c)
    <2>1. CASE Breaks("write") /\ ReturnError(c, "bare") /\ UNCHANGED peer
      BY <1>3, <1>11, <2>1, ReturnErrorMoves, NothingMoves, OnPeerStep DEF RecordFetchFailure, At
    <2>2. CASE Works /\ peer' = RecordFailure(peer, now) /\ Goto(c, "failed-issue")
      <3>1. CallMoves(c)
        BY <1>4, <1>11, <2>2 DEF RecordFetchFailure, OnPeer, At
      <3> QED
        BY <1>11, <2>2, <3>1, FailureMoves, OnPeerStep DEF RecordFetchFailure
    <2> QED
      BY <1>11, <2>1, <2>2 DEF RecordFetchFailure
  <1>12. CASE RaiseRefreshFailed(c)
    <2>1. CallMoves(c)
      BY <1>3, <1>12, ReturnErrorMoves DEF RaiseRefreshFailed, At
    <2>2. PeerMoves
      BY <1>12, NothingMoves, IssueMoves DEF RaiseRefreshFailed, IssueCodes
    <2> QED
      BY <1>12, <2>1, <2>2, OnPeerStep DEF RaiseRefreshFailed, At
  <1>13. ASSUME NEW a \in Answers, FetchAnswers(c, a)
         PROVE  CallerStep(c)
    <2> DEFINE r == [manifest |-> a.manifest, proof |-> a.proof,
                     fetched |-> now, until |-> CacheUntil(a)]
               k == [call[c] EXCEPT !.pc = "decide", !.res = r]
    <2>1. /\ a.manifest \in Manifests /\ a.proof \in Proofs /\ a.maxAge \in Nat \cup {None}
          /\ now \in Nat /\ now < NotAfter[a.manifest]
      BY <1>13, CallAssumption DEF FetchAnswers, Inv, Typed
    <2>2. NotAfter[a.manifest] \in Nat
      BY <2>1, ManifestAssumption
    <2>3. CacheUntil(a) \in Nat /\ now <= CacheUntil(a)
      BY <2>1, <2>2 DEF CacheUntil
    <2>4. r \in Result /\ r.fetched <= r.until
      BY <2>1, <2>3 DEF Result
    <2>5. call' = [call EXCEPT ![c] = k]
      BY <1>13 DEF FetchAnswers, Inv, Typed
    <2> HIDE DEF r
    <2>6. k \in CallState
      BY <1>1, <2>4 DEF CallState, PCs
    <2>7. /\ k.pc = "decide" /\ k.op = call[c].op /\ k.err = call[c].err /\ k.res = r
          /\ k.policy = call[c].policy
      BY <1>1 DEF CallState
    <2> HIDE DEF k
    <2>8. Good(k, cap', owed[c])
      BY <1>1, <1>13, <2>4, <2>7 DEF Good, CallShape, Deciding, Walking, FetchAnswers, At
    <2>9. CallMoves(c)
      BY <2>5, <2>6, <2>8, SetsMoves
    <2> QED
      BY <1>13, <2>9, LocalStep DEF FetchAnswers
  <1> QED
    BY <1>5, <1>6, <1>7, <1>8, <1>9, <1>10, <1>11, <1>12, <1>13

\* The verdict, the latch and the identity, in that order.
LEMMA DecideSteps ==
  ASSUME Inv, NEW c \in Callers, Decide(c) \/ MarkValidated(c) \/ PersistIdentity(c)
  PROVE  CallerStep(c)
  <1>1. call[c] \in CallState /\ Good(call[c], cap, owed[c]) /\ peer \in Peer \cup {None}
    BY DEF Inv, Typed
  <1>2. {"none", "bare", "disabled", "required"} \subseteq Errors
    BY DEF Errors
  <1>3. CASE Decide(c)
    <2>1. PICK p \in {peer, None} :
             /\ IF p = peer THEN Works ELSE Breaks("read")
             /\ call' = [call EXCEPT
                   ![c].pc = "latch",
                   ![c].prev = Snapshot(p),
                   ![c].verdict = DecideIdentity(IdentityOf(p), call[c].res, Usable(p, now))]
      BY <1>3 DEF Decide
    <2> DEFINE v == DecideIdentity(IdentityOf(p), call[c].res, Usable(p, now))
               k == [call[c] EXCEPT !.pc = "latch", !.prev = Snapshot(p), !.verdict = v]
    <2>2. p \in Peer \cup {None} /\ IdentityOf(p) \in IdentityState
      BY <1>1, <2>1, IdentityOfType
    <2>3. call[c].res \in Result /\ call[c].res.fetched <= call[c].res.until
      BY <1>1, <1>3 DEF Decide, At, Good, CallShape
    <2>4. Usable(p, now) \in BOOLEAN
      BY Zenon DEF Usable
    <2>5. /\ v \in Verdict
          /\ v.reason = "pinned/valid-proof-other-signer" =>
                IdentityOf(p).status = "pinned" /\ call[c].res.proof \in Fingerprints
      BY <2>2, <2>3, <2>4, DecideIdentityType
    <2>6. Snapshot(p) \in PeerView \cup {None}
      BY <2>2 DEF Snapshot, PeerView, Peer
    <2>7. IdentityOf(p).status = "pinned" => Snapshot(p) \in PeerView
      BY <2>2 DEF Snapshot, PeerView, Peer, IdentityOf, NoIdentity
    <2>8. call' = [call EXCEPT ![c] = k]
      BY <2>1 DEF Inv, Typed
    <2> HIDE DEF v
    <2>9. k \in CallState
      BY <1>1, <2>5, <2>6 DEF CallState, PCs
    <2>10. /\ k.pc = "latch" /\ k.op = call[c].op /\ k.err = call[c].err
           /\ k.policy = call[c].policy
           /\ k.res = call[c].res /\ k.prev = Snapshot(p) /\ k.verdict = v
      BY <1>1 DEF CallState
    <2> HIDE DEF k
    <2>11. Good(k, cap', owed[c])
      BY <1>1, <1>3, <2>3, <2>5, <2>7, <2>10 DEF Good, CallShape, Deciding, Walking, Decide, At
    <2>12. CallMoves(c)
      BY <2>8, <2>9, <2>11, SetsMoves
    <2> QED
      BY <1>3, <2>1, <2>12, LocalStep DEF Decide
  <1>4. CASE MarkValidated(c)
    <2>1. CASE Breaks("latch") /\ ReturnError(c, "required") /\ UNCHANGED cap
      <3>1. CallMoves(c)
        BY <1>2, <1>4, <2>1, ReturnErrorMoves DEF MarkValidated, At
      <3> QED
        BY <1>4, <2>1, <3>1, NothingMoves, LatchStays, FaultsType DEF MarkValidated, CallerStep
    <2>2. CASE Works /\ cap' = [cap EXCEPT !.ever = TRUE] /\ Goto(c, "identity")
      <3>1. CapMoves /\ cap'.ever
        BY <2>2 DEF CapMoves, Capability, Inv, Typed
      <3> DEFINE k == [call[c] EXCEPT !.pc = "identity"]
      <3>2. call' = [call EXCEPT ![c] = k]
        BY <2>2 DEF Goto, Inv, Typed
      <3>3. /\ k \in CallState
            /\ k.pc = "identity" /\ k.op = call[c].op /\ k.err = call[c].err
            /\ k.policy = call[c].policy
            /\ k.res = call[c].res /\ k.verdict = call[c].verdict /\ k.prev = call[c].prev
        BY <1>1 DEF CallState, PCs
      <3> HIDE DEF k
      <3>4. Good(k, cap', owed[c])
        BY <1>1, <1>4, <3>1, <3>3 DEF MarkValidated, At, Good, CallShape, Deciding, Walking
      <3>5. CallMoves(c)
        BY <3>2, <3>3, <3>4, SetsMoves
      <3> QED
        BY <1>4, <2>2, <3>1, <3>5, NothingMoves, FaultsType DEF MarkValidated, CallerStep
    <2> QED
      BY <1>4, <2>1, <2>2 DEF MarkValidated
  <1>5. CASE PersistIdentity(c)
    <2> DEFINE v == call[c].verdict
               st == IdentityOf(call[c].prev)
    <2>1. /\ At(c, "identity") /\ OnPeer /\ cap.ever
          /\ v \in Verdict /\ call[c].res \in Result
      BY <1>1, <1>5 DEF PersistIdentity, At, Good, CallShape, Deciding
    <2>2. st \in IdentityState
      BY <1>1, EmptySeq, NewType DEF CallState, PeerView, IdentityOf, New, Peer
    <2>3. CASE Breaks("write") /\ ReturnError(c, "required") /\ UNCHANGED peer
      BY <1>2, <2>1, <2>3, ReturnErrorMoves, NothingMoves, OnPeerStep DEF At
    <2>4. CASE /\ Works
               /\ peer' = SetIdentity(peer, ApplyIdentity(st, v, call[c].res))
               /\ Goto(c, AfterIdentity(v))
      <3>1. PeerMoves
        BY <2>1, <2>2, <2>4, ApplyIdentityType, IdentityMoves
      <3>2. /\ AfterIdentity(v) \in {"install", "chain", "refuse"}
            /\ AfterIdentity(v) = "chain" => v.reason = "pinned/valid-proof-other-signer"
        BY DEF AfterIdentity
      <3>3. CapMoves /\ cap'.ever
        BY <2>1, LatchStays DEF OnPeer
      <3>4. CallMoves(c)
        BY <2>1, <2>4, <3>2, <3>3, GotoMoves DEF PCs, Deciding, Walking, At
      <3> QED
        BY <2>1, <2>4, <3>1, <3>4, OnPeerStep
    <2> QED
      BY <1>5, <2>3, <2>4 DEF PersistIdentity
  <1> QED
    BY <1>3, <1>4, <1>5

\* Going on within the deciding part: the locals already hold what is needed.
LEMMA GoOnMoves ==
  ASSUME Inv, NEW c \in Callers, call[c].pc \in Deciding \ {"latch", "identity"}, UNCHANGED cap,
         NEW pc \in Deciding \ {"latch", "identity"}, Goto(c, pc),
         pc \in Walking => call[c].pc \in Walking
  PROVE  CallMoves(c)
  <1>1. CapMoves
    BY LatchStays
  <1>2. cap'.ever
    BY DEF Inv, Good
  <1>3. pc \in PCs \ {"done", "manual", "latch", "identity"}
    BY DEF PCs, Deciding
  <1> QED
    BY <1>1, <1>2, <1>3, GotoMoves DEF Deciding

\* Accepting: the manifest, then the issues it resolves.
LEMMA AcceptSteps ==
  ASSUME Inv, NEW c \in Callers,
         \/ InstallAccepted(c) \/ InstallMoved(c)
         \/ ClearAfterAccept(c) \/ ClearAfterMove(c)
  PROVE  CallerStep(c)
  <1>1. call[c] \in CallState /\ Good(call[c], cap, owed[c]) /\ peer \in Peer \cup {None}
    BY DEF Inv, Typed
  <1>2. OwedKey(owed[c]) => ~Disabled(peer)
    BY OwedAnswer
  <1>3. {"none", "bare", "disabled", "required"} \subseteq Errors
    BY DEF Errors
  <1>4. call[c].pc \in {"install", "move-install", "clear", "move-clear"} /\ OnPeer
    BY DEF InstallAccepted, InstallMoved, ClearAfterAccept, ClearAfterMove, At
  <1>5. /\ call[c].pc \in Deciding \ {"latch", "identity"}
        /\ call[c].res \in Result /\ call[c].res.fetched <= call[c].res.until
        /\ call[c].res.manifest \in Manifests
        /\ UNCHANGED cap
    BY <1>1, <1>4 DEF Good, CallShape, Deciding, Result, OnPeer
  <1>6. CASE InstallAccepted(c)
    <2>1. CASE Breaks("write") /\ ReturnError(c, "bare") /\ UNCHANGED peer
      BY <1>3, <1>4, <2>1, ReturnErrorMoves, NothingMoves, OnPeerStep
    <2>2. CASE Works /\ Disabled(peer) /\ ReturnError(c, "disabled") /\ UNCHANGED peer
      BY <1>2, <1>3, <1>4, <2>2, ReturnErrorMoves, NothingMoves, OnPeerStep
    <2>3. CASE Works /\ peer' = Install(Upsert(peer), call[c].res, now) /\ Goto(c, "clear")
      <3>1. CallMoves(c)
        BY <1>5, <2>3, GoOnMoves DEF Deciding, Walking
      <3> QED
        BY <1>4, <1>5, <2>3, <3>1, InstallMoves, OnPeerStep
    <2> QED
      BY <1>6, <2>1, <2>2, <2>3 DEF InstallAccepted
  <1>7. CASE InstallMoved(c)
    <2>1. CASE (Breaks("write") \/ Works) /\ Goto(c, "refuse") /\ UNCHANGED peer
      <3>1. CallMoves(c)
        BY <1>5, <2>1, GoOnMoves DEF Deciding, Walking
      <3> QED
        BY <1>4, <2>1, <3>1, NothingMoves, OnPeerStep
    <2>2. CASE Works /\ peer' = Install(Upsert(peer), call[c].res, now) /\ Goto(c, "move-clear")
      <3>1. call[c].pc \in Walking
        BY <1>7 DEF InstallMoved, At, Walking
      <3>2. CallMoves(c)
        BY <1>5, <2>2, <3>1, GoOnMoves DEF Deciding, Walking
      <3> QED
        BY <1>4, <1>5, <2>2, <3>2, InstallMoves, OnPeerStep
    <2> QED
      BY <1>7, <2>1, <2>2 DEF InstallMoved
  <1>8. ASSUME ClearAfterAccept(c) \/ ClearAfterMove(c)
        PROVE  CallerStep(c)
    <2>1. /\ Ends(c, call[c].res.manifest, "none")
          /\ Works \/ Breaks("write")
          /\ \E codes : peer' = ClearIssues(peer, codes)
      BY <1>8 DEF ClearAfterAccept, ClearAfterMove
    <2>2. CallMoves(c)
      BY <1>3, <1>5, <2>1, EndsMoves
    <2>3. PeerMoves
      BY <2>1, IssueMoves DEF IssueCodes
    <2> QED
      BY <1>4, <2>1, <2>2, <2>3, OnPeerStep
  <1> QED
    BY <1>6, <1>7, <1>8

\* The rotation walk; it moves the pin only behind the latch.
LEMMA ChainSteps ==
  ASSUME Inv, NEW c \in Callers,
         \/ ChainUnhelpful(c) \/ ChainBroken(c) \/ ChainRevoked(c) \/ ChainArrives(c)
         \/ RaiseFromChain(c) \/ MoveThePin(c)
  PROVE  CallerStep(c)
  <1>1. call[c] \in CallState /\ Good(call[c], cap, owed[c])
    BY DEF Inv, Typed
  <1>2. call[c].pc \in {"chain", "broken", "revoked", "move"} /\ UNCHANGED cap
    BY DEF ChainUnhelpful, ChainBroken, ChainRevoked, ChainArrives, RaiseFromChain,
           MoveThePin, At, Local, OnPeer
  <1>3. /\ call[c].pc \in Deciding \ {"latch", "identity"} /\ call[c].pc \in Walking
        /\ call[c].res \in Result /\ call[c].res.proof \in Fingerprints
        /\ call[c].prev \in PeerView /\ cap.ever
    BY <1>1, <1>2 DEF Good, CallShape, Deciding, Walking
  <1>4. ASSUME NEW pc \in {"refuse", "broken", "revoked", "move", "move-install"}, Goto(c, pc)
        PROVE  CallMoves(c)
    BY <1>2, <1>3, <1>4, GoOnMoves DEF Deciding, Walking
  <1>5. CASE ChainUnhelpful(c)
    <2>1. CallMoves(c)
      BY <1>4, <1>5 DEF ChainUnhelpful
    <2> QED
      BY <1>5, <2>1, LocalStep DEF ChainUnhelpful
  <1>6. CASE ChainBroken(c)
    <2>1. CallMoves(c)
      BY <1>4, <1>6 DEF ChainBroken
    <2> QED
      BY <1>6, <2>1, LocalStep DEF ChainBroken
  <1>7. CASE ChainRevoked(c)
    <2>1. CallMoves(c)
      BY <1>4, <1>7 DEF ChainRevoked
    <2> QED
      BY <1>7, <2>1, LocalStep DEF ChainRevoked
  <1>8. CASE ChainArrives(c)
    <2>1. CallMoves(c)
      BY <1>4, <1>8 DEF ChainArrives
    <2> QED
      BY <1>8, <2>1, LocalStep DEF ChainArrives
  <1>9. CASE RaiseFromChain(c)
    <2>1. CallMoves(c)
      BY <1>4, <1>9 DEF RaiseFromChain
    <2>2. PeerMoves
      BY <1>9, NothingMoves, IssueMoves DEF RaiseFromChain, IssueCodes
    <2> QED
      BY <1>9, <2>1, <2>2, OnPeerStep DEF RaiseFromChain
  <1>10. CASE MoveThePin(c)
    <2>1. CASE Breaks("write") /\ Goto(c, "refuse") /\ UNCHANGED peer
      <3>1. CallMoves(c)
        BY <1>4, <2>1
      <3> QED
        BY <1>10, <2>1, <3>1, NothingMoves, OnPeerStep DEF MoveThePin
    <2> DEFINE st == MovePin(call[c].prev.identity, call[c].res.proof, call[c].res)
    <2>2. CASE Works /\ peer' = SetIdentity(peer, st) /\ Goto(c, "move-install")
      <3>1. call[c].prev.identity \in IdentityState
        BY <1>3 DEF PeerView
      <3>2. st \in IdentityState
        BY <1>3, <3>1, MovePinType
      <3> HIDE DEF st
      <3>3. PeerMoves
        BY <1>3, <2>2, <3>2, IdentityMoves
      <3>4. CallMoves(c)
        BY <1>4, <2>2
      <3> QED
        BY <1>10, <2>2, <3>3, <3>4, OnPeerStep DEF MoveThePin
    <2> QED
      BY <1>10, <2>1, <2>2 DEF MoveThePin
  <1> QED
    BY <1>5, <1>6, <1>7, <1>8, <1>9, <1>10

\* Refusing, and what a failure becomes for the mail.
LEMMA RefusalSteps ==
  ASSUME Inv, NEW c \in Callers,
         RecordRefusal(c) \/ RaiseRefusal(c) \/ AnswerRefusal(c) \/ PolicyFailure(c)
  PROVE  CallerStep(c)
  <1>1. call[c] \in CallState /\ Good(call[c], cap, owed[c])
    BY DEF Inv, Typed
  <1>2. {"none", "bare", "disabled", "required"} \subseteq Errors
    BY DEF Errors
  <1>3. CASE RecordRefusal(c)
    <2>1. /\ At(c, "refuse") /\ OnPeer /\ Goto(c, "refuse-issue")
          /\ \/ Breaks("write") /\ UNCHANGED peer
             \/ Works /\ peer' = RecordFailure(peer, now)
      BY <1>3 DEF RecordRefusal
    <2>2. CallMoves(c)
      BY <2>1, GoOnMoves DEF At, OnPeer, Deciding, Walking
    <2>3. PeerMoves
      BY <2>1, NothingMoves, FailureMoves
    <2> QED
      BY <2>1, <2>2, <2>3, OnPeerStep
  <1>4. CASE RaiseRefusal(c)
    <2>1. /\ At(c, "refuse-issue") /\ OnPeer /\ Goto(c, "answer")
          /\ \/ Breaks("write") /\ UNCHANGED peer
             \/ Works /\ peer' = RecordIssue(peer, IssueOf(call[c].verdict.reason))
      BY <1>4 DEF RaiseRefusal
    <2>2. CallMoves(c)
      BY <2>1, GoOnMoves DEF At, OnPeer, Deciding, Walking
    <2>3. IssueOf(call[c].verdict.reason) \in IssueCodes
      BY DEF IssueOf, IssueCodes
    <2>4. PeerMoves
      BY <2>1, <2>3, NothingMoves, IssueMoves
    <2> QED
      BY <2>1, <2>2, <2>4, OnPeerStep
  <1>5. CASE AnswerRefusal(c)
    <2> DEFINE v == call[c].verdict
               prev == call[c].prev
    <2>1. /\ At(c, "answer") /\ Works /\ Local
          /\ call[c].res \in Result
      BY <1>1, <1>5 DEF AnswerRefusal, At, Good, CallShape, Deciding
    <2>2. CASE v.encrypt /\ Usable(prev, now)
      <3>1. prev.effective \in ManifestRecord
        BY <1>1, <2>2 DEF Usable, CallState, PeerView
      <3>2. ReturnCached(c, prev.effective)
        BY <1>5, <2>2 DEF AnswerRefusal
      <3> QED
        BY <2>1, <3>1, <3>2, ReturnCachedMoves, LocalStep DEF At
    <2>3. CASE /\ ~(v.encrypt /\ Usable(prev, now))
               /\ Ends(c, call[c].res.manifest, "none")
      <3>1. call[c].res.manifest \in Manifests
        BY <2>1 DEF Result
      <3>2. CallMoves(c)
        BY <1>2, <2>3, <3>1, EndsMoves
      <3> QED
        BY <2>1, <3>2, LocalStep
    <2>4. CASE ~(v.encrypt /\ Usable(prev, now)) /\ ReturnError(c, "required")
      BY <1>2, <2>1, <2>4, ReturnErrorMoves, LocalStep DEF At
    <2> QED
      BY <1>5, <2>2, <2>3, <2>4 DEF AnswerRefusal
  <1>6. CASE PolicyFailure(c)
    <2>1. call[c].err \in Errors
      BY <1>1 DEF CallState
    <2>2. /\ OwedKey(owed[c]) => call[c].err # "disabled"
          /\ "latch" \in owed[c] => Requires(cap)
          /\ OwedByPolicy(owed[c]) => call[c].policy = "require"
      BY <1>1, <1>6 DEF Inv, OwedHolds, Good, PolicyFailure, At
    <2> DEFINE e == IF Requires(cap) THEN "required" ELSE call[c].err
    <2>3. PICK x \in {"disabled", "required", e} :
             /\ Ends(c, None, x)
             /\ x = "disabled" => call[c].err = "disabled" \/ x = e
             /\ x # "required" => call[c].err = "disabled" \/ call[c].policy # "require"
      BY <1>6 DEF PolicyFailure
    <2>4. e \in Errors /\ ("latch" \in owed[c] => e \notin {"bare", "disabled"})
      BY <1>2, <2>1, <2>2 DEF OwedKey
    <2> HIDE DEF e
    <2>5. x \in Errors /\ (OwedKey(owed[c]) => x \notin {"bare", "disabled"})
      BY <1>2, <2>2, <2>3, <2>4 DEF OwedKey
    <2>6. CallMoves(c)
      BY <2>3, <2>5, EndsMoves
    <2> QED
      BY <1>6, <2>6, LocalStep DEF PolicyFailure
  <1> QED
    BY <1>3, <1>4, <1>5, <1>6

-----------------------------------------------------------------------------
(* Everyone else.                                                          *)

\* A step that touches neither a call nor the latch's history, and the
\* record only as a caller might, frees or keeps what each send is owed.
LEMMA OtherStepKeepsInv ==
  ASSUME Inv, UNCHANGED call,
         peer' \in Peer \cup {None}, Pinned(peer') => Pinned(peer),
         cap' \in Capability, cap'.ever = cap.ever,
         now' \in Nat, torn' \in BOOLEAN, faults' \in Nat, begun' \in Nat,
         owed' \in [Callers -> SUBSET {"latch", "require"}],
         \A c \in Callers :
            /\ owed'[c] \subseteq owed[c]
            /\ "latch" \in owed'[c] => ~cap'.disabled /\ ~Disabled(peer')
            /\ "require" \in owed'[c] => peer' # None /\ peer'.policy = "require"
  PROVE  Inv'
  <1>1. Typed'
    BY DEF Inv, Typed
  <1>2. PinImpliesLatch'
    BY DEF Inv, PinImpliesLatch
  <1>3. OwedHolds'
    BY DEF Inv, OwedHolds, Requires
  <1>4. ASSUME NEW c \in Callers
        PROVE  Good(call'[c], cap', owed'[c])
    BY DEF Inv, Good, OwedKey, OwedByPolicy
  <1> QED
    BY <1>1, <1>2, <1>3, <1>4 DEF Inv

LEMMA OthersKeepInv ==
  ASSUME Inv, Others
  PROVE  Inv'
  <1>1. Typed /\ cap \in Capability /\ peer \in Peer \cup {None}
    BY DEF Inv, Typed
  <1>2. \A c \in Callers :
           /\ "latch" \in owed[c] => ~cap.disabled /\ ~Disabled(peer)
           /\ "require" \in owed[c] => peer # None /\ peer.policy = "require"
    BY DEF Inv, OwedHolds, Requires
  <1>3. ASSUME NEW s \in Sightings, NEW at \in 1..now, ObserveSighting(s, at)
        PROVE  Inv'
    <2> DEFINE o == [source |-> s.source, id |-> s.id, fp |-> s.fp,
                     authority |-> s.authority, at |-> at, status |-> s.status]
    <2>1. o \in Observation
      BY <1>1, CallAssumption DEF Observation, Typed
    <2>2. peer' = PutObservation(peer, o)
      BY <1>3 DEF ObserveSighting
    <2> HIDE DEF o
    <2>3. /\ peer' \in Peer /\ (Pinned(peer') => Pinned(peer)) /\ (Disabled(peer') => Disabled(peer))
          /\ peer # None => peer' # None /\ peer'.policy = peer.policy
      BY <1>1, <2>1, <2>2, PutObservationType, RecordAssumption DEF Pinned, Disabled, IdentityOf, NoIdentity
    <2> QED
      BY <1>1, <1>2, <1>3, <2>3, OtherStepKeepsInv DEF ObserveSighting, Works, Calls, Typed
  <1>4. ASSUME NEW policy \in AdminPolicies, AdminSetPolicy(policy)
        PROVE  Inv'
    <2>1. policy \in Policies
      BY CallAssumption
    <2>2. /\ peer' \in Peer /\ (Pinned(peer') => Pinned(peer))
          /\ Disabled(peer') => policy = "disabled"
          /\ peer' # None /\ peer'.policy = policy
      BY <1>1, <1>4, <2>1, SetPolicyType, RecordAssumption
         DEF AdminSetPolicy, Pinned, Disabled, IdentityOf, NoIdentity
    <2>3. /\ owed' \in [Callers -> SUBSET {"latch", "require"}]
          /\ \A c \in Callers : /\ owed'[c] \subseteq owed[c]
                                /\ policy = "disabled" => owed'[c] = {}
                                /\ "require" \in owed'[c] => policy = "require"
      BY <1>1, <1>4, <2>1, CallAssumption DEF AdminSetPolicy, Typed, Policies
    <2> QED
      BY <1>1, <1>2, <1>4, <2>2, <2>3, OtherStepKeepsInv DEF AdminSetPolicy, Works, Calls, Typed
  <1>5. ASSUME NEW disabled \in BOOLEAN, AdminSetDowngrade(disabled)
        PROVE  Inv'
    <2>1. cap' \in Capability /\ cap'.ever = cap.ever /\ cap'.disabled = disabled
      BY <1>1, <1>5 DEF AdminSetDowngrade, Capability
    <2>2. /\ owed' \in [Callers -> SUBSET {"latch", "require"}]
          /\ \A c \in Callers : owed'[c] \subseteq owed[c] /\ ("latch" \in owed'[c] => ~disabled)
      BY <1>1, <1>5 DEF AdminSetDowngrade, Typed
    <2> QED
      BY <1>1, <1>2, <1>5, <2>1, <2>2, OtherStepKeepsInv
         DEF AdminSetDowngrade, Works, Calls, Typed
  <1>6. CASE AdminForget
    <2>1. /\ peer' \in Peer \cup {None}
          /\ Pinned(peer') => Pinned(peer)
          /\ Disabled(peer') => Disabled(peer)
          /\ peer # None /\ peer.policy = "require" => peer' # None /\ peer'.policy = "require"
      BY <1>1, <1>6, ForgetPeerType, ForgetPeerKeeps DEF AdminForget, Pinned, Disabled, IdentityOf
    <2> QED
      BY <1>1, <1>2, <1>6, <2>1, OtherStepKeepsInv DEF AdminForget, Works, Calls, Typed
  <1>7. CASE Corrupt
    <2>1. peer \in Peer /\ peer.effective \in ManifestRecord
      BY <1>1, <1>7 DEF Corrupt, Peer
    <2> DEFINE rec == [peer.effective EXCEPT !.intact = FALSE]
    <2>2. rec \in ManifestRecord
      BY <2>1 DEF ManifestRecord
    <2>3. peer' = [peer EXCEPT !.effective = rec]
      BY <1>7, <2>1 DEF Corrupt, Peer
    <2> HIDE DEF rec
    <2>4. peer' \in Peer /\ peer'.identity = peer.identity /\ peer'.policy = peer.policy
      BY <2>1, <2>2, <2>3 DEF Peer
    <2>5. peer' # None
      BY <2>4, RecordAssumption
    <2> QED
      BY <1>1, <1>2, <1>7, <2>4, <2>5, OtherStepKeepsInv
         DEF Corrupt, Breaks, Calls, Typed, Pinned, Disabled
  <1>8. CASE Tick
    BY <1>1, <1>2, <1>8, OtherStepKeepsInv DEF Tick, Typed
  <1> QED
    BY <1>3, <1>4, <1>5, <1>6, <1>7, <1>8 DEF Others

LEMMA BeginKeepsInv ==
  ASSUME Inv, NEW c \in Callers, NEW op \in Ops, Begin(c, op)
  PROVE  Inv'
  <1> DEFINE k == [Idle EXCEPT !.op = op, !.pc = Entry(op)]
             ow == {o \in {"latch", "require"} :
                      /\ op \in Sends
                      /\ ~Disabled(peer)
                      /\ o = "latch" => Requires(cap)
                      /\ o = "require" => peer # None /\ peer.policy = "require"}
  <1>1. op \in Operations
    BY CallAssumption
  <1>2. k \in CallState
    <2>1. Entry(op) \in PCs
      BY DEF Entry, PCs
    <2> QED
      BY <1>1, <2>1, IdleType DEF CallState
  <1>3. k.pc = Entry(op) /\ k.op = op /\ k.err = "none"
    BY DEF Idle
  <1>4. call' = [call EXCEPT ![c] = k] /\ owed' = [owed EXCEPT ![c] = ow]
    BY DEF Begin
  <1>5. ow \in SUBSET {"latch", "require"}
    OBVIOUS
  <1>6. /\ ow # {} => op \in Sends
        /\ "latch" \in ow => Requires(cap) /\ ~Disabled(peer)
        /\ "require" \in ow => peer # None /\ peer.policy = "require"
    OBVIOUS
  <1>7. Good(k, cap, ow)
    <2> HIDE DEF k, ow
    <2>1. Entry(op) \in {"lookup", "check", "manual", "route"}
          /\ (Entry(op) = "manual" => op = "add")
      BY DEF Entry
    <2>2. op \in Sends => Entry(op) = "lookup"
      BY DEF Entry
    <2> QED
      BY <1>3, <1>6, <2>1, <2>2 DEF Good, CallShape, Deciding, Walking, OwedKey, OwedByPolicy
  <1> HIDE DEF k, ow
  <1>8. Typed'
    BY <1>2, <1>4, <1>5 DEF Inv, Typed, Begin
  <1>9. PinImpliesLatch'
    BY DEF Inv, PinImpliesLatch, Begin
  <1>10. OwedHolds'
    BY <1>4, <1>6 DEF Inv, Typed, OwedHolds, Begin
  <1>11. ASSUME NEW x \in Callers
         PROVE  Good(call'[x], cap', owed'[x])
    BY <1>4, <1>7 DEF Inv, Typed, Begin
  <1> QED
    BY <1>8, <1>9, <1>10, <1>11 DEF Inv

LEMMA FinishKeepsInv ==
  ASSUME Inv, NEW c \in Callers, Finish(c)
  PROVE  Inv'
  <1>1. Good(Idle, cap, {})
    BY DEF Good, CallShape, Idle, Deciding, Walking, OwedKey, OwedByPolicy
  <1>2. call' = [call EXCEPT ![c] = Idle] /\ owed' = [owed EXCEPT ![c] = {}]
    BY DEF Finish
  <1>3. Typed'
    BY <1>2, IdleType DEF Inv, Typed, Finish
  <1>4. PinImpliesLatch'
    BY DEF Inv, PinImpliesLatch, Finish
  <1>5. OwedHolds'
    BY <1>2 DEF Inv, Typed, OwedHolds, Finish
  <1>6. ASSUME NEW x \in Callers
        PROVE  Good(call'[x], cap', owed'[x])
    BY <1>1, <1>2 DEF Inv, Typed, Finish
  <1> QED
    BY <1>3, <1>4, <1>5, <1>6 DEF Inv

-----------------------------------------------------------------------------

\* A record that a previous run left behind is a record.
LEMMA StoredPeerType ==
  ASSUME NEW f \in Fingerprints, NEW key \in Fingerprints \cup {None}
  PROVE  /\ StoredPeer(f, key) \in Peer /\ StoredPeer(f, key) # None
         /\ StoredPeer(f, key).identity.status = "pinned"
         /\ StoredPeer(f, key).identity.fp = f
  <1> DEFINE st == [NoIdentity EXCEPT !.status = "pinned", !.fp = f, !.key = key]
  <1>1. st \in IdentityState /\ st.status = "pinned" /\ st.fp = f
    BY DEF NoIdentity, IdentityState
  <1>2. StoredPeer(f, key) = [New EXCEPT !.identity = st]
    BY DEF StoredPeer
  <1> HIDE DEF st
  <1>3. StoredPeer(f, key) \in Peer /\ StoredPeer(f, key).identity = st
    BY <1>1, <1>2, NewType DEF Peer
  <1> QED
    BY <1>1, <1>3, RecordAssumption

LEMMA InitInv == Init => Inv
  <1> SUFFICES ASSUME Init PROVE Inv
    OBVIOUS
  <1>1. peer \in Peer \cup {None} /\ cap \in Capability /\ (Pinned(peer) => cap.ever)
    <2>1. CASE peer = None /\ cap = [ever |-> FALSE, disabled |-> FALSE]
      BY <2>1 DEF Capability, Pinned
    <2>2. CASE /\ \E f \in Fingerprints : peer \in {StoredPeer(f, None), StoredPeer(f, f)}
               /\ cap = [ever |-> TRUE, disabled |-> FALSE]
      <3>1. PICK f \in Fingerprints : peer \in {StoredPeer(f, None), StoredPeer(f, f)}
        BY <2>2
      <3>2. PICK key \in Fingerprints \cup {None} : peer = StoredPeer(f, key)
        BY <3>1
      <3>3. peer \in Peer
        BY <3>2, StoredPeerType
      <3> QED
        BY <2>2, <3>3 DEF Capability
    <2> QED
      BY <2>1, <2>2 DEF Init
  <1>2. Typed
    BY <1>1, IdleType DEF Init, Typed
  <1>3. Good(Idle, cap, {})
    BY DEF Good, CallShape, Idle, Deciding, Walking, OwedKey, OwedByPolicy
  <1> QED
    BY <1>1, <1>2, <1>3 DEF Init, Inv, PinImpliesLatch, OwedHolds

LEMMA NextInv == Inv /\ [Next]_vars => Inv'
  <1> SUFFICES ASSUME Inv, [Next]_vars PROVE Inv'
    OBVIOUS
  <1>1. ASSUME NEW c \in Callers, NEW op \in Ops, Begin(c, op)
        PROVE  Inv'
    BY <1>1, BeginKeepsInv
  <1>2. ASSUME NEW c \in Callers, AddManual(c) \/ Outbound(c)
        PROVE  Inv'
    <2>1. CallerStep(c)
      BY <1>2, LookupSteps, FetchSteps, DecideSteps, AcceptSteps, ChainSteps, RefusalSteps
         DEF Outbound
    <2> QED
      BY <2>1, CallerStepKeepsInv
  <1>3. ASSUME NEW c \in Callers, Finish(c)
        PROVE  Inv'
    BY <1>3, FinishKeepsInv
  <1>4. CASE Others
    BY <1>4, OthersKeepInv
  <1>5. CASE UNCHANGED vars
    BY <1>5, Zenon DEF vars, Inv, Typed, PinImpliesLatch, OwedHolds
  <1> QED
    BY <1>1, <1>2, <1>3, <1>4, <1>5 DEF Next

LEMMA SpecInv == Spec => []Inv
  BY InitInv, NextInv, PTL DEF Spec

\* service.go: every stored record and every local a caller dereferences is of
\* its type, for any authority, administrator and store failures.
THEOREM TypeCorrect == Spec => []TypeOK
  <1>1. Inv => TypeOK
    BY DEF Inv, Typed, TypeOK, Good
  <1> QED
    BY <1>1, SpecInv, PTL

\* service.go:645, a pin never exists without the downgrade latch, whatever
\* store call fails and however the callers interleave.
THEOREM PinNeedsLatch == Spec => []PinImpliesLatch
  <1>1. Inv => PinImpliesLatch
    BY DEF Inv
  <1> QED
    BY <1>1, SpecInv, PTL

\* service.go policyFailure: a send that began while the latch required
\* encryption never ends in plaintext, for any number of concurrent callers
\* and failures, unless an administrator loosened the domain meanwhile.
THEOREM NoPlaintextBehindLatch == Spec => []LatchedNeverPlaintext
  <1>1. Inv => LatchedNeverPlaintext
    BY DEF Inv, Good, At, LatchedNeverPlaintext, OwedKey
  <1> QED
    BY <1>1, SpecInv, PTL

\* mailkey.go PolicyRequire: a send that began under the require policy never
\* ends in plaintext either, latched or not, for any number of concurrent
\* callers and failed writes, as long as the record itself can be read.
THEOREM NoPlaintextUnderRequire ==
  ASSUME "read" \notin FaultKinds
  PROVE  Spec => []RequireNeverPlaintext
  <1>1. Inv => RequireNeverPlaintext
    BY DEF Inv, Good, At, RequireNeverPlaintext, OwedKey, OwedByPolicy
  <1> QED
    BY <1>1, SpecInv, PTL

-----------------------------------------------------------------------------
(* The views.                                                              *)

\* A peer shown as "ok" is pinned and corroborated, its key is in force, and
\* the next manifest its pinned identity signs is accepted without a remark,
\* unless it breaks the order of issue (health.go Assess, identity.go
\* DecideIdentity).
THEOREM HealthyIsAnchored ==
  ASSUME NEW p \in Peer, NEW t \in Nat, NEW r \in Result, NEW usable \in BOOLEAN,
         Assess(p, t).level = "ok",
         r.proof = p.identity.fp, r.proof \in Fingerprints,
         CheckReplay(p.identity, r) = None
  PROVE  /\ Pinned(p)
         /\ p.identity.dnsFP = p.identity.fp
         /\ p.effective = None \/ Unexpired(p, t)
         /\ DecideIdentity(p.identity, r, usable) =
              [encrypt |-> TRUE, accept |-> TRUE, pin |-> p.identity.fp,
               status |-> "pinned", reason |-> "pinned/valid-proof-from-pin"]
  <1> DEFINE found == Findings(p, t)
  <1>1. p # None
    BY DEF Assess
  <1>2. LevelOf(found) = "ok"
    BY <1>1 DEF Assess
  <1>3. /\ found \cap {"unstable", "stale", "contested", "unreachable"} = {}
        /\ found \cap {"unsigned", "unpinned", "dns-incoherent", "dns-absent"} = {}
    <2> HIDE DEF found
    <2> QED
      BY <1>2 DEF LevelOf
  <1>4. AnchorFindings(p.identity) \subseteq found /\ DNSFindings(p.identity) \subseteq found
    BY DEF Findings
  <1>5. p.effective = None \/ Unexpired(p, t)
    <2>1. Where(p.effective # None /\ ~Unexpired(p, t), "stale") \subseteq found
      BY DEF Findings
    <2> HIDE DEF found
    <2> QED
      BY <2>1, <1>3 DEF Where
  <1> HIDE DEF found
  <1>6. p.identity.status = "pinned"
    BY <1>3, <1>4 DEF AnchorFindings
  <1>7. p.identity.dnsFP # None /\ p.identity.dnsFP = p.identity.fp
    BY <1>3, <1>4, <1>6 DEF DNSFindings, Where
  <1>8. Pinned(p)
    BY <1>1, <1>6 DEF Pinned
  <1>9. DecideIdentity(p.identity, r, usable) =
          [encrypt |-> TRUE, accept |-> TRUE, pin |-> p.identity.fp,
           status |-> "pinned", reason |-> "pinned/valid-proof-from-pin"]
    BY <1>6, <1>7 DEF DecideIdentity, AfterIdentityAuthorization
  <1> QED
    BY <1>5, <1>7, <1>8, <1>9

\* Nothing about identity, DNS or the stability of the authority is reported as
\* held mail or as mail sent in the clear (health.go "Level says how much is
\* wrong, DeliveryAffected says whether anything is actually held").
THEOREM DiagnosticsHoldNothing ==
  ASSUME NEW p, NEW q, NEW t, p # None, q # None,
         p.effective = q.effective, p.issues = q.issues
  PROVE  /\ Assess(p, t).deliveryAffected = Assess(q, t).deliveryAffected
         /\ Assess(p, t).encrypting = Assess(q, t).encrypting
  <1>1. ASSUME NEW s
        PROVE  Findings(s, t) \cap AffectsDelivery = MailFindings(s) \cap AffectsDelivery
    <2>1. (AnchorFindings(s.identity) \cup DNSFindings(s.identity)) \cap AffectsDelivery = {}
      BY DEF AnchorFindings, DNSFindings, Where, AffectsDelivery
    <2>2. Where(s.unstable, "unstable") \cap AffectsDelivery = {}
      BY DEF Where, AffectsDelivery
    <2>3. Where(s.effective # None /\ ~Unexpired(s, t), "stale") \cap AffectsDelivery = {}
      BY DEF Where, AffectsDelivery
    <2> QED
      BY <2>1, <2>2, <2>3 DEF Findings
  <1>2. MailFindings(p) = MailFindings(q)
    BY DEF MailFindings
  <1>3. Unexpired(p, t) = Unexpired(q, t)
    BY DEF Unexpired
  <1>4. Findings(p, t) \cap AffectsDelivery = Findings(q, t) \cap AffectsDelivery
    BY <1>1, <1>2
  <1>5. ASSUME NEW s, s # None
        PROVE  /\ Assess(s, t).deliveryAffected = (Findings(s, t) \cap AffectsDelivery # {})
               /\ Assess(s, t).encrypting =
                    (Findings(s, t) \cap AffectsDelivery = {} /\ Unexpired(s, t))
    BY <1>5 DEF Assess
  <1> QED
    BY <1>3, <1>4, <1>5

\* "Encrypting" is what a send would find: a usable cached key, for any policy
\* but "disabled", which Assess does not ask about (health.go, state.go Usable).
THEOREM EncryptingIsUsable ==
  ASSUME NEW p, NEW t, p # None, p.policy # "disabled",
         ~Assess(p, t).deliveryAffected
  PROVE  Assess(p, t).encrypting <=> Usable(p, t)
  <1>1. Assess(p, t).encrypting = (~Assess(p, t).deliveryAffected /\ Unexpired(p, t))
    BY DEF Assess
  <1> QED
    BY <1>1 DEF Unexpired, Usable

\* A record that may be dropped has no key a send could use, is one the next send
\* asks the authority about anyway, would go whole if an administrator forgot it,
\* and, unless it is pinned, does not even say whom to ask (state.go Prunable).
THEOREM PruningLosesNoKey ==
  ASSUME NEW p, NEW t, NEW ttl, Prunable(p, t, ttl)
  PROVE  /\ ~Usable(p, t)
         /\ NeedsRefresh(p, t) /\ NeedsRefresh(None, t)
         /\ ForgetPeer(p) = None
         /\ ~Pinned(p) => AuthorityHint(p) = AuthorityHint(None)
  BY DEF Prunable, Usable, NeedsRefresh, ForgetPeer, Pinned, AuthorityHint

\* An identity whose check found nothing blocking is one that first contact
\* accepts and encrypts to: with its pin, if DNS agrees or says nothing, and
\* without one if the sender saw the disagreement the check reported
\* (selfcheck.go SelfCheck, identity.go DecideIdentity).
THEOREM UnblockedIsAccepted ==
  ASSUME NEW in \in SelfCheckInput, NEW st \in IdentityState, NEW r \in Result,
         NEW usable \in BOOLEAN,
         ~Blocked(SelfCheck(in)),
         st.status # "pinned", st.dnsFP \in {None, in.dns},
         r.proof = in.external, CheckReplay(st, r) = None
  PROVE  LET v == DecideIdentity(st, r, usable) IN
         /\ v.encrypt /\ v.accept
         /\ "dns-mismatch" \notin SelfCheck(in) \/ st.dnsFP = None =>
              v.pin = in.served /\ v.status = "pinned"
         /\ "dns-mismatch" \in SelfCheck(in) /\ st.dnsFP # None =>
              v.pin = None /\ v.status = "contested"
  <1>1. /\ in.served # None /\ in.external = in.served
        /\ in.configured \in {None, in.served}
    BY DEF Blocked, Blocking, SelfCheck, Where
  <1>2. in.external \in Fingerprints
    BY <1>1 DEF SelfCheckInput
  <1>3. "dns-mismatch" \in SelfCheck(in) <=> in.dns \notin {None, in.served}
    BY <1>1 DEF SelfCheck, Where
  <1>4. r.proof \in Fingerprints /\ r.proof # None /\ r.proof # Invalid /\ r.proof = in.served
    BY <1>1, <1>2, NoneAssumption
  <1>5. CASE st.dnsFP \notin {None, r.proof}
    <2>1. DecideIdentity(st, r, usable) =
            [encrypt |-> TRUE, accept |-> TRUE, pin |-> None,
             status |-> "contested", reason |-> "unpinned/dns-disagrees"]
      BY <1>4, <1>5 DEF DecideIdentity, AfterIdentityAuthorization
    <2> QED
      BY <2>1, <1>3, <1>4, <1>5
  <1>6. CASE st.dnsFP \in {None, r.proof}
    <2>1. DecideIdentity(st, r, usable) =
            [encrypt |-> TRUE, accept |-> TRUE, pin |-> r.proof,
             status |-> "pinned", reason |-> "unpinned/pin-established"]
      BY <1>4, <1>6 DEF DecideIdentity, AfterIdentityAuthorization
    <2>2. st.dnsFP # None => "dns-mismatch" \notin SelfCheck(in)
      BY <1>3, <1>4, <1>6
    <2> QED
      BY <2>1, <2>2, <1>4
  <1> QED
    BY <1>5, <1>6

\* No DNS answer, validated or not, blocks an activation (selfcheck.go Blocking,
\* "would hand anyone who can disturb DNS a veto").
THEOREM DNSHasNoVeto ==
  ASSUME NEW in, NEW other,
         other.configured = in.configured, other.served = in.served,
         other.external = in.external
  PROVE  Blocked(SelfCheck(other)) <=> Blocked(SelfCheck(in))
  BY DEF Blocked, Blocking, SelfCheck, Where
=============================================================================
