--------------------------- MODULE PeerTrustProofs ---------------------------
(***************************************************************************)
(* Theorems about the trust PeerService keeps in one domain: the pin, the  *)
(* manifest in effect and the issue time last verified.                    *)
(*                                                                         *)
(* The decisive fact is a gap.  A caller reads the record (prev), decides, *)
(* and writes the identity several store calls later.  What it decided is  *)
(* right only if the pin it read is still the pin there is (Bound), which  *)
(* holds in two settings and no other: one caller at a time, or a domain   *)
(* already pinned whose pin can neither move nor be forgotten.  Elsewhere  *)
(* the model checker finds the pin lost.  A read that fails makes prev     *)
(* look like a domain never seen, so reads are assumed to work.            *)
(***************************************************************************)
EXTENDS PeerServiceProofs

ReadsWork == "read" \notin FaultKinds
Forgets == "forget" \in AdminActs

\* An accepted manifest that follows a written identity is always installed.
AlwaysInstalls == "write" \notin FaultKinds /\ "disabled" \notin AdminPolicies

\* The effective manifest and its signer, as a set of at most one pair.
Shown(p) ==
    IF EffectiveOf(p) = None THEN {} ELSE {<<p.effective.manifest, p.effective.signer>>}

\* Trust and the manifest in effect, as far as the properties tell records apart.
SameTrust(p, q) ==
    /\ IdentityOf(q).status = IdentityOf(p).status
    /\ IdentityOf(q).fp = IdentityOf(p).fp
    /\ IdentityOf(q).issued = IdentityOf(p).issued
    /\ Shown(q) = Shown(p)
    /\ Disabled(q) => Disabled(p) \/ "disabled" \in AdminPolicies

-----------------------------------------------------------------------------
(* Every step, as what it does to trust and to the locals that matter to it. *)

\* The points where a caller holds a route, a response or a verdict on it that
\* it may still write.
Tracked == {"fetch", "decide", "latch", "identity", "chain", "move", "install", "move-install"}

Only(c) == \A x \in Callers : x # c => call'[x] = call[x]

SameLocals(c) ==
    /\ call'[c].res = call[c].res /\ call'[c].prev = call[c].prev
    /\ call'[c].verdict = call[c].verdict /\ call'[c].route = call[c].route

GoesTo(c, pc) == Only(c) /\ call'[c].pc = pc /\ SameLocals(c)

\* A caller is done with its response, or never had one.
Exits(c) == Only(c) /\ call'[c].pc \notin Tracked

Leaves(c) ==
    /\ Exits(c)
    /\ SameTrust(peer, peer')
    /\ call[c].pc \in {"install", "move-install"} => "write" \in FaultKinds \/ Disabled(peer)

Routes(c) ==
    /\ call[c].pc = "route"
    /\ Only(c) /\ call'[c].pc = "fetch"
    /\ call'[c].route # None => Pinned(peer)
    /\ UNCHANGED peer

Fetches(c) ==
    /\ call[c].pc = "fetch"
    /\ Only(c) /\ call'[c].pc = "decide" /\ call'[c].route = call[c].route
    /\ UNCHANGED peer

Judges(c) ==
    /\ call[c].pc = "decide"
    /\ Only(c) /\ call'[c].pc = "latch" /\ call'[c].route = call[c].route
    /\ call'[c].res = call[c].res
    /\ call'[c].prev = Snapshot(peer)
    /\ \E u \in BOOLEAN : call'[c].verdict = DecideIdentity(IdentityOf(peer), call[c].res, u)
    /\ UNCHANGED peer

Latches(c) == call[c].pc = "latch" /\ GoesTo(c, "identity") /\ UNCHANGED peer

Persists(c) ==
    /\ call[c].pc = "identity"
    /\ peer' = SetIdentity(peer, ApplyIdentity(IdentityOf(call[c].prev), call[c].verdict,
                                               call[c].res))
    /\ GoesTo(c, AfterIdentity(call[c].verdict))

Places(c) ==
    /\ call[c].pc \in {"install", "move-install"}
    /\ ~Disabled(peer)
    /\ peer' = Install(Upsert(peer), call[c].res, now)
    /\ Exits(c)

Arrives(c) ==
    /\ call[c].pc = "chain"
    /\ <<call[c].prev.identity.fp, call[c].res.proof>> \in Succession
    /\ GoesTo(c, "move") /\ UNCHANGED peer

Moves(c) ==
    /\ call[c].pc = "move"
    /\ peer' = SetIdentity(peer, MovePin(call[c].prev.identity, call[c].res.proof, call[c].res))
    /\ GoesTo(c, "move-install")

TrustMoves(c) ==
    \/ Leaves(c) \/ Routes(c) \/ Fetches(c) \/ Judges(c) \/ Latches(c)
    \/ Persists(c) \/ Places(c) \/ Arrives(c) \/ Moves(c)

\* The record is torn from a call that may still write it, or from none.
Forgotten ==
    /\ UNCHANGED call /\ Forgets /\ peer' = ForgetPeer(peer)
    /\ ~torn' => \A c \in Callers : ~Busy(c)

TrustStep ==
    \/ UNCHANGED <<call, torn>> /\ SameTrust(peer, peer')
    \/ Forgotten
    \/ UNCHANGED torn /\ \E c \in Callers : TrustMoves(c)

\* A pin is a status, of a record or of a snapshot of one.
LEMMA PinnedIdentity ==
  ASSUME NEW p
  PROVE  Pinned(p) <=> IdentityOf(p).status = "pinned"
  BY DEF Pinned, IdentityOf, NoIdentity

LEMMA SnapshotIdentity ==
  ASSUME NEW p \in Peer \cup {None}
  PROVE  IdentityOf(Snapshot(p)) = IdentityOf(p)
  BY ViewAssumption DEF Snapshot, IdentityOf, PeerView, Peer

\* The ways a call goes on.
LEMMA GotoGoes ==
  ASSUME Inv, NEW c \in Callers, NEW pc, Goto(c, pc)
  PROVE  GoesTo(c, pc)
  BY DEF Inv, Typed, CallState, Goto, GoesTo, Only, SameLocals

LEMMA ReturnExits ==
  ASSUME Inv, NEW c \in Callers, NEW m, NEW e, NEW rec,
         Ends(c, m, e) \/ ToPolicy(c, e) \/ ReturnStored(c, rec) \/ ReturnError(c, e)
            \/ ReturnCached(c, rec)
  PROVE  Exits(c)
  <1>1. ASSUME NEW n, NEW x, Ends(c, n, x) \/ ToPolicy(c, x)
        PROVE  Exits(c)
    <2>1. call \in [Callers -> CallState]
      BY DEF Inv, Typed
    <2>2. CASE Ends(c, n, x)
      <3> DEFINE k == [Idle EXCEPT !.pc = "done", !.op = call[c].op, !.got = n, !.err = x]
      <3>1. call' = [call EXCEPT ![c] = k] /\ k.pc = "done"
        BY <2>2 DEF Ends, Idle
      <3> QED
        BY <2>1, <3>1 DEF Exits, Only, Tracked
    <2>3. CASE ToPolicy(c, x)
      <3> DEFINE k == [Idle EXCEPT !.pc = "policy", !.op = call[c].op,
                                   !.policy = call[c].policy, !.err = x]
      <3>1. call' = [call EXCEPT ![c] = k] /\ k.pc = "policy"
        BY <2>3 DEF ToPolicy, Idle
      <3> QED
        BY <2>1, <3>1 DEF Exits, Only, Tracked
    <2> QED
      BY <1>1, <2>2, <2>3
  <1>2. ASSUME NEW r, ReturnStored(c, r)
        PROVE  Exits(c)
    BY <1>1, <1>2 DEF ReturnStored
  <1>3. ASSUME NEW x, ReturnError(c, x)
        PROVE  Exits(c)
    BY <1>1, <1>2, <1>3 DEF ReturnError
  <1> QED
    BY <1>1, <1>2, <1>3 DEF ReturnCached

\* The mutations that leave trust alone.
LEMMA SameTrustBy ==
  ASSUME NEW p \in Peer \cup {None}, NEW q \in Peer,
         q.identity.status = IdentityOf(p).status, q.identity.fp = IdentityOf(p).fp,
         q.identity.issued = IdentityOf(p).issued, q.effective = EffectiveOf(p),
         Disabled(q) => Disabled(p) \/ "disabled" \in AdminPolicies
  PROVE  SameTrust(p, q)
  <1>1. q # None
    BY RecordAssumption
  <1>2. IdentityOf(q) = q.identity /\ EffectiveOf(q) = q.effective
    BY <1>1 DEF IdentityOf, EffectiveOf
  <1>3. EffectiveOf(p) # None => p.effective = EffectiveOf(p)
    BY DEF EffectiveOf
  <1>4. Shown(q) = Shown(p)
    BY <1>2, <1>3 DEF Shown
  <1> QED
    BY <1>2, <1>4 DEF SameTrust

LEMMA SameTrustSame ==
  ASSUME UNCHANGED peer
  PROVE  SameTrust(peer, peer')
  BY DEF SameTrust

LEMMA MutationsSameTrust ==
  ASSUME NEW p \in Peer \cup {None}, NEW code \in IssueCodes, NEW codes, NEW t, NEW q,
         q \in {RecordFailure(p, t), RecordIssue(p, code), ClearIssues(p, codes)}
  PROVE  SameTrust(p, q)
  <1>1. /\ q \in Peer /\ q.identity = IdentityOf(p) /\ q.effective = EffectiveOf(p)
        /\ q.policy = IF p = None THEN "auto" ELSE p.policy
    <2>1. CASE q = RecordFailure(p, t)
      BY <2>1, RecordFailureType
    <2>2. CASE q = RecordIssue(p, code)
      BY <2>2, IssueType
    <2>3. CASE q = ClearIssues(p, codes)
      BY <2>3, IssueType
    <2> QED
      BY <2>1, <2>2, <2>3
  <1> QED
    BY <1>1, SameTrustBy DEF Disabled

LEMMA ObservationSameTrust ==
  ASSUME NEW p \in Peer \cup {None}, NEW o \in Observation
  PROVE  SameTrust(p, PutObservation(p, o))
  BY PutObservationType, SameTrustBy DEF Disabled

\* One store call of a leaving step.
LEMMA LeavesBy ==
  ASSUME Inv, NEW c \in Callers, Exits(c), call[c].pc \notin {"install", "move-install"},
         NEW code \in IssueCodes, NEW codes, NEW t,
         \/ UNCHANGED peer
         \/ peer' \in {RecordFailure(peer, t), RecordIssue(peer, code), ClearIssues(peer, codes)}
  PROVE  Leaves(c)
  BY SameTrustSame, MutationsSameTrust DEF Inv, Typed, Leaves

LEMMA GotoExits ==
  ASSUME Inv, NEW c \in Callers, NEW pc, pc \notin Tracked, Goto(c, pc)
  PROVE  Exits(c)
  BY GotoGoes DEF GoesTo, Exits

\* The steps that never reach a decision the caller may still write.
LEMMA LeavingSteps ==
  ASSUME Inv, ReadsWork, NEW c \in Callers,
         \/ LookupFails(c) \/ LookupDisabled(c) \/ LookupCached(c) \/ LookupMisses(c)
         \/ CheckDisabled(c) \/ CheckCached(c) \/ CheckMisses(c)
         \/ FetchFails(c) \/ RecordFetchFailure(c) \/ RaiseRefreshFailed(c)
         \/ ClearAfterAccept(c) \/ ClearAfterMove(c)
         \/ ChainUnhelpful(c) \/ ChainBroken(c) \/ ChainRevoked(c) \/ RaiseFromChain(c)
         \/ RecordRefusal(c) \/ RaiseRefusal(c) \/ AnswerRefusal(c) \/ PolicyFailure(c)
  PROVE  Leaves(c)
  <1>1. {"refresh-failed", "signer-changed", "revoked"} \subseteq IssueCodes
    BY DEF IssueCodes
  <1>2. \A reason : IssueOf(reason) \in IssueCodes
    BY DEF IssueOf, IssueCodes
  <1>3. {"route", "failed", "failed-issue", "refuse", "broken", "revoked", "refuse-issue",
         "answer", "check", "policy"} \cap Tracked = {}
    BY DEF Tracked
  <1>4. CASE LookupFails(c) \/ LookupDisabled(c)
    BY <1>1, <1>4, ReturnExits, LeavesBy DEF LookupFails, LookupDisabled, Local, At
  <1>5. CASE LookupCached(c)
    <2>1. Exits(c)
      <3>1. CASE peer.effective.intact
        BY <1>5, <3>1, ReturnExits DEF LookupCached
      <3>2. CASE ~peer.effective.intact
        BY <1>3, <1>5, <3>2 DEF LookupCached, Inv, Typed, CallState, Exits, Only
      <3> QED
        BY <3>1, <3>2
    <2> QED
      BY <1>1, <1>5, <2>1, LeavesBy DEF LookupCached, Local, At
  <1>6. CASE LookupMisses(c)
    <2>1. Exits(c)
      BY <1>3, <1>6 DEF LookupMisses, Inv, Typed, CallState, Exits, Only
    <2> QED
      BY <1>1, <1>6, <2>1, LeavesBy DEF LookupMisses, Local, At
  <1>7. CASE CheckDisabled(c) \/ CheckCached(c)
    <2>1. Exits(c)
      BY <1>7, ReturnExits DEF CheckDisabled, CheckCached
    <2> QED
      BY <1>1, <1>7, <2>1, LeavesBy DEF CheckDisabled, CheckCached, Local, At
  <1>8. CASE CheckMisses(c) \/ FetchFails(c) \/ ChainUnhelpful(c) \/ ChainBroken(c) \/ ChainRevoked(c)
    <2>1. Exits(c)
      BY <1>3, <1>8, GotoExits DEF CheckMisses, FetchFails, ChainUnhelpful, ChainBroken, ChainRevoked
    <2> QED
      BY <1>1, <1>8, <2>1, LeavesBy
         DEF CheckMisses, FetchFails, ChainUnhelpful, ChainBroken, ChainRevoked, Local, At
  <1>9. CASE RecordFetchFailure(c) \/ RaiseRefreshFailed(c)
    <2>1. Exits(c)
      BY <1>3, <1>9, ReturnExits, GotoExits DEF RecordFetchFailure, RaiseRefreshFailed
    <2> QED
      BY <1>1, <1>9, <2>1, LeavesBy DEF RecordFetchFailure, RaiseRefreshFailed, At
  <1>10. CASE ClearAfterAccept(c) \/ ClearAfterMove(c)
    <2>1. Exits(c)
      BY <1>10, ReturnExits DEF ClearAfterAccept, ClearAfterMove
    <2>2. \E codes : peer' = ClearIssues(peer, codes)
      BY <1>10 DEF ClearAfterAccept, ClearAfterMove
    <2> QED
      BY <1>1, <1>10, <2>1, <2>2, LeavesBy DEF ClearAfterAccept, ClearAfterMove, At
  <1>11. CASE RaiseFromChain(c)
    <2>1. Exits(c)
      BY <1>3, <1>11, GotoExits DEF RaiseFromChain
    <2>2. \E code \in IssueCodes : UNCHANGED peer \/ peer' = RecordIssue(peer, code)
      BY <1>1, <1>11 DEF RaiseFromChain
    <2> QED
      BY <1>11, <2>1, <2>2, LeavesBy DEF RaiseFromChain, At
  <1>12. CASE RecordRefusal(c)
    <2>1. Exits(c)
      BY <1>3, <1>12, GotoExits DEF RecordRefusal
    <2> QED
      BY <1>1, <1>12, <2>1, LeavesBy DEF RecordRefusal, At
  <1>13. CASE RaiseRefusal(c)
    <2>1. Exits(c)
      BY <1>3, <1>13, GotoExits DEF RaiseRefusal
    <2> QED
      BY <1>2, <1>13, <2>1, LeavesBy DEF RaiseRefusal, At
  <1>14. CASE AnswerRefusal(c)
    <2>1. Exits(c)
      BY <1>14, ReturnExits DEF AnswerRefusal
    <2> QED
      BY <1>1, <1>14, <2>1, LeavesBy DEF AnswerRefusal, Local, At
  <1>15. CASE PolicyFailure(c)
    <2>1. Exits(c)
      BY <1>15, ReturnExits DEF PolicyFailure
    <2> QED
      BY <1>1, <1>15, <2>1, LeavesBy DEF PolicyFailure, Local, At
  <1> QED
    BY <1>4, <1>5, <1>6, <1>7, <1>8, <1>9, <1>10, <1>11, <1>12, <1>13, <1>14, <1>15

\* The steps along which a response is fetched, judged and written.
LEMMA WritingSteps ==
  ASSUME Inv, ReadsWork, NEW c \in Callers,
         \/ AddManual(c) \/ Route(c) \/ (\E a \in Answers : FetchAnswers(c, a))
         \/ Decide(c) \/ MarkValidated(c) \/ PersistIdentity(c)
         \/ InstallAccepted(c) \/ ChainArrives(c) \/ MoveThePin(c) \/ InstallMoved(c)
  PROVE  TrustMoves(c)
  <1>1. call[c] \in CallState /\ call \in [Callers -> CallState] /\ peer \in Peer \cup {None}
    BY DEF Inv, Typed
  <1>2. "signer-changed" \in IssueCodes
    BY DEF IssueCodes
  <1>3. CASE AddManual(c)
    <2>1. CASE Ends(c, None, "bare") /\ UNCHANGED peer
      <3>1. Leaves(c)
        BY <1>2, <1>3, <2>1, ReturnExits, LeavesBy DEF AddManual, At
      <3> QED
        BY <3>1 DEF TrustMoves
    <2> DEFINE o == [source |-> "manual", id |-> None, fp |-> None, authority |-> None,
                     at |-> now, status |-> "pending"]
    <2>2. CASE peer' = PutObservation(peer, o) /\ Goto(c, "route")
      <3>1. o \in Observation
        BY DEF Observation, Sources, ObservationStatuses, Inv, Typed
      <3> HIDE DEF o
      <3>2. SameTrust(peer, peer')
        BY <1>1, <2>2, <3>1, ObservationSameTrust
      <3>3. Exits(c)
        BY <2>2, GotoExits DEF Tracked
      <3> QED
        BY <1>3, <3>2, <3>3 DEF AddManual, At, Leaves, TrustMoves
    <2> QED
      BY <1>3, <2>1, <2>2 DEF AddManual
  <1>4. CASE Route(c)
    <2>1. /\ call' = [call EXCEPT ![c].pc = "fetch", ![c].route = AuthorityHint(peer)]
          /\ UNCHANGED peer
      BY <1>4 DEF Route, Breaks, ReadsWork, Local
    <2>2. AuthorityHint(peer) # None => Pinned(peer)
      BY DEF AuthorityHint
    <2>3. Only(c) /\ call'[c].pc = "fetch" /\ call'[c].route = AuthorityHint(peer)
      BY <1>1, <2>1 DEF CallState, Only
    <2> QED
      BY <1>4, <2>1, <2>2, <2>3 DEF Route, At, Routes, TrustMoves
  <1>5. ASSUME NEW a \in Answers, FetchAnswers(c, a)
        PROVE  Fetches(c)
    BY <1>1, <1>5 DEF FetchAnswers, At, Local, CallState, Only, Fetches
  <1>6. CASE Decide(c)
    <2>1. /\ At(c, "decide") /\ UNCHANGED peer
          /\ call' = [call EXCEPT
                ![c].pc = "latch",
                ![c].prev = Snapshot(peer),
                ![c].verdict = DecideIdentity(IdentityOf(peer), call[c].res, Usable(peer, now))]
      BY <1>6 DEF Decide, Breaks, ReadsWork, Local
    <2>2. Usable(peer, now) \in BOOLEAN
      BY Zenon DEF Usable
    <2>3. Judges(c)
      BY <1>1, <2>1, <2>2 DEF At, CallState, Only, Judges
    <2> QED
      BY <2>3 DEF TrustMoves
  <1>7. CASE MarkValidated(c)
    <2>1. CASE ReturnError(c, "required")
      <3>1. Leaves(c)
        BY <1>2, <1>7, <2>1, ReturnExits, LeavesBy DEF MarkValidated, At
      <3> QED
        BY <3>1 DEF TrustMoves
    <2>2. CASE Goto(c, "identity")
      BY <1>7, <2>2, GotoGoes DEF MarkValidated, At, Latches, TrustMoves
    <2> QED
      BY <1>7, <2>1, <2>2 DEF MarkValidated
  <1>8. CASE PersistIdentity(c)
    <2>1. CASE ReturnError(c, "required") /\ UNCHANGED peer
      <3>1. Leaves(c)
        BY <1>2, <1>8, <2>1, ReturnExits, LeavesBy DEF PersistIdentity, At
      <3> QED
        BY <3>1 DEF TrustMoves
    <2>2. CASE /\ peer' = SetIdentity(peer, ApplyIdentity(IdentityOf(call[c].prev),
                                                         call[c].verdict, call[c].res))
               /\ Goto(c, AfterIdentity(call[c].verdict))
      BY <1>8, <2>2, GotoGoes DEF PersistIdentity, At, Persists, TrustMoves
    <2> QED
      BY <1>8, <2>1, <2>2 DEF PersistIdentity
  <1>9. CASE InstallAccepted(c) \/ InstallMoved(c)
    <2>1. CASE Exits(c) /\ UNCHANGED peer /\ ("write" \in FaultKinds \/ Disabled(peer))
      BY <2>1, SameTrustSame DEF Leaves, TrustMoves
    <2>2. CASE Exits(c) /\ ~Disabled(peer) /\ peer' = Install(Upsert(peer), call[c].res, now)
      BY <1>9, <2>2 DEF InstallAccepted, InstallMoved, At, Places, TrustMoves
    <2>3. Exits(c)
      BY <1>9, ReturnExits, GotoExits DEF InstallAccepted, InstallMoved, Tracked
    <2> QED
      BY <1>9, <2>1, <2>2, <2>3 DEF InstallAccepted, InstallMoved, Breaks
  <1>10. CASE ChainArrives(c)
    BY <1>10, GotoGoes DEF ChainArrives, At, Local, Arrives, TrustMoves
  <1>11. CASE MoveThePin(c)
    <2>1. CASE Goto(c, "refuse") /\ UNCHANGED peer
      <3>1. Exits(c)
        BY <2>1, GotoExits DEF Tracked
      <3>2. Leaves(c)
        BY <1>2, <1>11, <2>1, <3>1, LeavesBy DEF MoveThePin, At
      <3> QED
        BY <3>2 DEF TrustMoves
    <2>2. CASE ~(Goto(c, "refuse") /\ UNCHANGED peer)
      BY <1>11, <2>2, GotoGoes DEF MoveThePin, At, Moves, TrustMoves
    <2> QED
      BY <2>1, <2>2
  <1> QED
    BY <1>3, <1>4, <1>5, <1>6, <1>7, <1>8, <1>9, <1>10, <1>11 DEF TrustMoves

\* Observers, administrators, the disk and the clock.
LEMMA OtherSteps ==
  ASSUME Inv, Others
  PROVE  TrustStep
  <1>1. peer \in Peer \cup {None}
    BY DEF Inv, Typed
  <1>2. ASSUME NEW s \in Sightings, NEW at \in 1..now, ObserveSighting(s, at)
        PROVE  TrustStep
    <2> DEFINE o == [source |-> s.source, id |-> s.id, fp |-> s.fp,
                     authority |-> s.authority, at |-> at, status |-> s.status]
    <2>1. o \in Observation
      BY CallAssumption DEF Observation, Inv, Typed
    <2>2. peer' = PutObservation(peer, o) /\ UNCHANGED <<call, torn>>
      BY <1>2 DEF ObserveSighting, Calls
    <2> HIDE DEF o
    <2> QED
      BY <1>1, <2>1, <2>2, ObservationSameTrust DEF TrustStep
  <1>3. ASSUME NEW policy \in AdminPolicies, AdminSetPolicy(policy)
        PROVE  TrustStep
    <2>1. policy \in Policies
      BY CallAssumption
    <2>2. peer' = SetPolicy(peer, policy, now) /\ UNCHANGED <<call, torn>>
      BY <1>3 DEF AdminSetPolicy, Calls
    <2>3. SameTrust(peer, peer')
      BY <1>1, <1>3, <2>1, <2>2, SetPolicyType, SameTrustBy DEF Disabled
    <2> QED
      BY <2>2, <2>3 DEF TrustStep
  <1>4. CASE AdminForget
    BY <1>4 DEF AdminForget, Forgets, Forgotten, Calls, TrustStep
  <1>5. CASE Corrupt
    <2>1. peer \in Peer /\ peer # None /\ peer.effective \in ManifestRecord
      BY <1>1, <1>5 DEF Corrupt, Peer
    <2> DEFINE rec == [peer.effective EXCEPT !.intact = FALSE]
    <2>2. /\ rec \in ManifestRecord
          /\ rec.manifest = peer.effective.manifest /\ rec.signer = peer.effective.signer
      BY <2>1 DEF ManifestRecord
    <2>3. peer' = [peer EXCEPT !.effective = rec]
      BY <1>5, <2>1 DEF Corrupt, Peer
    <2> HIDE DEF rec
    <2>4. /\ peer' \in Peer /\ peer'.identity = peer.identity /\ peer'.policy = peer.policy
          /\ peer'.effective = rec
      BY <2>1, <2>2, <2>3 DEF Peer
    <2>5. peer' # None /\ rec # None
      BY <2>2, <2>4, RecordAssumption
    <2>6. SameTrust(peer, peer')
      BY <1>5, <2>1, <2>2, <2>4, <2>5
         DEF Corrupt, SameTrust, IdentityOf, Shown, EffectiveOf, Disabled
    <2> QED
      BY <1>5, <2>6 DEF Corrupt, Calls, TrustStep
  <1>6. ASSUME UNCHANGED <<peer, call, torn>>
        PROVE  TrustStep
    BY <1>6, SameTrustSame DEF TrustStep
  <1>7. ASSUME NEW disabled \in BOOLEAN, AdminSetDowngrade(disabled)
        PROVE  TrustStep
    BY <1>6, <1>7 DEF AdminSetDowngrade, Calls
  <1>8. CASE Tick
    BY <1>6, <1>8 DEF Tick
  <1> QED
    BY <1>2, <1>3, <1>4, <1>5, <1>7, <1>8 DEF Others

\* Only forgetting tears a record from a call.
LEMMA TornStays ==
  ASSUME NEW c \in Callers, AddManual(c) \/ Outbound(c)
  PROVE  UNCHANGED torn
  BY DEF Outbound, Local, OnPeer, AddManual,
         LookupFails, LookupDisabled, LookupCached, LookupMisses, CheckDisabled,
         CheckCached, CheckMisses, Route, FetchFails, RecordFetchFailure,
         RaiseRefreshFailed, FetchAnswers, Decide, MarkValidated, PersistIdentity,
         InstallAccepted, ClearAfterAccept, ChainUnhelpful, ChainBroken, ChainRevoked,
         ChainArrives, RaiseFromChain, MoveThePin, InstallMoved, ClearAfterMove,
         RecordRefusal, RaiseRefusal, AnswerRefusal, PolicyFailure

\* What any step of the system does to trust.
LEMMA TrustSteps ==
  ASSUME Inv, ReadsWork, [Next]_vars
  PROVE  TrustStep
  <1>1. ASSUME NEW c \in Callers, NEW op \in Ops, Begin(c, op)
        PROVE  TrustStep
    <2>1. Entry(op) \in {"lookup", "check", "manual", "route"}
      BY DEF Entry
    <2> DEFINE k == [Idle EXCEPT !.op = op, !.pc = Entry(op)]
    <2>2. k.pc = Entry(op) /\ call' = [call EXCEPT ![c] = k]
      BY <1>1 DEF Begin, Idle
    <2> HIDE DEF k
    <2>3. Exits(c)
      BY <2>1, <2>2 DEF Inv, Typed, Exits, Only, Tracked
    <2> QED
      BY <1>1, <2>3, SameTrustSame DEF Begin, At, Leaves, TrustMoves, TrustStep
  <1>2. ASSUME NEW c \in Callers, Finish(c)
        PROVE  TrustStep
    <2>1. Exits(c)
      BY <1>2 DEF Finish, Inv, Typed, Idle, Exits, Only, Tracked
    <2> QED
      BY <1>2, <2>1, SameTrustSame DEF Finish, At, Leaves, TrustMoves, TrustStep
  <1>3. ASSUME NEW c \in Callers, AddManual(c) \/ Outbound(c)
        PROVE  TrustStep
    <2>1. TrustMoves(c)
      BY <1>3, LeavingSteps, WritingSteps DEF Outbound, TrustMoves
    <2> QED
      BY <1>3, <2>1, TornStays DEF TrustStep
  <1>4. CASE Others
    BY <1>4, OtherSteps
  <1>5. CASE UNCHANGED vars
    BY <1>5, SameTrustSame DEF vars, TrustStep
  <1> QED
    BY <1>1, <1>2, <1>3, <1>4, <1>5 DEF Next

-----------------------------------------------------------------------------
(* What a caller has decided still fits the record.                        *)

Alone == \A x, y \in Callers : x = y
Fixed == Succession = {} /\ ~Forgets

\* Before the identity is written; the walk and the move are still before it.
Held == {"latch", "identity", "chain", "move"}

\* There is a pin exactly where the status says so.
Tied(st) == st.status = "pinned" <=> st.fp # None

Judged(k) == \E u \in BOOLEAN : k.verdict = DecideIdentity(IdentityOf(k.prev), k.res, u)

\* k: the locals of a call; p: the record.
Bound(k, p) ==
    /\ k.pc \in Held => Tied(IdentityOf(k.prev))
    /\ k.pc \in Held /\ Pinned(p) => Pinned(k.prev) /\ k.prev.identity.fp = p.identity.fp
    /\ k.pc \in {"latch", "identity"} => Judged(k)
    /\ k.pc \in {"chain", "move"} => Pinned(k.prev) /\ k.res.proof # k.prev.identity.fp
    /\ k.pc = "move" => <<k.prev.identity.fp, k.res.proof>> \in Succession
    /\ k.pc \in {"install", "move-install"} /\ Pinned(p) => k.res.proof = p.identity.fp

BoundInv == Tied(IdentityOf(peer)) /\ \A c \in Callers : Bound(call[c], peer)

\* What the writes of a bound caller make of the record.
LEMMA WriteIdentity ==
  ASSUME NEW p \in Peer \cup {None}, NEW st \in IdentityState, NEW q, q = SetIdentity(p, st)
  PROVE  /\ q # None /\ IdentityOf(q) = st
         /\ Shown(q) = Shown(p)
         /\ Disabled(q) => Disabled(p)
  <1>1. /\ q \in Peer /\ q.identity = st /\ q.effective = EffectiveOf(p)
        /\ q.policy = IF p = None THEN "none" ELSE p.policy
    BY SetIdentityType
  <1>2. q # None
    BY <1>1, RecordAssumption
  <1> QED
    BY <1>1, <1>2 DEF IdentityOf, Shown, EffectiveOf, Disabled

LEMMA HeldTypes ==
  ASSUME Inv, NEW c \in Callers, call[c].pc \in Deciding
  PROVE  /\ IdentityOf(call[c].prev) \in IdentityState
         /\ call[c].res \in Result /\ call[c].res.fetched <= call[c].res.until
         /\ call[c].verdict \in Verdict
         /\ call[c].pc \in Walking => call[c].res.proof \in Fingerprints
         /\ peer \in Peer \cup {None}
  <1>1. call[c] \in CallState /\ Good(call[c], cap, owed[c]) /\ peer \in Peer \cup {None}
    BY DEF Inv, Typed
  <1>2. IdentityOf(call[c].prev) \in IdentityState
    BY <1>1, NewType DEF CallState, PeerView, IdentityOf, New, Peer
  <1> QED
    BY <1>1, <1>2 DEF Good, CallShape

LEMMA PersistFacts ==
  ASSUME Inv, NEW c \in Callers, Bound(call[c], peer), Persists(c),
         NEW st, st = IdentityOf(call[c].prev), NEW new, new = IdentityOf(peer'),
         NEW r, r = call[c].res
  PROVE  /\ peer' # None /\ Shown(peer') = Shown(peer) /\ (Disabled(peer') => Disabled(peer))
         /\ Tied(new)
         /\ st.status = "pinned" => new.status = "pinned" /\ new.fp = st.fp
         /\ st.status # "pinned" /\ new.status = "pinned" => call'[c].pc = "install"
         /\ call'[c].pc \in {"install", "chain"} \/ call'[c].pc \notin Tracked
         /\ call'[c].pc = "chain" => st.status = "pinned" /\ r.proof # st.fp
         /\ call'[c].pc = "install" /\ new.status = "pinned" => r.proof = new.fp
         /\ call'[c].pc = "install" => new.issued = IssuedAt[r.manifest]
         /\ new.issued >= st.issued
  <1> DEFINE v == call[c].verdict
  <1>1. call[c].pc = "identity" /\ call[c].pc \in Deciding
    BY DEF Persists, Deciding
  <1>2. st \in IdentityState /\ r \in Result /\ v \in Verdict /\ peer \in Peer \cup {None}
    BY <1>1, HeldTypes
  <1>3. PICK u \in BOOLEAN : v = DecideIdentity(st, r, u)
    BY <1>1 DEF Bound, Judged
  <1>4. Tied(st)
    BY <1>1 DEF Bound, Held
  <1> DEFINE w == ApplyIdentity(st, v, r)
  <1>5. peer' = SetIdentity(peer, w) /\ call'[c].pc = AfterIdentity(v)
    BY DEF Persists, GoesTo
  <1> HIDE DEF v
  <1>6. w \in IdentityState
    BY <1>2, ApplyIdentityType
  <1>7. /\ st.status = "pinned" => w.status = "pinned" /\ w.fp = st.fp
        /\ st.status # "pinned" /\ v.pin # None => w.status = "pinned" /\ w.fp = v.pin
        /\ st.status # "pinned" /\ v.pin = None => w.status # "pinned" /\ w.fp = st.fp
        /\ w.issued >= st.issued
        /\ v.accept => w.issued >= IssuedAt[r.manifest]
        /\ w.issued \in {st.issued, IssuedAt[r.manifest]}
    BY <1>2, ApplyIdentityType
  <1>8. /\ v.reason = "pinned/valid-proof-other-signer" =>
              st.status = "pinned" /\ r.proof # st.fp /\ ~v.accept
        /\ v.accept /\ st.status = "pinned" => r.proof = st.fp
        /\ v.accept => IssuedAt[r.manifest] >= st.issued
        /\ v.pin # None /\ st.status # "pinned" => v.accept /\ v.pin = r.proof
    BY <1>2, <1>3, DecideIdentityType
  <1> HIDE DEF w
  <1>9. /\ new = w /\ peer' # None /\ Shown(peer') = Shown(peer)
        /\ Disabled(peer') => Disabled(peer)
    BY <1>2, <1>5, <1>6, WriteIdentity
  <1>10. /\ AfterIdentity(v) = "install" <=> v.accept
         /\ AfterIdentity(v) = "chain" => v.reason = "pinned/valid-proof-other-signer"
         /\ AfterIdentity(v) \in {"install", "chain", "refuse"}
    BY DEF AfterIdentity
  <1>11. IssuedAt[r.manifest] \in Nat /\ st.issued \in Nat /\ w.issued \in Nat
    BY <1>2, <1>6, ManifestAssumption DEF Result, IdentityState
  <1>12. Tied(w)
    BY <1>4, <1>7 DEF Tied
  <1>13. v.accept => w.issued = IssuedAt[r.manifest]
    BY <1>7, <1>8, <1>11
  <1>14. v.accept /\ w.status = "pinned" => r.proof = w.fp
    BY <1>7, <1>8
  <1> QED
    BY <1>5, <1>7, <1>8, <1>9, <1>10, <1>12, <1>13, <1>14 DEF Tracked

LEMMA MoveFacts ==
  ASSUME Inv, NEW c \in Callers, Bound(call[c], peer), Moves(c),
         NEW new, new = IdentityOf(peer'), NEW r, r = call[c].res
  PROVE  /\ peer' # None /\ Shown(peer') = Shown(peer) /\ (Disabled(peer') => Disabled(peer))
         /\ Tied(new) /\ new.status = "pinned" /\ new.fp = r.proof
         /\ new.issued = IssuedAt[r.manifest]
  <1> DEFINE st == call[c].prev.identity
             w == MovePin(st, r.proof, r)
  <1>1. call[c].pc = "move" /\ call[c].pc \in Deciding /\ call[c].pc \in Walking
    BY DEF Moves, Deciding, Walking
  <1>2. r \in Result /\ r.proof \in Fingerprints /\ peer \in Peer \cup {None}
    BY <1>1, HeldTypes
  <1>3. st \in IdentityState
    BY <1>1, HeldTypes DEF Bound, Pinned, IdentityOf
  <1>4. w \in IdentityState /\ w.status = "pinned" /\ w.fp = r.proof
        /\ w.issued = IssuedAt[r.manifest]
    BY <1>2, <1>3, MovePinType
  <1>5. peer' = SetIdentity(peer, w)
    BY DEF Moves
  <1> HIDE DEF w
  <1>6. /\ new = w /\ peer' # None /\ Shown(peer') = Shown(peer)
        /\ Disabled(peer') => Disabled(peer)
    BY <1>2, <1>4, <1>5, WriteIdentity
  <1>7. Tied(w)
    BY <1>2, <1>4, NoneAssumption DEF Tied
  <1> QED
    BY <1>4, <1>6, <1>7

LEMMA PlaceFacts ==
  ASSUME Inv, NEW c \in Callers, Places(c), NEW r, r = call[c].res
  PROVE  /\ peer' # None /\ IdentityOf(peer') = IdentityOf(peer)
         /\ Disabled(peer') => Disabled(peer)
         /\ Shown(peer') = {<<r.manifest, IF r.proof \in Fingerprints THEN r.proof ELSE None>>}
  <1>1. call[c].pc \in Deciding
    BY DEF Places, Deciding
  <1>2. r \in Result /\ r.fetched <= r.until /\ peer \in Peer \cup {None}
    BY <1>1, HeldTypes
  <1> DEFINE u == Upsert(peer)
             signer == IF r.proof \in Fingerprints THEN r.proof ELSE None
  <1>3. /\ u \in Peer /\ u.identity = IdentityOf(peer)
        /\ u.policy = IF peer = None THEN "auto" ELSE peer.policy
    BY <1>2, UpsertType
  <1>4. peer' = Install(u, r, now)
    BY DEF Places
  <1> HIDE DEF u
  <1>5. /\ peer' \in Peer /\ peer'.identity = u.identity /\ peer'.policy = u.policy
        /\ peer'.effective \in ManifestRecord
        /\ peer'.effective.manifest = r.manifest /\ peer'.effective.signer = signer
    BY <1>2, <1>3, <1>4, InstallType
  <1> HIDE DEF signer
  <1>6. peer' # None /\ peer'.effective # None
    BY <1>5, RecordAssumption
  <1>7. Shown(peer') = {<<r.manifest, signer>>}
    BY <1>5, <1>6 DEF Shown, EffectiveOf
  <1> QED
    BY <1>3, <1>5, <1>6, <1>7 DEF IdentityOf, Disabled, signer

LEMMA ForgetFacts ==
  ASSUME Inv, peer' = ForgetPeer(peer)
  PROVE  /\ IdentityOf(peer') \in {NoIdentity, IdentityOf(peer)}
         /\ peer' # None => IdentityOf(peer') = IdentityOf(peer)
         /\ Disabled(peer') => Disabled(peer)
         /\ Shown(peer') = {}
         /\ IdentityOf(peer').issued <= IdentityOf(peer).issued
  <1>1. peer \in Peer \cup {None} /\ IdentityOf(peer) \in IdentityState
    BY IdentityOfType DEF Inv, Typed
  <1>2. peer' # None => /\ peer'.identity = IdentityOf(peer)
                        /\ peer # None /\ peer'.policy = peer.policy
                        /\ peer'.effective = None
    BY <1>1, ForgetPeerType
  <1> QED
    BY <1>1, <1>2 DEF IdentityOf, NoIdentity, IdentityState, Shown, EffectiveOf, Disabled

\* A call whose locals stay is bound to whatever record keeps the pin.
LEMMA BoundStays ==
  ASSUME NEW k, NEW p, NEW q, Bound(k, p), Pinned(q) => Pinned(p) /\ q.identity.fp = p.identity.fp
  PROVE  Bound(k, q)
  BY DEF Bound

LEMMA SameTrustPin ==
  ASSUME NEW p, NEW q, SameTrust(p, q)
  PROVE  /\ Pinned(q) <=> Pinned(p)
         /\ Pinned(q) => q.identity.fp = p.identity.fp
         /\ Tied(IdentityOf(p)) => Tied(IdentityOf(q))
  BY PinnedIdentity DEF SameTrust, Pinned, IdentityOf, Tied

\* One step, in the two settings the invariant holds in.
LEMMA BoundStep ==
  ASSUME Inv, ReadsWork, BoundInv, [Next]_vars, Alone \/ (Fixed /\ Pinned(peer))
  PROVE  /\ BoundInv'
         /\ PinKeptStep
         /\ Fixed /\ Pinned(peer) => Pinned(peer')
  <1>1. TrustStep
    BY TrustSteps
  <1>2. SUFFICES /\ Tied(IdentityOf(peer'))
                 /\ \A c \in Callers : Bound(call'[c], peer')
                 /\ PinKeptStep
                 /\ Fixed /\ Pinned(peer) => Pinned(peer')
    BY DEF BoundInv
  <1>3. CASE SameTrust(peer, peer') /\ UNCHANGED call
    BY <1>3, SameTrustPin, BoundStays DEF BoundInv, PinKeptStep
  <1>4. CASE Forgotten
    <2>1. /\ IdentityOf(peer') \in {NoIdentity, IdentityOf(peer)}
          /\ peer' # None => IdentityOf(peer') = IdentityOf(peer)
      BY <1>4, ForgetFacts DEF Forgotten
    <2>2. /\ Pinned(peer') => Pinned(peer) /\ peer'.identity.fp = peer.identity.fp
          /\ peer' # None /\ Pinned(peer) => Pinned(peer')
      BY <2>1, PinnedIdentity DEF Pinned, IdentityOf, NoIdentity
    <2>3. Tied(IdentityOf(peer'))
      BY <2>1 DEF BoundInv, Tied, NoIdentity
    <2>4. \A c \in Callers : Bound(call'[c], peer')
      BY <1>4, <2>2, BoundStays DEF BoundInv, Forgotten
    <2> QED
      BY <1>4, <2>2, <2>3, <2>4 DEF PinKeptStep, Fixed, Forgotten
  <1>5. ASSUME NEW c \in Callers, TrustMoves(c)
        PROVE  /\ Tied(IdentityOf(peer'))
               /\ \A x \in Callers : Bound(call'[x], peer')
               /\ PinKeptStep
               /\ Fixed /\ Pinned(peer) => Pinned(peer')
    <2>1. Bound(call[c], peer) /\ Tied(IdentityOf(peer))
      BY DEF BoundInv
    \* The others are bound as they were.
    <2>2. ASSUME Only(c), Bound(call'[c], peer'), Tied(IdentityOf(peer')),
                 PinKeptStep, Fixed /\ Pinned(peer) => Pinned(peer')
          PROVE  /\ Tied(IdentityOf(peer'))
                 /\ \A x \in Callers : Bound(call'[x], peer')
                 /\ PinKeptStep
                 /\ Fixed /\ Pinned(peer) => Pinned(peer')
      <3>1. ASSUME NEW x \in Callers
            PROVE  Bound(call'[x], peer')
        <4>1. CASE x = c
          BY <2>2, <4>1
        <4>2. CASE x # c
          <5>1. Fixed /\ Pinned(peer) /\ Pinned(peer') /\ call'[x] = call[x]
            BY <2>2, <4>2 DEF Alone, Only
          <5>2. peer'.identity.fp = peer.identity.fp
            BY <2>2, <5>1 DEF PinKeptStep, Fixed, Pinned
          <5>3. Bound(call[x], peer)
            BY DEF BoundInv
          <5> QED
            BY <5>1, <5>2, <5>3, BoundStays
        <4> QED
          BY <4>1, <4>2
      <3> QED
        BY <2>2, <3>1
    <2>3. CASE Leaves(c)
      <3>1. Bound(call'[c], peer')
        BY <2>3 DEF Leaves, Exits, Bound, Held, Tracked
      <3> QED
        BY <2>1, <2>2, <2>3, <3>1, SameTrustPin DEF Leaves, Exits, PinKeptStep
    <2>4. CASE Routes(c) \/ Fetches(c)
      <3>1. Bound(call'[c], peer')
        BY <2>4 DEF Routes, Fetches, Bound, Held
      <3> QED
        BY <2>1, <2>2, <2>4, <3>1 DEF Routes, Fetches, PinKeptStep
    <2>5. CASE Judges(c)
      <3>1. peer \in Peer \cup {None} /\ call'[c].prev = Snapshot(peer)
        BY <2>5 DEF Judges, Inv, Typed
      <3>2. IdentityOf(call'[c].prev) = IdentityOf(peer)
        BY <3>1, SnapshotIdentity
      <3>3. Pinned(peer) => Pinned(call'[c].prev) /\ call'[c].prev.identity.fp = peer.identity.fp
        BY <3>2, PinnedIdentity DEF Pinned, IdentityOf, NoIdentity
      <3>4. Judged(call'[c])
        BY <2>5, <3>2 DEF Judges, Judged
      <3>5. Bound(call'[c], peer')
        BY <2>1, <2>5, <3>2, <3>3, <3>4 DEF Judges, Bound, Held
      <3> QED
        BY <2>1, <2>2, <2>5, <3>5 DEF Judges, PinKeptStep
    <2>6. CASE Latches(c)
      <3>1. Bound(call'[c], peer')
        BY <2>1, <2>6 DEF Latches, GoesTo, SameLocals, Bound, Held, Judged
      <3> QED
        BY <2>1, <2>2, <2>6, <3>1 DEF Latches, GoesTo, PinKeptStep
    <2>7. CASE Persists(c)
      <3> DEFINE st == IdentityOf(call[c].prev)
                 new == IdentityOf(peer')
                 r == call[c].res
      <3>1. /\ Tied(new) /\ peer' # None
            /\ st.status = "pinned" => new.status = "pinned" /\ new.fp = st.fp
            /\ st.status # "pinned" /\ new.status = "pinned" => call'[c].pc = "install"
            /\ call'[c].pc \in {"install", "chain"} \/ call'[c].pc \notin Tracked
            /\ call'[c].pc = "chain" => st.status = "pinned" /\ r.proof # st.fp
            /\ call'[c].pc = "install" /\ new.status = "pinned" => r.proof = new.fp
        BY <2>1, <2>7, PersistFacts
      <3>2. /\ call[c].pc = "identity" /\ Only(c)
            /\ call'[c].prev = call[c].prev /\ call'[c].res = call[c].res
        BY <2>7 DEF Persists, GoesTo, SameLocals
      <3>3. /\ Pinned(call[c].prev) <=> st.status = "pinned"
            /\ Pinned(call[c].prev) => st = call[c].prev.identity
            /\ Pinned(peer') <=> new.status = "pinned"
            /\ new = peer'.identity
        BY <3>1, PinnedIdentity DEF Pinned, IdentityOf
      <3>4. Tied(st)
        BY <2>1, <3>2 DEF Bound, Held
      <3>5. Pinned(peer) => Pinned(call[c].prev) /\ call[c].prev.identity.fp = peer.identity.fp
        BY <2>1, <3>2 DEF Bound, Held
      <3> HIDE DEF st, new
      <3>6. Bound(call'[c], peer')
        BY <3>1, <3>2, <3>3, <3>4 DEF Bound, Held, Tracked, st
      <3>7. Pinned(peer) => Pinned(peer') /\ peer'.identity.fp = peer.identity.fp
        BY <3>1, <3>3, <3>5
      <3> QED
        BY <2>2, <3>1, <3>2, <3>6, <3>7 DEF PinKeptStep, new
    <2>8. CASE Places(c)
      <3>1. peer' # None /\ IdentityOf(peer') = IdentityOf(peer)
        BY <2>8, PlaceFacts
      <3>2. /\ Pinned(peer) <=> Pinned(peer')
            /\ Pinned(peer) => peer'.identity.fp = peer.identity.fp
        BY <3>1, PinnedIdentity DEF Pinned, IdentityOf
      <3>3. Bound(call'[c], peer') /\ Only(c)
        BY <2>8 DEF Places, Exits, Bound, Held, Tracked
      <3> QED
        BY <2>1, <2>2, <3>1, <3>2, <3>3 DEF PinKeptStep
    <2>9. CASE Arrives(c)
      <3>1. Bound(call'[c], peer')
        BY <2>1, <2>9 DEF Arrives, GoesTo, SameLocals, Bound, Held
      <3> QED
        BY <2>1, <2>2, <2>9, <3>1 DEF Arrives, GoesTo, PinKeptStep
    <2>10. CASE Moves(c)
      <3>1. /\ peer' # None /\ Tied(IdentityOf(peer'))
            /\ IdentityOf(peer').status = "pinned" /\ IdentityOf(peer').fp = call[c].res.proof
        BY <2>1, <2>10, MoveFacts
      <3>2. Pinned(peer') /\ peer'.identity.fp = call[c].res.proof
        BY <3>1, PinnedIdentity DEF IdentityOf
      <3>3. /\ call[c].pc = "move" /\ Only(c) /\ call'[c].pc = "move-install"
            /\ call'[c].res = call[c].res
        BY <2>10 DEF Moves, GoesTo, SameLocals
      <3>4. /\ Pinned(peer) => call[c].prev.identity.fp = peer.identity.fp
            /\ <<call[c].prev.identity.fp, call[c].res.proof>> \in Succession
        BY <2>1, <3>3 DEF Bound, Held
      <3>5. Bound(call'[c], peer')
        BY <3>2, <3>3 DEF Bound, Held
      <3> QED
        BY <2>2, <3>1, <3>2, <3>3, <3>4, <3>5 DEF PinKeptStep
    <2> QED
      BY <1>5, <2>3, <2>4, <2>5, <2>6, <2>7, <2>8, <2>9, <2>10 DEF TrustMoves
  <1> QED
    BY <1>1, <1>3, <1>4, <1>5 DEF TrustStep

LEMMA InitBound == Init => BoundInv
  <1> SUFFICES ASSUME Init PROVE BoundInv
    OBVIOUS
  <1>1. Tied(IdentityOf(peer))
    <2>1. CASE peer = None
      BY <2>1 DEF IdentityOf, Tied, NoIdentity
    <2>2. CASE \E f \in Fingerprints : peer \in {StoredPeer(f, None), StoredPeer(f, f)}
      <3>1. PICK f \in Fingerprints, key \in Fingerprints \cup {None} : peer = StoredPeer(f, key)
        BY <2>2
      <3>2. peer # None => /\ IdentityOf(peer).status = "pinned"
                           /\ IdentityOf(peer).fp = f
        BY <3>1 DEF IdentityOf, StoredPeer, New, NoIdentity
      <3>3. f # None
        BY NoneAssumption
      <3> QED
        BY <2>1, <3>2, <3>3 DEF Tied
    <2> QED
      BY <2>1, <2>2 DEF Init
  <1>2. \A c \in Callers : Bound(call[c], peer)
    BY DEF Init, Idle, Bound, Held
  <1> QED
    BY <1>1, <1>2 DEF BoundInv

\* A spec that keeps one caller at a time, or one pinned domain, keeps the rest.
LEMMA AloneInv ==
  ASSUME ReadsWork, Alone
  PROVE  Spec => []Inv /\ []BoundInv
  <1>1. Inv /\ BoundInv /\ [Next]_vars => BoundInv'
    BY BoundStep
  <1> QED
    BY <1>1, SpecInv, InitBound, PTL DEF Spec

\* 07-DOMAIN-IDENTITY 6.3: with one caller at a time, an established pin is
\* never lost and never replaced but along signed statements, whatever the
\* authority serves, whoever forgets the peer and whichever write fails.
THEOREM OneCallerKeepsPin ==
  ASSUME ReadsWork, Alone
  PROVE  Spec => PinKept
  <1>1. Inv /\ BoundInv /\ [Next]_vars => [PinKeptStep]_vars
    BY BoundStep
  <1> QED
    BY <1>1, AloneInv, PTL DEF Spec, PinKept

\* The same for a domain that has a pin, and any number of callers, as long as
\* the pin cannot move and nobody forgets the peer.
THEOREM EstablishedKeepsPin ==
  ASSUME ReadsWork, Fixed
  PROVE  EstablishedSpec => PinKept
  <1> DEFINE I == BoundInv /\ Pinned(peer)
  <1>1. EstablishedInit => I
    BY InitBound DEF EstablishedInit
  <1>2. Inv /\ I /\ [Next]_vars => I' /\ [PinKeptStep]_vars
    BY BoundStep
  <1>3. EstablishedInit => Init
    BY DEF EstablishedInit
  <1> QED
    BY <1>1, <1>2, <1>3, SpecInv, PTL DEF Spec, EstablishedSpec, PinKept

-----------------------------------------------------------------------------
(* One caller at a time: how far behind the record its decision can be.    *)

\* The manifest in effect changes only where one is installed or forgotten.
LEMMA ShownSteps ==
  ASSUME Inv, BoundInv, TrustStep
  PROVE  Shown(peer') \in {Shown(peer), {}} \/ \E c \in Callers : Places(c)
  <1>1. CASE UNCHANGED call /\ SameTrust(peer, peer')
    BY <1>1 DEF SameTrust
  <1>2. CASE Forgotten
    BY <1>2, ForgetFacts DEF Forgotten
  <1>3. ASSUME NEW c \in Callers, TrustMoves(c), ~Places(c)
        PROVE  Shown(peer') = Shown(peer)
    <2>1. Bound(call[c], peer)
      BY DEF BoundInv
    <2>2. CASE Leaves(c)
      BY <2>2 DEF Leaves, SameTrust
    <2>3. CASE UNCHANGED peer
      BY <2>3
    <2>4. CASE Persists(c)
      BY <2>1, <2>4, PersistFacts
    <2>5. CASE Moves(c)
      BY <2>1, <2>5, MoveFacts
    <2> QED
      BY <1>3, <2>2, <2>3, <2>4, <2>5 DEF TrustMoves, Routes, Fetches, Judges, Latches, Arrives
  <1> QED
    BY <1>1, <1>2, <1>3 DEF TrustStep

\* A pin is one of the fingerprints.
LEMMA PinIsFingerprint ==
  ASSUME NEW p \in Peer \cup {None}, Tied(IdentityOf(p)), Pinned(p)
  PROVE  p.identity.fp \in Fingerprints
  <1>1. p \in Peer /\ p.identity.status = "pinned" /\ IdentityOf(p) = p.identity
    BY DEF Pinned, IdentityOf
  <1> QED
    BY <1>1 DEF Tied, Peer, IdentityState

\* The watermark of the record is no later than that of the snapshot decided on.
Aged(c) ==
    call[c].pc \in {"latch", "identity"} =>
        IdentityOf(peer).issued <= IdentityOf(call[c].prev).issued

LEMMA AgedStep ==
  ASSUME Inv, ReadsWork, BoundInv, NEW c, Callers = {c}, Aged(c), [Next]_vars
  PROVE  /\ Aged(c)'
         /\ peer # None /\ peer' # None /\ peer'.identity.fp = peer.identity.fp
               => peer'.identity.issued >= peer.identity.issued
  <1> DEFINE i == IdentityOf(peer)
             j == IdentityOf(peer')
             s == IdentityOf(call[c].prev)
  <1>1. TrustStep /\ c \in Callers
    BY TrustSteps
  <1>2. peer \in Peer \cup {None} /\ peer' \in Peer \cup {None} /\ Bound(call[c], peer)
    BY NextInv DEF Inv, Typed, BoundInv
  <1>3. i \in IdentityState /\ j \in IdentityState
    BY <1>2, IdentityOfType
  <1>4. i.issued \in Nat /\ j.issued \in Nat
    BY <1>3 DEF IdentityState
  <1>5. peer # None => i = peer.identity
    BY DEF IdentityOf
  <1>6. peer' # None => j = peer'.identity
    BY DEF IdentityOf
  <1>7. SUFFICES Aged(c)' /\ (peer # None /\ peer' # None /\ j.fp = i.fp => j.issued >= i.issued)
    BY <1>5, <1>6
  <1>8. CASE UNCHANGED call /\ SameTrust(peer, peer')
    BY <1>4, <1>8 DEF SameTrust, Aged
  <1>9. CASE Forgotten
    <2>1. j.issued <= i.issued /\ (peer' # None => j = i)
      BY <1>9, ForgetFacts DEF Forgotten
    <2>2. call[c].pc \in {"latch", "identity"} => s.issued \in Nat
      BY <1>1, HeldTypes DEF Deciding, IdentityState
    <2> HIDE DEF i, j
    <2>3. Aged(c)'
      BY <1>4, <1>9, <2>1, <2>2 DEF Aged, Forgotten, i, j
    <2> QED
      BY <1>4, <2>1, <2>3
  <1>10. CASE Leaves(c)
    BY <1>4, <1>10 DEF Leaves, Exits, Tracked, SameTrust, Aged
  <1>11. CASE Routes(c) \/ Fetches(c) \/ Arrives(c)
    BY <1>4, <1>11 DEF Routes, Fetches, Arrives, GoesTo, Aged
  <1>12. CASE Judges(c)
    <2>1. IdentityOf(call'[c].prev) = i
      BY <1>2, <1>12, SnapshotIdentity DEF Judges
    <2> QED
      BY <1>4, <1>12, <2>1 DEF Judges, Aged
  <1>13. CASE Latches(c)
    BY <1>4, <1>13 DEF Latches, GoesTo, SameLocals, Aged
  <1>14. CASE Persists(c)
    <2>1. /\ j.issued >= s.issued
          /\ call'[c].pc \in {"install", "chain"} \/ call'[c].pc \notin Tracked
      BY <1>1, <1>2, <1>14, PersistFacts
    <2>2. i.issued <= s.issued
      BY <1>14 DEF Persists, Aged
    <2>3. s.issued \in Nat
      BY <1>1, <1>14, HeldTypes DEF Persists, Deciding, IdentityState
    <2>4. Aged(c)'
      BY <2>1 DEF Aged, Tracked
    <2> HIDE DEF i, j, s
    <2> QED
      BY <1>4, <2>1, <2>2, <2>3, <2>4
  <1>15. CASE Places(c)
    <2>1. j = i
      BY <1>1, <1>15, PlaceFacts
    <2> QED
      BY <1>4, <1>15, <2>1 DEF Places, Exits, Tracked, Aged
  <1>16. CASE Moves(c)
    <2>1. Tied(j) /\ j.status = "pinned" /\ j.fp = call[c].res.proof
      BY <1>1, <1>2, <1>16, MoveFacts
    <2>2. /\ call[c].res.proof # call[c].prev.identity.fp
          /\ Pinned(peer) => call[c].prev.identity.fp = peer.identity.fp
      BY <1>2, <1>16 DEF Moves, Bound, Held
    <2>3. Tied(i) /\ (peer # None /\ i.status = "pinned" => Pinned(peer))
      BY PinnedIdentity DEF BoundInv
    <2>4. peer # None => j.fp # i.fp
      BY <1>5, <2>1, <2>2, <2>3 DEF Tied
    <2> QED
      BY <1>16, <2>4 DEF Moves, GoesTo, Aged
  <1> QED
    BY <1>1, <1>8, <1>9, <1>10, <1>11, <1>12, <1>13, <1>14, <1>15, <1>16 DEF TrustStep, TrustMoves

\* identity.go checkReplay: with one caller at a time, the issue time verified
\* under one identity never goes back, whichever write fails.
THEOREM OneCallerKeepsWatermark ==
  ASSUME ReadsWork, NEW c, Callers = {c}
  PROVE  Spec => WatermarkKept
  <1>1. Alone
    BY DEF Alone
  <1>2. Init => Aged(c)
    BY DEF Init, Idle, Aged
  <1>3. Inv /\ BoundInv /\ Aged(c) /\ [Next]_vars =>
            /\ Aged(c)'
            /\ [peer # None /\ peer' # None /\ peer'.identity.fp = peer.identity.fp
                 => peer'.identity.issued >= peer.identity.issued]_vars
    BY AgedStep
  <1> QED
    BY <1>1, <1>2, <1>3, AloneInv, PTL DEF Spec, WatermarkKept

\* A route was read off a pinned record, and so was the snapshot judged after it;
\* a pin that nobody forgot meanwhile is there when the verdict on it is written.
Routed(c) ==
    /\ call[c].pc \in {"fetch", "decide"} /\ call[c].route # None => Pinned(peer)
    /\ call[c].pc \in {"latch", "identity", "install"} /\ call[c].route # None
          => Pinned(call[c].prev)
    /\ call[c].pc \in Held /\ Pinned(call[c].prev) => Pinned(peer)

LEMMA RoutedStep ==
  ASSUME Inv, ReadsWork, BoundInv, NEW c, Callers = {c}, torn \/ Routed(c), [Next]_vars
  PROVE  (torn \/ Routed(c))'
  <1>1. TrustStep /\ c \in Callers /\ Bound(call[c], peer)
    BY TrustSteps DEF BoundInv
  <1> SUFFICES ASSUME ~torn' PROVE Routed(c)'
    OBVIOUS
  <1>2. CASE Forgotten
    BY <1>1, <1>2 DEF Forgotten, Busy, Held, Routed
  <1> SUFFICES ASSUME Routed(c),
                      (UNCHANGED call /\ SameTrust(peer, peer')) \/ TrustMoves(c)
               PROVE  Routed(c)'
    BY <1>1, <1>2 DEF TrustStep
  <1>3. CASE UNCHANGED call /\ SameTrust(peer, peer')
    BY <1>3, SameTrustPin DEF Routed
  <1>4. CASE Leaves(c) \/ Places(c)
    BY <1>4 DEF Leaves, Places, Exits, Tracked, Held, Routed
  <1>5. CASE Routes(c) \/ Fetches(c) \/ Moves(c)
    BY <1>5 DEF Routes, Fetches, Moves, GoesTo, Held, Routed
  <1>6. CASE Judges(c)
    <2>1. IdentityOf(call'[c].prev) = IdentityOf(peer)
      BY <1>6, SnapshotIdentity DEF Judges, Inv, Typed
    <2>2. Pinned(call'[c].prev) <=> Pinned(peer)
      BY <2>1, PinnedIdentity
    <2> QED
      BY <1>6, <2>2 DEF Judges, Held, Routed
  <1>7. CASE Latches(c) \/ Arrives(c)
    BY <1>7 DEF Latches, Arrives, GoesTo, SameLocals, Held, Routed
  <1>8. CASE Persists(c)
    <2>1. /\ IdentityOf(call[c].prev).status = "pinned" => IdentityOf(peer').status = "pinned"
          /\ call'[c].pc \in {"install", "chain"} \/ call'[c].pc \notin Tracked
      BY <1>1, <1>8, PersistFacts
    <2>2. Pinned(call[c].prev) => Pinned(peer')
      BY <2>1, PinnedIdentity
    <2> QED
      BY <1>8, <2>1, <2>2 DEF Persists, GoesTo, SameLocals, Tracked, Held, Routed
  <1> QED
    BY <1>3, <1>4, <1>5, <1>6, <1>7, <1>8 DEF TrustMoves

\* service.go authorityHint: with one caller at a time, first contact uses the
\* subject domain's own endpoint, whatever DNS and headers announce and whichever
\* write fails, until the record is forgotten under a call.
THEOREM OneCallerContactsDirectly ==
  ASSUME ReadsWork, NEW c, Callers = {c}
  PROVE  Spec => []FirstContactIsDirect
  <1>1. Alone
    BY DEF Alone
  <1> DEFINE I == torn \/ Routed(c)
  <1>2. Init => I
    BY DEF Init, Idle, Held, Routed
  <1>3. Inv /\ BoundInv /\ I /\ [Next]_vars => I'
    BY RoutedStep
  <1>4. I => FirstContactIsDirect
    BY DEF Routed, FirstContactIsDirect, At
  <1> QED
    BY <1>1, <1>2, <1>3, <1>4, AloneInv, PTL DEF Spec

\* The cache of a pinned record is signed by the pin but between a write of the
\* identity and the installation after it; a verdict on a pin since forgotten
\* has no cache to spoil.
Signed(c) ==
    /\ ~Disabled(peer)
    /\ Pinned(peer) /\ ~Installing(c) => \A e \in Shown(peer) : e[2] = peer.identity.fp
    /\ call[c].pc \in {"latch", "identity"} /\ Pinned(call[c].prev) /\ ~Pinned(peer)
          => Shown(peer) = {}

\* What was installed under a pin is signed by it.
LEMMA PlacedIsSigned ==
  ASSUME Inv, BoundInv, NEW c \in Callers, Places(c), Pinned(peer)
  PROVE  Shown(peer') = {<<call[c].res.manifest, peer.identity.fp>>}
  <1>1. Bound(call[c], peer) /\ peer.identity.fp \in Fingerprints
    BY PinIsFingerprint DEF BoundInv, Inv, Typed
  <1>2. call[c].res.proof = peer.identity.fp
    BY <1>1 DEF Places, Bound
  <1> QED
    BY <1>1, <1>2, PlaceFacts

LEMMA SignedStep ==
  ASSUME Inv, ReadsWork, AlwaysInstalls, BoundInv, NEW c, Callers = {c}, Signed(c),
         [Next]_vars
  PROVE  Signed(c)'
  <1>1. TrustStep /\ c \in Callers /\ Bound(call[c], peer)
    BY TrustSteps DEF BoundInv
  <1>2. CASE UNCHANGED call /\ SameTrust(peer, peer')
    BY <1>2, SameTrustPin DEF SameTrust, AlwaysInstalls, Installing, Signed
  <1>3. CASE Forgotten
    BY <1>3, ForgetFacts DEF Forgotten, Signed
  <1>4. CASE Leaves(c)
    BY <1>4, SameTrustPin
       DEF Leaves, Exits, Tracked, SameTrust, AlwaysInstalls, Installing, Signed
  <1>5. CASE Routes(c) \/ Fetches(c) \/ Arrives(c)
    BY <1>5 DEF Routes, Fetches, Arrives, GoesTo, Installing, Signed
  <1>6. CASE Judges(c)
    <2>1. IdentityOf(call'[c].prev) = IdentityOf(peer)
      BY <1>6, SnapshotIdentity DEF Judges, Inv, Typed
    <2>2. Pinned(call'[c].prev) <=> Pinned(peer)
      BY <2>1, PinnedIdentity
    <2> QED
      BY <1>6, <2>2 DEF Judges, Installing, Signed
  <1>7. CASE Latches(c)
    BY <1>7 DEF Latches, GoesTo, SameLocals, Installing, Signed
  <1>8. CASE Persists(c)
    <2> DEFINE s == IdentityOf(call[c].prev)
               j == IdentityOf(peer')
    <2>1. /\ peer' # None /\ Shown(peer') = Shown(peer) /\ (Disabled(peer') => Disabled(peer))
          /\ s.status = "pinned" => j.status = "pinned" /\ j.fp = s.fp
          /\ s.status # "pinned" /\ j.status = "pinned" => call'[c].pc = "install"
          /\ call'[c].pc \in {"install", "chain"} \/ call'[c].pc \notin Tracked
      BY <1>1, <1>8, PersistFacts
    <2>2. call[c].pc = "identity"
      BY <1>8 DEF Persists
    <2>3. /\ Pinned(call[c].prev) => s.status = "pinned" /\ s = call[c].prev.identity
          /\ s.status = "pinned" => Pinned(call[c].prev)
          /\ Pinned(peer') => j.status = "pinned" /\ j = peer'.identity
      BY PinnedIdentity DEF Pinned, IdentityOf
    <2>4. Pinned(peer) => Pinned(call[c].prev) /\ call[c].prev.identity.fp = peer.identity.fp
      BY <1>1, <2>2 DEF Bound, Held
    <2> HIDE DEF s, j
    <2>5. ASSUME Pinned(peer'), ~Installing(c)', NEW e \in Shown(peer)
          PROVE  e[2] = peer'.identity.fp
      <3>1. s.status = "pinned" /\ Pinned(call[c].prev)
        BY <2>1, <2>3, <2>5 DEF Installing
      <3>2. Pinned(peer)
        BY <2>2, <2>5, <3>1 DEF Signed
      <3> QED
        BY <2>1, <2>2, <2>3, <2>4, <2>5, <3>1, <3>2 DEF Signed, Installing
    <2> QED
      BY <2>1, <2>5 DEF Signed, Tracked
  <1>9. CASE Places(c)
    <2>1. /\ Pinned(peer') => Pinned(peer) /\ peer'.identity.fp = peer.identity.fp
          /\ Disabled(peer') => Disabled(peer)
      BY <1>1, <1>9, PlaceFacts, PinnedIdentity DEF Pinned, IdentityOf
    <2>2. Pinned(peer) => \A e \in Shown(peer') : e[2] = peer.identity.fp
      BY <1>1, <1>9, PlacedIsSigned
    <2>3. call'[c].pc \notin Tracked
      BY <1>9 DEF Places, Exits
    <2> QED
      BY <2>1, <2>2, <2>3 DEF Signed, Tracked
  <1>10. CASE Moves(c)
    <2>1. Disabled(peer') => Disabled(peer)
      BY <1>1, <1>10, MoveFacts
    <2> QED
      BY <1>10, <2>1 DEF Moves, GoesTo, Installing, Signed
  <1> QED
    BY <1>1, <1>2, <1>3, <1>4, <1>5, <1>6, <1>7, <1>8, <1>9, <1>10 DEF TrustStep, TrustMoves

LEMMA InitSigned ==
  ASSUME NEW c \in Callers, Init
  PROVE  Signed(c)
  <1>1. Shown(peer) = {}
    BY DEF Init, StoredPeer, New, Shown, EffectiveOf
  <1>2. ~Disabled(peer)
    BY DEF Init, StoredPeer, New, Disabled
  <1> QED
    BY <1>1, <1>2 DEF Signed

\* identity.go:80: with one caller at a time, where every accepted manifest is
\* installed, the cache of a pinned domain is a manifest the pin signed, across
\* rotations and forgotten peers.
THEOREM OneCallerCachesSigned ==
  ASSUME ReadsWork, AlwaysInstalls, NEW c, Callers = {c}
  PROVE  Spec => []PinnedCacheIsSigned
  <1>1. Alone
    BY DEF Alone
  <1>2. Init => Signed(c)
    BY InitSigned
  <1>3. Inv /\ BoundInv /\ Signed(c) /\ [Next]_vars => Signed(c)'
    BY SignedStep
  <1>4. Signed(c) => PinnedCacheIsSigned
    BY DEF Signed, PinnedCacheIsSigned, Shown, EffectiveOf, Pinned
  <1> QED
    BY <1>1, <1>2, <1>3, <1>4, AloneInv, PTL DEF Spec

\* The same for any number of callers of a domain that has a pin, which cannot
\* move or be forgotten, and whichever write fails: the cache is signed by it.
THEOREM EstablishedCachesSigned ==
  ASSUME ReadsWork, Fixed
  PROVE  EstablishedSpec => []PinnedCacheIsSigned
  <1> DEFINE Certified == \A e \in Shown(peer) : e[2] = peer.identity.fp
             I == BoundInv /\ Pinned(peer) /\ Certified
  <1>1. EstablishedInit => I
    <2>1. Init => Shown(peer) = {}
      BY DEF Init, StoredPeer, New, Shown, EffectiveOf
    <2> QED
      BY <2>1, InitBound DEF EstablishedInit
  <1>2. Inv /\ I /\ [Next]_vars => I'
    <2> SUFFICES ASSUME Inv, I, [Next]_vars PROVE I'
      OBVIOUS
    <2>1. BoundInv' /\ PinKeptStep /\ Pinned(peer')
      BY BoundStep
    <2>2. peer'.identity.fp = peer.identity.fp
      BY <2>1 DEF PinKeptStep, Fixed, Pinned
    <2>3. TrustStep
      BY TrustSteps
    <2>4. CASE Shown(peer') \in {Shown(peer), {}}
      BY <2>1, <2>2, <2>4
    <2>5. CASE \E c \in Callers : Places(c)
      BY <2>1, <2>2, <2>5, PlacedIsSigned
    <2> QED
      BY <2>3, <2>4, <2>5, ShownSteps
  <1>3. EstablishedInit => Init
    BY DEF EstablishedInit
  <1>4. I => PinnedCacheIsSigned
    BY DEF PinnedCacheIsSigned, Shown, EffectiveOf, Pinned
  <1> QED
    BY <1>1, <1>2, <1>3, <1>4, SpecInv, PTL DEF Spec, EstablishedSpec

\* The watermark covers the manifest in effect and the one about to be, unless
\* the pin moved: then the one in effect is the old identity's.
Newest(c) ==
    /\ Installing(c) => IdentityOf(peer).issued = IssuedAt[call[c].res.manifest]
    /\ call[c].pc # "move-install" =>
          \A e \in Shown(peer) : IssuedAt[e[1]] <= IdentityOf(peer).issued
    /\ call[c].pc = "move-install" =>
          Pinned(peer) /\ \A e \in Shown(peer) : e[2] # peer.identity.fp

LEMMA ShownType ==
  ASSUME NEW p \in Peer \cup {None}, NEW e \in Shown(p)
  PROVE  IssuedAt[e[1]] \in Nat
  <1>1. p \in Peer /\ p # None /\ p.effective # None
    BY DEF Shown, EffectiveOf
  <1>2. e = <<p.effective.manifest, p.effective.signer>>
    BY <1>1 DEF Shown, EffectiveOf
  <1>3. p.effective.manifest \in Manifests
    BY <1>1 DEF Peer, ManifestRecord
  <1> QED
    BY <1>1, <1>2, <1>3, ManifestAssumption

LEMMA NewestStep ==
  ASSUME Inv, ReadsWork, AlwaysInstalls, BoundInv, NEW c, Callers = {c},
         Aged(c), Signed(c), torn \/ (Routed(c) /\ Newest(c)), [Next]_vars
  PROVE  (torn \/ Newest(c))'
  <1>1. TrustStep /\ c \in Callers /\ Bound(call[c], peer)
    BY TrustSteps DEF BoundInv
  <1> SUFFICES ASSUME ~torn' PROVE Newest(c)'
    OBVIOUS
  <1>2. CASE Forgotten
    <2>1. Shown(peer') = {} /\ ~Busy(c)
      BY <1>1, <1>2, ForgetFacts DEF Forgotten
    <2> QED
      BY <1>2, <2>1 DEF Forgotten, Busy, Installing, Newest
  <1> SUFFICES ASSUME Routed(c), Newest(c),
                      (UNCHANGED call /\ SameTrust(peer, peer')) \/ TrustMoves(c)
               PROVE  Newest(c)'
    BY <1>1, <1>2 DEF TrustStep
  <1>3. CASE UNCHANGED call /\ SameTrust(peer, peer')
    BY <1>3, SameTrustPin DEF SameTrust, Installing, Newest
  <1>4. CASE Leaves(c)
    BY <1>4 DEF Leaves, Exits, Tracked, SameTrust, AlwaysInstalls, Installing, Newest, Signed
  <1>5. CASE Routes(c) \/ Fetches(c) \/ Judges(c) \/ Latches(c) \/ Arrives(c)
    BY <1>5 DEF Routes, Fetches, Judges, Latches, Arrives, GoesTo, Installing, Newest
  <1>6. CASE Persists(c)
    <2> DEFINE i == IdentityOf(peer)
               j == IdentityOf(peer')
               s == IdentityOf(call[c].prev)
    <2>1. /\ Shown(peer') = Shown(peer) /\ j.issued >= s.issued
          /\ call'[c].pc = "install" => j.issued = IssuedAt[call[c].res.manifest]
          /\ call'[c].pc \in {"install", "chain"} \/ call'[c].pc \notin Tracked
      BY <1>1, <1>6, PersistFacts
    <2>2. /\ call[c].pc = "identity" /\ call[c].pc \in Deciding
          /\ call'[c].res = call[c].res
      BY <1>6 DEF Persists, GoesTo, SameLocals, Deciding
    <2>3. i.issued <= s.issued
      BY <2>2 DEF Aged
    <2>4. s \in IdentityState /\ i \in IdentityState /\ j \in IdentityState
      BY <1>1, <2>2, HeldTypes, IdentityOfType, NextInv DEF Inv, Typed
    <2>5. s.issued \in Nat /\ i.issued \in Nat /\ j.issued \in Nat
      BY <2>4 DEF IdentityState
    <2> HIDE DEF i, j, s
    <2>6. ASSUME NEW e \in Shown(peer')
          PROVE  IssuedAt[e[1]] <= j.issued
      <3>1. IssuedAt[e[1]] <= i.issued /\ IssuedAt[e[1]] \in Nat
        BY <2>1, <2>2, <2>6, ShownType DEF Newest, i, Inv, Typed
      <3> QED
        BY <2>1, <2>3, <2>5, <3>1
    <2> QED
      BY <2>1, <2>2, <2>6 DEF Newest, Installing, Tracked, j
  <1>7. CASE Places(c)
    <2>1. IdentityOf(peer') = IdentityOf(peer)
          /\ \A e \in Shown(peer') : e[1] = call[c].res.manifest
      BY <1>1, <1>7, PlaceFacts
    <2>2. IdentityOf(peer).issued = IssuedAt[call[c].res.manifest]
      BY <1>7 DEF Places, Newest, Installing
    <2>3. IdentityOf(peer).issued \in Nat
      BY IdentityOfType DEF Inv, Typed, IdentityState
    <2>4. call'[c].pc \notin Tracked
      BY <1>7 DEF Places, Exits
    <2> QED
      BY <2>1, <2>2, <2>3, <2>4 DEF Newest, Installing, Tracked
  <1>8. CASE Moves(c)
    <2>1. /\ Shown(peer') = Shown(peer) /\ peer' # None
          /\ IdentityOf(peer').status = "pinned"
          /\ IdentityOf(peer').fp = call[c].res.proof
          /\ IdentityOf(peer').issued = IssuedAt[call[c].res.manifest]
      BY <1>1, <1>8, MoveFacts
    <2>2. /\ call[c].pc = "move" /\ call'[c].pc = "move-install"
          /\ call'[c].res = call[c].res
      BY <1>8 DEF Moves, GoesTo, SameLocals
    <2>3. Pinned(peer') /\ peer'.identity.fp = call[c].res.proof
      BY <2>1, PinnedIdentity DEF IdentityOf
    <2>4. Pinned(call[c].prev) /\ call[c].res.proof # call[c].prev.identity.fp
      BY <1>1, <2>2 DEF Bound
    <2>5. Pinned(peer)
      BY <2>2, <2>4 DEF Routed, Held
    <2>6. call[c].prev.identity.fp = peer.identity.fp
      BY <1>1, <2>2, <2>5 DEF Bound, Held
    <2>7. \A e \in Shown(peer) : e[2] = peer.identity.fp
      BY <2>2, <2>5 DEF Signed, Installing
    <2> QED
      BY <2>1, <2>2, <2>3, <2>4, <2>6, <2>7 DEF Newest
  <1> QED
    BY <1>3, <1>4, <1>5, <1>6, <1>7, <1>8 DEF TrustMoves

\* An older manifest takes the place of a newer one only where the pin moved.
OlderOnlyOnMove ==
    /\ ~torn
    /\ peer # None /\ peer' # None
    /\ peer.effective # None /\ peer'.effective # None
    /\ IssuedAt[peer'.effective.manifest] < IssuedAt[peer.effective.manifest]
    => /\ Pinned(peer)
       /\ peer'.effective.signer = peer.identity.fp
       /\ peer.effective.signer # peer.identity.fp

LEMMA OlderStep ==
  ASSUME Inv, ReadsWork, BoundInv, NEW c, Callers = {c}, torn \/ Newest(c), [Next]_vars
  PROVE  OlderOnlyOnMove
  <1> SUFFICES ASSUME Newest(c), peer # None, peer' # None,
                      peer.effective # None, peer'.effective # None,
                      IssuedAt[peer'.effective.manifest] < IssuedAt[peer.effective.manifest]
               PROVE  /\ Pinned(peer)
                      /\ peer'.effective.signer = peer.identity.fp
                      /\ peer.effective.signer # peer.identity.fp
    BY DEF OlderOnlyOnMove
  <1> DEFINE old == <<peer.effective.manifest, peer.effective.signer>>
             new == <<peer'.effective.manifest, peer'.effective.signer>>
  <1>1. Shown(peer) = {old} /\ Shown(peer') = {new}
    BY DEF Shown, EffectiveOf
  <1>2. IssuedAt[old[1]] \in Nat /\ IssuedAt[new[1]] \in Nat
    BY <1>1, ShownType, NextInv DEF Inv, Typed
  <1>3. IssuedAt[new[1]] < IssuedAt[old[1]]
    OBVIOUS
  <1> HIDE DEF old, new
  <1>4. Places(c) /\ c \in Callers
    <2>1. CASE Shown(peer') \in {Shown(peer), {}}
      BY <1>1, <1>2, <1>3, <2>1
    <2> QED
      BY <2>1, TrustSteps, ShownSteps
  <1>5. CASE call[c].pc = "install"
    <2>1. IssuedAt[old[1]] <= IssuedAt[call[c].res.manifest]
      BY <1>1, <1>5 DEF Newest, Installing
    <2>2. new[1] = call[c].res.manifest
      BY <1>1, <1>4, PlaceFacts
    <2> QED
      BY <1>2, <1>3, <2>1, <2>2
  <1>6. CASE call[c].pc = "move-install"
    <2>1. Pinned(peer) /\ old[2] # peer.identity.fp
      BY <1>1, <1>6 DEF Newest
    <2>2. new[2] = peer.identity.fp
      BY <1>1, <1>4, <2>1, PlacedIsSigned
    <2> QED
      BY <2>1, <2>2 DEF old, new
  <1> QED
    BY <1>4, <1>5, <1>6 DEF Places

\* identity.go:209, "must not replace the newer effective manifest": with one
\* caller at a time, reads and writes that work and a domain nobody disables, an
\* older manifest replaces a newer one only across a rotation, until the record is
\* forgotten under a call.
THEOREM OneCallerKeepsNewer ==
  ASSUME ReadsWork, AlwaysInstalls, NEW c, Callers = {c}
  PROVE  Spec => NewerManifestKept
  <1> DEFINE I == Aged(c) /\ Signed(c) /\ (torn \/ (Routed(c) /\ Newest(c)))
  <1>1. Alone
    BY DEF Alone
  <1>2. Init => I
    <2> SUFFICES ASSUME Init PROVE I
      OBVIOUS
    <2>1. Shown(peer) = {} /\ call[c].pc = "idle"
      BY DEF Init, StoredPeer, New, Shown, EffectiveOf, Idle
    <2> QED
      BY <2>1, InitSigned DEF Aged, Routed, Held, Newest, Installing
  <1>3. Inv /\ BoundInv /\ I /\ [Next]_vars => I' /\ [OlderOnlyOnMove]_vars
    BY AgedStep, RoutedStep, SignedStep, NewestStep, OlderStep
  <1> HIDE DEF I
  <1>4. Spec => [][OlderOnlyOnMove]_vars
    BY <1>1, <1>2, <1>3, AloneInv, PTL DEF Spec
  <1> QED
    BY <1>4 DEF OlderOnlyOnMove, NewerManifestKept

-----------------------------------------------------------------------------
(* The service implements the trust anchor.                                *)

\* The latch is set by a fetched answer and lifted by an administrator, in a
\* step that does nothing to the record.
LEMMA CapSteps ==
  ASSUME [Next]_vars
  PROVE  \/ UNCHANGED cap
         \/ UNCHANGED peer /\ cap' = [cap EXCEPT !.ever = TRUE]
         \/ UNCHANGED peer /\ \E b \in BOOLEAN : cap' = [cap EXCEPT !.disabled = b]
  <1>1. ASSUME NEW c \in Callers, MarkValidated(c)
        PROVE  \/ UNCHANGED cap
               \/ UNCHANGED peer /\ cap' = [cap EXCEPT !.ever = TRUE]
    BY <1>1 DEF MarkValidated
  <1>2. ASSUME NEW c \in Callers, (\E op \in Ops : Begin(c, op)) \/ AddManual(c) \/ Finish(c)
        PROVE  UNCHANGED cap
    BY <1>2 DEF Begin, AddManual, Finish, OnPeer
  <1>3. ASSUME NEW c \in Callers, Outbound(c), ~MarkValidated(c)
        PROVE  UNCHANGED cap
    BY <1>3
       DEF Outbound, Local, OnPeer,
           LookupFails, LookupDisabled, LookupCached, LookupMisses, CheckDisabled,
           CheckCached, CheckMisses, Route, FetchFails, RecordFetchFailure,
           RaiseRefreshFailed, FetchAnswers, Decide, PersistIdentity, InstallAccepted,
           ClearAfterAccept, ChainUnhelpful, ChainBroken, ChainRevoked, ChainArrives,
           RaiseFromChain, MoveThePin, InstallMoved, ClearAfterMove, RecordRefusal,
           RaiseRefusal, AnswerRefusal, PolicyFailure
  <1>4. CASE Others
    BY <1>4 DEF Others, ObserveSighting, AdminSetPolicy, AdminSetDowngrade, AdminForget,
                Corrupt, Tick
  <1>5. CASE UNCHANGED vars
    BY <1>5 DEF vars
  <1> QED
    BY <1>1, <1>2, <1>3, <1>4, <1>5 DEF Next

\* The pin as the anchor sees it.
AnchorPin(p) == IF Pinned(p) THEN p.identity.fp ELSE None

LEMMA AnchorInit == Init => Anchor!Init
  <1> SUFFICES ASSUME Init PROVE Anchor!Init
    OBVIOUS
  <1>1. CASE peer = None /\ cap = [ever |-> FALSE, disabled |-> FALSE]
    BY <1>1 DEF Anchor!Init, Pinned
  <1>2. ASSUME NEW f \in Fingerprints, peer \in {StoredPeer(f, None), StoredPeer(f, f)},
               cap = [ever |-> TRUE, disabled |-> FALSE]
        PROVE  Anchor!Init
    <2>1. peer # None /\ peer.identity.status = "pinned" /\ peer.identity.fp = f
      BY <1>2, StoredPeerType
    <2> QED
      BY <1>2, <2>1 DEF Anchor!Init, Pinned
  <1> QED
    BY <1>1, <1>2 DEF Init

\* A record goes whole only under the automatic policy.
LEMMA DroppedIsAutomatic ==
  ASSUME Inv, ReadsWork, BoundInv, [Next]_vars, Pinned(peer), ~Pinned(peer'), PinKeptStep
  PROVE  peer # None /\ peer.policy = "auto"
  <1>1. TrustStep /\ peer' = None /\ peer \in Peer
    BY TrustSteps DEF PinKeptStep, Pinned, Inv, Typed
  <1>2. ASSUME SameTrust(peer, peer')
        PROVE  FALSE
    BY <1>2, SameTrustPin
  <1>3. CASE Forgotten
    BY <1>1, <1>3, ForgetPeerKeeps DEF Forgotten, Pinned
  <1>4. ASSUME NEW c \in Callers, TrustMoves(c)
        PROVE  FALSE
    <2>1. Bound(call[c], peer)
      BY DEF BoundInv
    <2>2. ~Persists(c) /\ ~Places(c) /\ ~Moves(c)
      BY <1>1, <2>1, PersistFacts, PlaceFacts, MoveFacts
    <2>3. UNCHANGED peer \/ Leaves(c)
      BY <1>4, <2>2 DEF TrustMoves, Routes, Fetches, Judges, Latches, Arrives
    <2> QED
      BY <1>2, <2>3 DEF Leaves
  <1> QED
    BY <1>1, <1>2, <1>3, <1>4 DEF TrustStep

LEMMA AnchorStep ==
  ASSUME Inv, ReadsWork, BoundInv, Alone, [Next]_vars
  PROVE  [Anchor!Next]_Anchor!vars
  <1> DEFINE old == AnchorPin(peer)
             new == AnchorPin(peer')
  <1>1. /\ peer \in Peer \cup {None} /\ peer' \in Peer \cup {None}
        /\ cap \in Capability /\ cap' \in Capability /\ PinImpliesLatch'
    BY NextInv DEF Inv, Typed
  <1>2. Tied(IdentityOf(peer')) /\ PinKeptStep
    BY BoundStep DEF BoundInv
  <1>3. Pinned(peer') => new \in Fingerprints
    BY <1>1, <1>2, PinIsFingerprint DEF AnchorPin
  <1>4. \/ new = old
        \/ new = None /\ peer # None /\ peer.policy = "auto"
        \/ old = None /\ new \in Fingerprints /\ cap'.ever
        \/ <<old, new>> \in Succession /\ new \in Fingerprints
    BY <1>1, <1>2, <1>3, DroppedIsAutomatic DEF AnchorPin, PinKeptStep, PinImpliesLatch, Pinned
  <1>5. Anchor!vars = <<cap.ever, cap.disabled, old>>
    BY DEF Anchor!vars, AnchorPin
  <1>6. (Anchor!vars)' = <<cap'.ever, cap'.disabled, new>>
    BY DEF Anchor!vars, AnchorPin
  <1>7. CASE UNCHANGED cap
    <2> DEFINE kept == cap'.ever = cap.ever /\ cap'.disabled = cap.disabled
    <2>1. kept
      BY <1>7
    <2>2. CASE new = old
      BY <1>5, <1>6, <2>1, <2>2
    <2>3. CASE new = None /\ peer # None /\ peer.policy = "auto"
      BY <2>1, <2>3 DEF Anchor!Next, Anchor!Forget, AnchorPin
    <2>4. CASE old = None /\ new \in Fingerprints /\ cap'.ever
      BY <2>1, <2>4 DEF Anchor!Next, Anchor!Pin, AnchorPin
    <2>5. CASE <<old, new>> \in Succession /\ new \in Fingerprints
      BY <2>1, <2>5 DEF Anchor!Next, Anchor!Rotate, AnchorPin
    <2> QED
      BY <1>4, <2>2, <2>3, <2>4, <2>5
  <1>8. CASE UNCHANGED peer /\ cap' = [cap EXCEPT !.ever = TRUE]
    <2>1. cap'.ever = TRUE /\ cap'.disabled = cap.disabled
      BY <1>1, <1>8 DEF Capability
    <2> QED
      BY <1>8, <2>1 DEF Anchor!Next, Anchor!Validate
  <1>9. ASSUME NEW b \in BOOLEAN, UNCHANGED peer, cap' = [cap EXCEPT !.disabled = b]
        PROVE  Anchor!Next
    <2>1. cap'.disabled = b /\ cap'.ever = cap.ever
      BY <1>1, <1>9 DEF Capability
    <2> QED
      BY <1>9, <2>1 DEF Anchor!Next, Anchor!Lift
  <1> QED
    BY <1>7, <1>8, <1>9, CapSteps

\* Seen as a latch and a pin, the whole service does only what TrustAnchor
\* allows: with one caller at a time it implements it, whatever the authority
\* serves, whoever forgets the peer and whichever write fails; a pin whose record
\* an administrator's policy keeps is not dropped.
THEOREM OneCallerImplementsAnchor ==
  ASSUME ReadsWork, Alone
  PROVE  Spec => ImplementsTrustAnchor
  <1>1. Inv /\ BoundInv /\ [Next]_vars => [Anchor!Next]_Anchor!vars
    BY AnchorStep
  <1> QED
    BY <1>1, AnchorInit, AloneInv, PTL DEF Spec, ImplementsTrustAnchor, Anchor!Spec

=============================================================================
