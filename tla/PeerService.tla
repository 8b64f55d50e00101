----------------------------- MODULE PeerService -----------------------------
(***************************************************************************)
(* Outbound resolution for one mail domain (peer/service.go resolve and    *)
(* its callers) over the peer store.  Every caller - a send, a background  *)
(* worker, an administrator's Refresh or AddPeer - runs the same procedure *)
(* as a sequence of store calls, and anything may happen between two of    *)
(* them: another caller's steps, an observation, an administrator's        *)
(* decision, the clock.  Only the single store calls are atomic.           *)
(*                                                                         *)
(* The authority and the network answer what they like.  The store may     *)
(* fail a call of a kind in FaultKinds, MaxFaults times in all.            *)
(***************************************************************************)
EXTENDS PeerState

CONSTANTS
    Callers,        \* goroutines inside the service
    Ops,            \* what they may be asked to do, a subset of Operations
    Answers,        \* what the authority may serve
    Succession,     \* <<old, new>>: signed statements lead from old to new
    Withdrawn,      \* identities revoked with no successor
    Sightings,      \* what DNS and headers may say
    AdminPolicies,  \* policies an administrator may set
    AdminActs,      \* a subset of {"forget", "downgrade"}
    MaxClockSkew,   \* manifest.Limits, how far ahead issued_at may lie
    FaultKinds,     \* a subset of {"read", "write", "latch", "corrupt"}
    MaxFaults, MaxCalls, MaxTime    \* bounds

Operations == {"send", "send-accepting", "worker", "refresh", "add"}

\* What one response carries: a manifest, its proof, and the max-age (None
\* when Cache-Control does not say).
ASSUME CallAssumption ==
    /\ Ops \subseteq Operations
    /\ Answers \subseteq [manifest : Manifests, proof : Proofs, maxAge : Nat \cup {None}]
    /\ \A s \in Sightings :
          /\ s \in [source : Sources, id : Manifests \cup {None}, fp : Fingerprints \cup {None},
                    authority : Delegates \cup {None}, status : ObservationStatuses]
          /\ s.source # "manual"
    /\ AdminPolicies \subseteq Policies \ {"none"}
    /\ MaxClockSkew \in Nat
    /\ MaxFaults \in Nat /\ MaxCalls \in Nat /\ MaxTime \in Nat \ {0}
ASSUME SuccessionAssumption ==
    /\ Succession \subseteq Fingerprints \X Fingerprints
    /\ \A a, b, d \in Fingerprints :
          <<a, b>> \in Succession /\ <<b, d>> \in Succession => <<a, d>> \in Succession
    /\ Withdrawn \subseteq Fingerprints

VARIABLES
    peer,       \* the stored record, or None
    cap,        \* the capability latch, kept apart from the record
    now,        \* the clock
    call,       \* [Callers -> the locals of the call in progress]
    owed,       \* auxiliary: what each send in progress may count on
    torn,       \* auxiliary: the record was last forgotten under a call in progress
    faults, begun    \* store faults and calls so far

vars == <<peer, cap, now, call, owed, torn, faults, begun>>

PCs == {"idle", "manual", "lookup", "check", "route", "fetch", "failed", "failed-issue",
        "decide", "latch", "identity", "chain", "broken", "revoked", "move", "move-install",
        "move-clear", "refuse", "refuse-issue", "answer", "install", "clear", "policy", "done"}

Errors == {"none", "disabled", "required", "bare"}

\* The part of a peer read from the store that the code uses later.
Snapshot(p) ==
    IF p = None THEN None
    ELSE [policy |-> p.policy, effective |-> p.effective, identity |-> p.identity]

Idle == [pc |-> "idle", op |-> "send", policy |-> None, fallback |-> None, route |-> None,
         res |-> None, prev |-> None, verdict |-> None, got |-> None, err |-> "none"]

Sends == {"send", "send-accepting"}

-----------------------------------------------------------------------------
(* Helpers: moving one caller, failing one store call, returning.          *)

At(c, pc) == call[c].pc = pc

Busy(c) == call[c].pc \notin {"idle", "done"}

Goto(c, pc) == call' = [call EXCEPT ![c].pc = pc]

\* One store call fails.
Breaks(kind) ==
    /\ kind \in FaultKinds
    /\ faults < MaxFaults
    /\ faults' = faults + 1

Works == faults' = faults

\* Nothing but the named parts of the state is touched by a caller's step.
Local == UNCHANGED <<peer, cap, now, owed, torn, begun>>
OnPeer == UNCHANGED <<cap, now, owed, torn, begun>>

\* The call is over, with a manifest or an error.
Ends(c, m, e) ==
    call' = [call EXCEPT ![c] = [Idle EXCEPT !.pc = "done", !.op = call[c].op,
                                             !.got = m, !.err = e]]

\* An error on a send goes through policyFailure; it keeps the first read's policy.
ToPolicy(c, e) ==
    call' = [call EXCEPT ![c] = [Idle EXCEPT !.pc = "policy", !.op = call[c].op,
                                             !.policy = call[c].policy, !.err = e]]

\* resultOf: the stored bytes are parsed again, and may no longer parse.
ReturnStored(c, rec) ==
    IF rec.intact THEN Ends(c, rec.manifest, "none") ELSE ToPolicy(c, "bare")

\* resolve returns an error.  A send still holding a usable cached manifest
\* prefers it to any error.
ReturnError(c, e) ==
    IF call[c].op \notin Sends THEN Ends(c, None, e)
    ELSE IF call[c].fallback # None THEN ReturnStored(c, call[c].fallback)
    ELSE ToPolicy(c, e)

\* resolve returns a manifest it found in the cache.
ReturnCached(c, rec) ==
    IF rec.intact THEN Ends(c, rec.manifest, "none") ELSE ReturnError(c, "bare")

-----------------------------------------------------------------------------
(* Starting a call.                                                        *)

Entry(op) ==
    IF op \in Sends THEN "lookup"
    ELSE IF op = "worker" THEN "check"
    ELSE IF op = "add" THEN "manual" ELSE "route"

\* owed records what held when a send began: the latch, or a require policy.
Begin(c, op) ==
    /\ At(c, "idle")
    /\ begun < MaxCalls
    /\ begun' = begun + 1
    /\ call' = [call EXCEPT ![c] = [Idle EXCEPT !.op = op, !.pc = Entry(op)]]
    /\ owed' = [owed EXCEPT ![c] =
            {o \in {"latch", "require"} :
                /\ op \in Sends
                /\ ~Disabled(peer)
                /\ o = "latch" => Requires(cap)
                /\ o = "require" => peer # None /\ peer.policy = "require"}]
    /\ UNCHANGED <<peer, cap, now, torn, faults>>

Finish(c) ==
    /\ At(c, "done")
    /\ call' = [call EXCEPT ![c] = Idle]
    /\ owed' = [owed EXCEPT ![c] = {}]
    /\ UNCHANGED <<peer, cap, now, torn, faults, begun>>

\* AddPeer's manual observation, whose failure ends the call.
AddManual(c) ==
    /\ At(c, "manual")
    /\ \/ /\ Breaks("write")
          /\ Ends(c, None, "bare")
          /\ UNCHANGED peer
       \/ /\ Works
          /\ peer' = PutObservation(peer, [source |-> "manual", id |-> None, fp |-> None,
                                           authority |-> None, at |-> now,
                                           status |-> "pending"])
          /\ Goto(c, "route")
    /\ OnPeer

-----------------------------------------------------------------------------
(* resolveForEncryption up to its call of resolve.                         *)

LookupFails(c) ==
    /\ At(c, "lookup")
    /\ Breaks("read")
    /\ ToPolicy(c, "bare")
    /\ Local

LookupDisabled(c) ==
    /\ At(c, "lookup")
    /\ Disabled(peer)
    /\ ToPolicy(c, "disabled")
    /\ Works /\ Local

\* The common case: a valid cached manifest, no network at all.
LookupCached(c) ==
    /\ At(c, "lookup")
    /\ Usable(peer, now) /\ ~NeedsRefresh(peer, now)
    /\ IF peer.effective.intact
       THEN Ends(c, peer.effective.manifest, "none")
       ELSE call' = [call EXCEPT ![c].pc = "policy", ![c].policy = peer.policy,
                                 ![c].err = "bare"]
    /\ Works /\ Local

LookupMisses(c) ==
    /\ At(c, "lookup")
    /\ ~Disabled(peer)
    /\ ~(Usable(peer, now) /\ ~NeedsRefresh(peer, now))
    /\ call' = [call EXCEPT ![c].pc = "check",
                            ![c].policy = IF peer = None THEN None ELSE peer.policy,
                            ![c].fallback = IF Usable(peer, now) THEN peer.effective ELSE None]
    /\ Works /\ Local

-----------------------------------------------------------------------------
(* resolve.                                                                *)

\* The shortcut of an unforced resolution; a read that fails is ignored.
CheckDisabled(c) ==
    /\ At(c, "check")
    /\ Disabled(peer)
    /\ ReturnError(c, "disabled")
    /\ Works /\ Local

CheckCached(c) ==
    /\ At(c, "check")
    /\ Usable(peer, now) /\ ~NeedsRefresh(peer, now)
    /\ ReturnCached(c, peer.effective)
    /\ Works /\ Local

CheckMisses(c) ==
    /\ At(c, "check")
    /\ \/ Breaks("read")
       \/ ~Disabled(peer) /\ ~(Usable(peer, now) /\ ~NeedsRefresh(peer, now)) /\ Works
    /\ Goto(c, "route")
    /\ Local

\* authorityHint; a read that fails means the subject-domain endpoint.
Route(c) ==
    /\ At(c, "route")
    /\ \/ Breaks("read") /\ Goto(c, "fetch")
       \/ Works /\ call' = [call EXCEPT ![c].pc = "fetch", ![c].route = AuthorityHint(peer)]
    /\ Local

\* cacheUntil: max-age may shorten the cache life, never lengthen it.
CacheUntil(a) ==
    IF a.maxAge # None /\ now + a.maxAge < NotAfter[a.manifest]
    THEN now + a.maxAge ELSE NotAfter[a.manifest]

\* The resolver returns only a manifest that is valid now.
FetchAnswers(c, a) ==
    /\ At(c, "fetch")
    /\ IssuedAt[a.manifest] <= now + MaxClockSkew /\ now < NotAfter[a.manifest]
    /\ call' = [call EXCEPT ![c].pc = "decide",
                            ![c].res = [manifest |-> a.manifest, proof |-> a.proof,
                                        fetched |-> now, until |-> CacheUntil(a)]]
    /\ Works /\ Local

FetchFails(c) ==
    /\ At(c, "fetch")
    /\ Goto(c, "failed")
    /\ Works /\ Local

RecordFetchFailure(c) ==
    /\ At(c, "failed")
    /\ \/ Breaks("write") /\ ReturnError(c, "bare") /\ UNCHANGED peer
       \/ Works /\ peer' = RecordFailure(peer, now) /\ Goto(c, "failed-issue")
    /\ OnPeer

RaiseRefreshFailed(c) ==
    /\ At(c, "failed-issue")
    /\ \/ Breaks("write") /\ UNCHANGED peer
       \/ Works /\ peer' = RecordIssue(peer, "refresh-failed")
    /\ ReturnError(c, "bare")
    /\ OnPeer

\* prev and the verdict on it; a read that fails leaves no prev.
Decide(c) ==
    /\ At(c, "decide")
    /\ \E p \in {peer, None} :
          /\ IF p = peer THEN Works ELSE Breaks("read")
          /\ call' = [call EXCEPT
                ![c].pc = "latch",
                ![c].prev = Snapshot(p),
                ![c].verdict = DecideIdentity(IdentityOf(p), call[c].res, Usable(p, now))]
    /\ Local

\* Mutant: a latch that cannot be written does not stop the resolution.
MarkValidatedIgnored(c) ==
    /\ At(c, "latch")
    /\ \/ Breaks("latch") /\ UNCHANGED cap
       \/ Works /\ cap' = [cap EXCEPT !.ever = TRUE]
    /\ Goto(c, "identity")
    /\ UNCHANGED <<peer, now, owed, torn, begun>>

\* persistenceHold: a trust-state write that fails holds the mail.
MarkValidated(c) ==
    /\ At(c, "latch")
    /\ \/ Breaks("latch") /\ ReturnError(c, "required") /\ UNCHANGED cap
       \/ Works /\ cap' = [cap EXCEPT !.ever = TRUE] /\ Goto(c, "identity")
    /\ UNCHANGED <<peer, now, owed, torn, begun>>

\* Mutants: any refusal walks the chain; a usable cache admits the response.
AfterIdentityAlwaysWalks(v) == IF v.accept THEN "install" ELSE "chain"
AfterIdentityByEncrypt(v) == IF v.encrypt THEN "install" ELSE "refuse"

AfterIdentity(v) ==
    IF v.accept THEN "install"
    ELSE IF v.reason = "pinned/valid-proof-other-signer" THEN "chain" ELSE "refuse"

PersistIdentity(c) ==
    LET v == call[c].verdict
    IN  /\ At(c, "identity")
        /\ \/ Breaks("write") /\ ReturnError(c, "required") /\ UNCHANGED peer
           \/ /\ Works
              /\ peer' = SetIdentity(peer, ApplyIdentity(IdentityOf(call[c].prev), v, call[c].res))
              /\ Goto(c, AfterIdentity(v))
        /\ OnPeer

InstallAccepted(c) ==
    /\ At(c, "install")
    /\ \/ Breaks("write") /\ ReturnError(c, "bare") /\ UNCHANGED peer
       \/ Works /\ Disabled(peer) /\ ReturnError(c, "disabled") /\ UNCHANGED peer
       \/ /\ Works /\ ~Disabled(peer)
          /\ peer' = Install(Upsert(peer), call[c].res, now)
          /\ Goto(c, "clear")
    /\ OnPeer

ClearedOnAccept == {"signer-changed", "proof-missing", "pin-withheld", "replay",
                    "refresh-failed", "downgrade-blocked"}

\* The loop over ClearIssue; each may fail and the loop goes on.
ClearAfterAccept(c) ==
    /\ At(c, "clear")
    /\ \/ Works /\ peer' = ClearIssues(peer, ClearedOnAccept)
       \/ Breaks("write") /\ \E x \in ClearedOnAccept :
                                 peer' = ClearIssues(peer, ClearedOnAccept \ {x})
    /\ Ends(c, call[c].res.manifest, "none")
    /\ OnPeer

-----------------------------------------------------------------------------
(* followRotation: the published history, walked from the pin this call    *)
(* read.                                                                   *)

\* No key beside the pin, no answer, or a walk that ends somewhere else.
ChainUnhelpful(c) ==
    /\ At(c, "chain")
    /\ Goto(c, "refuse")
    /\ Works /\ Local

ChainBroken(c) ==
    /\ At(c, "chain")
    /\ call[c].prev.identity.key # None
    /\ Goto(c, "broken")
    /\ Works /\ Local

ChainRevoked(c) ==
    /\ At(c, "chain")
    /\ call[c].prev.identity.key # None
    /\ \E f \in Withdrawn :
          f = call[c].prev.identity.fp \/ <<call[c].prev.identity.fp, f>> \in Succession
    /\ Goto(c, "revoked")
    /\ Works /\ Local

\* Mutant: a chain that verifies is enough, wherever it ends.
ChainArrivesAnywhere(c) ==
    /\ At(c, "chain")
    /\ call[c].prev.identity.key # None
    /\ Goto(c, "move")
    /\ Works /\ Local

ChainArrives(c) ==
    /\ At(c, "chain")
    /\ call[c].prev.identity.key # None
    /\ <<call[c].prev.identity.fp, call[c].res.proof>> \in Succession
    /\ Goto(c, "move")
    /\ Works /\ Local

RaiseFromChain(c) ==
    /\ At(c, "broken") \/ At(c, "revoked")
    /\ \/ Breaks("write") /\ UNCHANGED peer
       \/ /\ Works
          /\ peer' = RecordIssue(peer, IF At(c, "broken") THEN "signer-changed" ELSE "revoked")
    /\ Goto(c, "refuse")
    /\ OnPeer

\* A write that fails leaves the refusal standing.
MoveThePin(c) ==
    /\ At(c, "move")
    /\ \/ Breaks("write") /\ Goto(c, "refuse") /\ UNCHANGED peer
       \/ /\ Works
          /\ peer' = SetIdentity(peer, MovePin(call[c].prev.identity, call[c].res.proof, call[c].res))
          /\ Goto(c, "move-install")
    /\ OnPeer

InstallMoved(c) ==
    /\ At(c, "move-install")
    /\ \/ Breaks("write") /\ Goto(c, "refuse") /\ UNCHANGED peer
       \/ Works /\ Disabled(peer) /\ Goto(c, "refuse") /\ UNCHANGED peer
       \/ /\ Works /\ ~Disabled(peer)
          /\ peer' = Install(Upsert(peer), call[c].res, now)
          /\ Goto(c, "move-clear")
    /\ OnPeer

ClearedOnMove == {"signer-changed", "proof-missing", "mail-held"}

ClearAfterMove(c) ==
    /\ At(c, "move-clear")
    /\ \/ Works /\ peer' = ClearIssues(peer, ClearedOnMove)
       \/ Breaks("write") /\ \E x \in ClearedOnMove :
                                 peer' = ClearIssues(peer, ClearedOnMove \ {x})
    /\ Ends(c, call[c].res.manifest, "none")
    /\ OnPeer

-----------------------------------------------------------------------------
(* A refusal.                                                              *)

RecordRefusal(c) ==
    /\ At(c, "refuse")
    /\ \/ Breaks("write") /\ UNCHANGED peer
       \/ Works /\ peer' = RecordFailure(peer, now)
    /\ Goto(c, "refuse-issue")
    /\ OnPeer

RaiseRefusal(c) ==
    /\ At(c, "refuse-issue")
    /\ \/ Breaks("write") /\ UNCHANGED peer
       \/ Works /\ peer' = RecordIssue(peer, IssueOf(call[c].verdict.reason))
    /\ Goto(c, "answer")
    /\ OnPeer

\* The trusted cache if it was usable, the override if the sender took it,
\* otherwise a hold.
AnswerRefusal(c) ==
    LET v == call[c].verdict
        prev == call[c].prev
    IN  /\ At(c, "answer")
        /\ IF v.encrypt /\ Usable(prev, now) THEN ReturnCached(c, prev.effective)
           ELSE IF /\ ~v.encrypt
                   /\ call[c].op = "send-accepting"
                   /\ Overridable(v.reason, call[c].res)
                THEN Ends(c, call[c].res.manifest, "none")
           ELSE ReturnError(c, "required")
        /\ Works /\ Local

-----------------------------------------------------------------------------
(* policyFailure: may "no usable key" become plaintext?                    *)

\* Mutants: an unreadable latch counts as unset; a require policy is not asked.
PolicyFailureOpen(c) ==
    /\ At(c, "policy")
    /\ \/ Breaks("latch") /\ Ends(c, None, call[c].err)
       \/ Works /\ Ends(c, None, IF Requires(cap) THEN "required" ELSE call[c].err)
    /\ Local
PolicyFailureLatchOnly(c) ==
    /\ At(c, "policy")
    /\ Works
    /\ Ends(c, None, IF call[c].err # "disabled" /\ Requires(cap) THEN "required" ELSE call[c].err)
    /\ Local

PolicyFailure(c) ==
    /\ At(c, "policy")
    /\ \/ call[c].err = "disabled" /\ Works /\ Ends(c, None, "disabled")
       \/ /\ call[c].err # "disabled"
          /\ call[c].policy = "require"
          /\ Works /\ Ends(c, None, "required")
       \/ /\ call[c].err # "disabled" /\ call[c].policy # "require"
          /\ Breaks("latch") /\ Ends(c, None, "required")
       \/ /\ call[c].err # "disabled" /\ call[c].policy # "require"
          /\ Works /\ Ends(c, None, IF Requires(cap) THEN "required" ELSE call[c].err)
    /\ Local

-----------------------------------------------------------------------------
(* Everyone else: observers, administrators, the disk, the clock.          *)

Calls == UNCHANGED <<now, call, begun>>

\* An observer took its time stamp before it reached the store.
ObserveSighting(s, at) ==
    /\ peer' = PutObservation(peer, [source |-> s.source, id |-> s.id, fp |-> s.fp,
                                     authority |-> s.authority, at |-> at,
                                     status |-> s.status])
    /\ Works /\ Calls /\ UNCHANGED <<cap, owed, torn>>

\* Loosening frees the sends in progress from what they were owed.
AdminSetPolicy(policy) ==
    /\ peer' = SetPolicy(peer, policy, now)
    /\ owed' = [c \in Callers |-> IF policy = "disabled" THEN {}
                                  ELSE IF policy = "auto" THEN owed[c] \ {"require"}
                                  ELSE owed[c]]
    /\ Works /\ Calls /\ UNCHANGED <<cap, torn>>

AdminSetDowngrade(disabled) ==
    /\ "downgrade" \in AdminActs
    /\ cap' = [cap EXCEPT !.disabled = disabled]
    /\ owed' = [c \in Callers |-> IF disabled THEN owed[c] \ {"latch"} ELSE owed[c]]
    /\ Works /\ Calls /\ UNCHANGED <<peer, torn>>

AdminForget ==
    /\ "forget" \in AdminActs
    /\ peer' = ForgetPeer(peer)
    /\ torn' = \E c \in Callers : Busy(c)
    /\ Works /\ Calls /\ UNCHANGED <<cap, owed>>

\* Stored bytes that no longer parse: a truncated record, a restored backup.
Corrupt ==
    /\ peer # None
    /\ peer.effective # None /\ peer.effective.intact
    /\ Breaks("corrupt")
    /\ peer' = [peer EXCEPT !.effective.intact = FALSE]
    /\ Calls /\ UNCHANGED <<cap, owed, torn>>

Tick ==
    /\ now < MaxTime
    /\ now' = now + 1
    /\ UNCHANGED <<peer, cap, call, owed, torn, faults, begun>>

-----------------------------------------------------------------------------

\* A record a previous run left behind: pinned and latched, by a build that
\* kept the key beside the pin or by one that did not yet.
StoredPeer(f, key) ==
    [New EXCEPT !.identity = [NoIdentity EXCEPT !.status = "pinned", !.fp = f, !.key = key]]

Init ==
    /\ \/ peer = None /\ cap = [ever |-> FALSE, disabled |-> FALSE]
       \/ /\ \E f \in Fingerprints : peer \in {StoredPeer(f, None), StoredPeer(f, f)}
          /\ cap = [ever |-> TRUE, disabled |-> FALSE]
    /\ now = 1
    /\ call = [c \in Callers |-> Idle]
    /\ owed = [c \in Callers |-> {}]
    /\ torn = FALSE
    /\ faults = 0 /\ begun = 0

Outbound(c) ==
    \/ LookupFails(c) \/ LookupDisabled(c) \/ LookupCached(c) \/ LookupMisses(c)
    \/ CheckDisabled(c) \/ CheckCached(c) \/ CheckMisses(c) \/ Route(c)
    \/ FetchFails(c) \/ RecordFetchFailure(c) \/ RaiseRefreshFailed(c)
    \/ \E a \in Answers : FetchAnswers(c, a)
    \/ Decide(c) \/ MarkValidated(c) \/ PersistIdentity(c)
    \/ InstallAccepted(c) \/ ClearAfterAccept(c)
    \/ ChainUnhelpful(c) \/ ChainBroken(c) \/ ChainRevoked(c) \/ ChainArrives(c)
    \/ RaiseFromChain(c) \/ MoveThePin(c) \/ InstallMoved(c) \/ ClearAfterMove(c)
    \/ RecordRefusal(c) \/ RaiseRefusal(c) \/ AnswerRefusal(c) \/ PolicyFailure(c)

Others ==
    \/ \E s \in Sightings, at \in 1..now : ObserveSighting(s, at)
    \/ \E policy \in AdminPolicies : AdminSetPolicy(policy)
    \/ \E disabled \in BOOLEAN : AdminSetDowngrade(disabled)
    \/ AdminForget \/ Corrupt \/ Tick

Next ==
    \/ \E c \in Callers : (\E op \in Ops : Begin(c, op)) \/ AddManual(c) \/ Outbound(c) \/ Finish(c)
    \/ Others

Spec == Init /\ [][Next]_vars

\* Only the domains a pin exists for already.
EstablishedInit == Init /\ Pinned(peer)
EstablishedSpec == EstablishedInit /\ [][Next]_vars

-----------------------------------------------------------------------------
(* Types.                                                                  *)

PeerView == [policy : Policies, effective : ManifestRecord \cup {None},
             identity : IdentityState]

\* A nil snapshot is no snapshot.
ASSUME ViewAssumption == None \notin PeerView

CallState ==
    [pc : PCs, op : Operations, policy : Policies \cup {None},
     fallback : ManifestRecord \cup {None}, route : Delegates \cup {None},
     res : Result \cup {None}, prev : PeerView \cup {None},
     verdict : Verdict \cup {None}, got : Manifests \cup {None}, err : Errors]

\* The program counters at which a fetched result, and a verdict on it, exist.
Deciding == {"latch", "identity", "chain", "broken", "revoked", "move", "move-install",
             "move-clear", "refuse", "refuse-issue", "answer", "install", "clear"}
Walking == {"chain", "broken", "revoked", "move", "move-install", "move-clear"}

\* What a caller's locals hold at each point of the procedure.
CallShape(k) ==
    /\ k.pc \in Deciding \cup {"decide"} => k.res \in Result /\ k.res.fetched <= k.res.until
    /\ k.pc \in Deciding => k.verdict \in Verdict
    /\ k.pc \in Walking => k.prev \in PeerView /\ k.res.proof \in Fingerprints

\* Every stored record, latch and local is of its type, and a caller that is
\* past the fetch or past the verdict has what the code dereferences there.
TypeOK ==
    /\ peer \in Peer \cup {None}
    /\ cap \in Capability
    /\ now \in Nat
    /\ call \in [Callers -> CallState]
    /\ \A c \in Callers : CallShape(call[c])
    /\ owed \in [Callers -> SUBSET {"latch", "require"}]
    /\ torn \in BOOLEAN
    /\ faults \in Nat /\ begun \in Nat

-----------------------------------------------------------------------------
(* Properties.                                                             *)

\* service.go policyFailure and persistenceHold: a send that began while the
\* latch required encryption ends with a key or a hold, never in plaintext,
\* whatever fails on the way, unless an administrator disables meanwhile.
LatchedNeverPlaintext ==
    \A c \in Callers :
        At(c, "done") /\ "latch" \in owed[c] => call[c].err \notin {"bare", "disabled"}

\* mailkey.go PolicyRequire, "refuses plaintext": the same for a send that
\* began under the require policy, latched or not.
RequireNeverPlaintext ==
    \A c \in Callers :
        At(c, "done") /\ "require" \in owed[c] => call[c].err \notin {"bare", "disabled"}

\* service.go:645, "a pin without the downgrade latch - is never created":
\* whatever store call fails and whoever interleaves.
PinImpliesLatch == Pinned(peer) => cap.ever

\* 07-DOMAIN-IDENTITY 6.3: an established pin is never lost or replaced; it
\* goes with the whole record, or moves along signed statements.
PinKeptStep ==
    Pinned(peer) /\ peer' # None =>
        /\ Pinned(peer')
        /\ \/ peer'.identity.fp = peer.identity.fp
           \/ <<peer.identity.fp, peer'.identity.fp>> \in Succession
PinKept == [][PinKeptStep]_vars

\* identity.go checkReplay: what this sender has verified under one identity
\* never goes back in time.
WatermarkKept ==
    [][peer # None /\ peer' # None /\ peer'.identity.fp = peer.identity.fp
        => peer'.identity.issued >= peer.identity.issued]_vars

\* identity.go:209, "must not replace the newer effective manifest": an older
\* manifest replaces a newer one only when the pin moved to a new identity, or an
\* administrator last forgot the record, and its watermark, in the middle of a call
\* (which then stores what it fetched, with no watermark beside it).
NewerManifestKept ==
    [][/\ ~torn
       /\ peer # None /\ peer' # None
       /\ peer.effective # None /\ peer'.effective # None
       /\ IssuedAt[peer'.effective.manifest] < IssuedAt[peer.effective.manifest]
       => /\ Pinned(peer)
          /\ peer'.effective.signer = peer.identity.fp
          /\ peer.effective.signer # peer.identity.fp]_vars

\* identity.go:80, the cache of a pinned domain is "a valid manifest signed by
\* the pin", whenever no caller is between moving the pin and installing.
Installing(c) == call[c].pc \in {"install", "move-install"}
PinnedCacheIsSigned ==
    /\ Pinned(peer) /\ peer.effective # None
    /\ \A c \in Callers : ~Installing(c)
    => peer.effective.signer = peer.identity.fp

\* service.go authorityHint, "First contact therefore always uses the
\* subject-domain WebPKI endpoint": what is accepted without a pin was not
\* fetched where an observation said, unless the pin was forgotten under a call.
FirstContactIsDirect ==
    \A c \in Callers :
        At(c, "install") /\ ~Pinned(call[c].prev) /\ ~torn => call[c].route = None

\* issues.go IssueRevoked, "Mail holds": a refusal on a domain whose identity
\* is known to be withdrawn hands out no key.
RevokedHolds ==
    [][\A c \in Callers :
        /\ At(c, "answer") /\ call[c].op \in Sends
        /\ peer # None
        /\ "revoked" \in peer.issues
        => call'[c].got = None]_vars

\* state.go Usable, "A manifest past its cache expiry is not usable even though it
\* is still stored": a send that looks the domain up then has nothing to seal with
\* and nothing to fall back on.
PastCacheIsUnused ==
    [][\A c \in Callers :
        /\ At(c, "lookup") /\ ~At(c, "lookup")'
        /\ peer # None /\ peer.effective # None
        /\ peer.effective.until <= now
        => call'[c].got = None /\ call'[c].fallback = None]_vars

\* The pin and the latch, seen alone, do only what TrustAnchor allows: a pin is
\* born behind the latch where there is none, and moves along signed statements.
Anchor == INSTANCE TrustAnchor WITH
    latch <- cap.ever, lifted <- cap.disabled,
    managed <- peer # None /\ peer.policy # "auto",
    pin <- IF Pinned(peer) THEN peer.identity.fp ELSE None
ImplementsTrustAnchor == Anchor!Spec

=============================================================================
