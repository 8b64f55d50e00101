------------------------------- MODULE Resolver -------------------------------
(***************************************************************************)
(* The resolver's scheduling (resolver/resolver.go): requests for one      *)
(* domain over one route share a fetch, all fetches share MaxConcurrent    *)
(* slots, and every request has a context of its own that may end first.   *)
(* What a fetch returns is checked elsewhere; here it is an answer or a    *)
(* failure, and whose.                                                     *)
(***************************************************************************)
EXTENDS Naturals, FiniteSets

CONSTANTS
    Requests,       \* one call each of Resolve or ResolveIdentityChain
    Domains,        \* mail domains resolved
    Authorities,    \* domains a hint can name
    MaxConcurrent,  \* Options.MaxConcurrent
    None, Failed    \* no answer yet, and an error

ASSUME ResolverAssumption ==
    /\ IsFiniteSet(Requests)
    /\ Domains # {}
    /\ MaxConcurrent \in Nat \ {0}
    /\ None \notin Authorities \cup Requests /\ Failed \notin Requests \cup {None}

VARIABLES
    at,         \* [Requests -> where in the call]
    ask,        \* [Requests -> the domain and the authority asked for]
    inflight,   \* Resolver.inflight: [Keys -> the leader of the call, or None]
    joined,     \* [Requests -> the leader whose call this one waits for, or None]
    slots,      \* len(Resolver.sem)
    ended,      \* requests whose context has ended
    got         \* [Requests -> the request that fetched the answer, or Failed]

vars == <<at, ask, inflight, joined, slots, ended, got>>

Places == {"outside", "waiting", "slot", "fetching", "fetched", "retired",
           "chain-slot", "chain-fetching", "returned"}

Asks == [domain : Domains, authority : Authorities \cup {None}]

\* A hint that points back at the domain is no hint.
Route(q) == IF q.authority = q.domain THEN None ELSE q.authority

Keys == Domains \X (Authorities \cup {None})

\* Mutant: calls over different routes share an answer.
KeyWithoutRoute(q) == <<q.domain, None>>

Key(q) == <<q.domain, Route(q)>>

Move(r, place) == at' = [at EXCEPT ![r] = place]

Ends(r, answer) == Move(r, "returned") /\ got' = [got EXCEPT ![r] = answer]

-----------------------------------------------------------------------------
(* Resolve.                                                                *)

\* A domain or an authority that does not normalize.
Refuse(r) ==
    /\ at[r] = "outside"
    /\ Ends(r, Failed)
    /\ UNCHANGED <<ask, inflight, joined, slots, ended>>

\* Mutant: the table is read, and written later.
LeadUnchecked(r, q) ==
    /\ at[r] = "outside"
    /\ ask' = [ask EXCEPT ![r] = q]
    /\ inflight' = [inflight EXCEPT ![Key(q)] = r]
    /\ Move(r, "slot")
    /\ UNCHANGED <<joined, slots, ended, got>>

Lead(r, q) ==
    /\ at[r] = "outside"
    /\ inflight[Key(q)] = None
    /\ ask' = [ask EXCEPT ![r] = q]
    /\ inflight' = [inflight EXCEPT ![Key(q)] = r]
    /\ Move(r, "slot")
    /\ UNCHANGED <<joined, slots, ended, got>>

Join(r, q) ==
    /\ at[r] = "outside"
    /\ inflight[Key(q)] # None
    /\ ask' = [ask EXCEPT ![r] = q]
    /\ joined' = [joined EXCEPT ![r] = inflight[Key(q)]]
    /\ Move(r, "waiting")
    /\ UNCHANGED <<inflight, slots, ended, got>>

\* close(done) has happened once the leader has returned.
Share(r) ==
    /\ at[r] = "waiting"
    /\ at[joined[r]] = "returned"
    /\ Ends(r, got[joined[r]])
    /\ UNCHANGED <<ask, inflight, joined, slots, ended>>

StopWaiting(r) ==
    /\ at[r] = "waiting"
    /\ r \in ended
    /\ Ends(r, Failed)
    /\ UNCHANGED <<ask, inflight, joined, slots, ended>>

-----------------------------------------------------------------------------
(* fetch, between taking a slot and giving it back.                        *)

\* Mutant: the cap is not asked.
TakeSlotUncapped(r) ==
    /\ at[r] \in {"slot", "chain-slot"}
    /\ slots' = slots + 1
    /\ Move(r, IF at[r] = "slot" THEN "fetching" ELSE "chain-fetching")
    /\ UNCHANGED <<ask, inflight, joined, ended, got>>

TakeSlot(r) ==
    /\ at[r] \in {"slot", "chain-slot"}
    /\ slots < MaxConcurrent
    /\ slots' = slots + 1
    /\ Move(r, IF at[r] = "slot" THEN "fetching" ELSE "chain-fetching")
    /\ UNCHANGED <<ask, inflight, joined, ended, got>>

\* Mutant: the release is deferred before the slot is taken.
GiveUpSlotReleasing(r) ==
    /\ at[r] = "slot"
    /\ r \in ended
    /\ got' = [got EXCEPT ![r] = Failed]
    /\ Move(r, "fetched")
    /\ slots' = IF slots = 0 THEN 0 ELSE slots - 1
    /\ UNCHANGED <<ask, inflight, joined, ended>>

GiveUpSlot(r) ==
    /\ at[r] = "slot"
    /\ r \in ended
    /\ got' = [got EXCEPT ![r] = Failed]
    /\ Move(r, "fetched")
    /\ UNCHANGED <<ask, inflight, joined, slots, ended>>

\* The transfer ends, with a manifest or an error, within Options.Timeout.
Fetched(r) ==
    /\ at[r] = "fetching"
    /\ \E answer \in {r, Failed} : got' = [got EXCEPT ![r] = answer]
    /\ Move(r, "fetched")
    /\ slots' = slots - 1
    /\ UNCHANGED <<ask, inflight, joined, ended>>

Retire(r) ==
    /\ at[r] = "fetched"
    /\ inflight' = [inflight EXCEPT ![Key(ask[r])] = None]
    /\ Move(r, "retired")
    /\ UNCHANGED <<ask, joined, slots, ended, got>>

\* Mutant: a leader whose context has ended does not come back to wake.
WakeLive(r) ==
    /\ at[r] = "retired"
    /\ r \notin ended
    /\ Move(r, "returned")
    /\ UNCHANGED <<ask, inflight, joined, slots, ended, got>>

Wake(r) ==
    /\ at[r] = "retired"
    /\ Move(r, "returned")
    /\ UNCHANGED <<ask, inflight, joined, slots, ended, got>>

-----------------------------------------------------------------------------
(* ResolveIdentityChain: no sharing, the same slots.                       *)

StartChain(r, q) ==
    /\ at[r] = "outside"
    /\ ask' = [ask EXCEPT ![r] = q]
    /\ Move(r, "chain-slot")
    /\ UNCHANGED <<inflight, joined, slots, ended, got>>

ChainGivesUp(r) ==
    /\ at[r] = "chain-slot"
    /\ r \in ended
    /\ Ends(r, Failed)
    /\ UNCHANGED <<ask, inflight, joined, slots, ended>>

ChainFetched(r) ==
    /\ at[r] = "chain-fetching"
    /\ \E answer \in {r, Failed} : Ends(r, answer)
    /\ slots' = slots - 1
    /\ UNCHANGED <<ask, inflight, joined, ended>>

\* A context ends: a deadline, or a caller that went away.
EndContext(r) ==
    /\ r \notin ended
    /\ at[r] # "returned"
    /\ ended' = ended \cup {r}
    /\ UNCHANGED <<at, ask, inflight, joined, slots, got>>

-----------------------------------------------------------------------------

Init ==
    /\ at = [r \in Requests |-> "outside"]
    /\ ask = [r \in Requests |-> CHOOSE q \in Asks : TRUE]
    /\ inflight = [k \in Keys |-> None]
    /\ joined = [r \in Requests |-> None]
    /\ slots = 0
    /\ ended = {}
    /\ got = [r \in Requests |-> None]

Begin(r) == Refuse(r) \/ \E q \in Asks : Lead(r, q) \/ Join(r, q) \/ StartChain(r, q)

Proceed(r) ==
    \/ Share(r) \/ StopWaiting(r) \/ TakeSlot(r) \/ GiveUpSlot(r) \/ Fetched(r)
    \/ Retire(r) \/ Wake(r) \/ ChainGivesUp(r) \/ ChainFetched(r)

Next == \E r \in Requests : Begin(r) \/ Proceed(r) \/ EndContext(r)

\* A goroutine that can go on does, a transfer is bounded by its timeout, and
\* a blocked send on a channel is served in order.
Fairness == \A r \in Requests : WF_vars(Proceed(r))

Spec == Init /\ [][Next]_vars /\ Fairness

-----------------------------------------------------------------------------

TypeOK ==
    /\ at \in [Requests -> Places]
    /\ ask \in [Requests -> Asks]
    /\ inflight \in [Keys -> Requests \cup {None}]
    /\ joined \in [Requests -> Requests \cup {None}]
    /\ slots \in 0..MaxConcurrent
    /\ ended \subseteq Requests
    /\ got \in [Requests -> Requests \cup {None, Failed}]

\* Resolve, "the first caller performs it and the rest wait for its outcome": the
\* table holds exactly the calls that have not been retired, one for each key,
\* so a later request never joins a finished call and never starts a second one.
Leading(r) == at[r] \in {"slot", "fetching", "fetched"}
TableIsExact ==
    \A k \in Keys, r \in Requests : inflight[k] = r <=> Leading(r) /\ Key(ask[r]) = k

\* Options.MaxConcurrent: a slot is held by exactly the transfers in progress,
\* whoever gives up waiting for one.
Transfers == {r \in Requests : at[r] \in {"fetching", "chain-fetching"}}
SlotsAreHeld == slots = Cardinality(Transfers)

\* "two callers resolving the same domain through DIFFERENT authority hints must
\* not share an outcome", and no caller returns without one: what a request
\* returns was fetched for its own domain over its own route.
AnswersItsQuestion ==
    \A r \in Requests : at[r] = "returned" =>
        \/ got[r] = Failed
        \/ /\ got[r] \in Requests
           /\ ask[got[r]].domain = ask[r].domain
           /\ Route(ask[got[r]]) = Route(ask[r])

\* Every request returns: none waits for a slot, or for a leader, for ever.
EveryRequestReturns == \A r \in Requests : at[r] # "outside" ~> at[r] = "returned"

=============================================================================
