---------------------------- MODULE IdentityChain ----------------------------
(***************************************************************************)
(* Walking a domain's published identity history from the pin              *)
(* (identity/rotation_verify.go), one iteration of WalkChain's loop per    *)
(* step, and what the pin becomes over many walks: the server presents     *)
(* what it likes each time, and the clock moves between walks.             *)
(*                                                                         *)
(* A key is its fingerprint.  A fingerprint is bound to the domain, so a   *)
(* statement made for another domain is one whose old_fp matches nothing   *)
(* here.  What VerifyStatement rejects before it looks at a signature      *)
(* (type, version, algorithm, lengths, new_fp against new_pk) is one bit.  *)
(***************************************************************************)
EXTENDS Naturals, Sequences, FiniteSets

CONSTANTS
    Keys,
    Statements,         \* what has been signed, forged or malformed, see Statement
    MaxChainEntries,    \* MaxChainEntries (32)
    MaxTime,            \* bound: the last moment of the clock
    None                \* no successor, and no expiry

Statement == [
    type : {"rotation", "revocation"},
    old : Keys,
    new : Keys \cup {None},
    notBefore : 0..MaxTime,
    expiresAt : 0..MaxTime \cup {None},
    formed : BOOLEAN,
    oldSigned : BOOLEAN,
    newSigned : BOOLEAN]

ASSUME ChainAssumption ==
    /\ MaxChainEntries \in Nat \ {0}
    /\ MaxTime \in Nat
    /\ None \notin Keys \cup Nat
    /\ Statements \subseteq Statement

VARIABLES
    now,
    pin,        \* the peer's IdentityState.Fingerprint, and its stored key
    chain,      \* doc.Chain of the walk in progress, or of the last one
    place,      \* "walking", or how the last walk ended
    out,        \* ChainResult.Fingerprint
    trail,      \* indices of the statements applied, in order: used, step, Applied
    last        \* auxiliary: the last walk that ended at this pin and this moment

vars == <<now, pin, chain, place, out, trail, last>>

Used == {trail[k] : k \in 1..Len(trail)}

Ended == {"none", "arrived", "revoked", "broken", "too-long"}

Withdraws(s) == s.type = "revocation" /\ s.new = None

-----------------------------------------------------------------------------
(* One statement.                                                          *)

\* Mutant: a successor that proves possession needs no permission.
VerifyPossession(s, key) ==
    /\ s.formed /\ s.old = key
    /\ s.oldSigned \/ (s.new # None /\ s.newSigned)

\* The old key authorizes, a successor proves possession, and a rotation has one.
VerifyStatement(s, key) ==
    /\ s.formed /\ s.old = key
    /\ s.oldSigned
    /\ s.type = "rotation" => s.new # None
    /\ s.new # None => s.newSigned

\* Mutant: a revocation lapses like a rotation.
EffectiveUntilExpiry(s, t) ==
    /\ s.notBefore <= t
    /\ s.expiresAt # None => t < s.expiresAt

\* Signed ahead of time, or lapsed: skipped.  A revocation never lapses.
Effective(s, t) ==
    /\ s.notBefore <= t
    /\ s.type = "rotation" /\ s.expiresAt # None => t < s.expiresAt

-----------------------------------------------------------------------------
(* The walk.                                                               *)

\* Mutant: a statement applied is not marked.
CandidatesAgain(key) == {i \in 1..Len(chain) : chain[i].old = key /\ Effective(chain[i], now)}

\* Mutant: one pass over the document.
CandidatesAhead(key) ==
    {i \in 1..Len(chain) : /\ \A j \in Used : j < i
                           /\ chain[i].old = key /\ Effective(chain[i], now)}

Candidates(key) ==
    {i \in 1..Len(chain) : i \notin Used /\ chain[i].old = key /\ Effective(chain[i], now)}

\* The first in the order presented.
First(I) == CHOOSE i \in I : \A j \in I : i <= j

Present(c) ==
    /\ chain' = c
    /\ place' = IF Len(c) > MaxChainEntries THEN "too-long" ELSE "walking"
    /\ out' = pin
    /\ trail' = <<>>
    /\ UNCHANGED <<now, pin>>

Begin(c) == place = "none" /\ Present(c) /\ UNCHANGED last

Walking == place = "walking" /\ Len(trail) < Len(chain)

Apply(i) ==
    /\ trail' = Append(trail, i)
    /\ out' = IF Withdraws(chain[i]) THEN out ELSE chain[i].new
    /\ place' = IF Withdraws(chain[i]) THEN "revoked" ELSE "walking"

Follow ==
    /\ Walking
    /\ Candidates(out) # {}
    /\ VerifyStatement(chain[First(Candidates(out))], out)
    /\ Apply(First(Candidates(out)))
    /\ UNCHANGED <<now, pin, chain, last>>

\* It claims to descend from the identity in effect: a forgery or a corruption.
Break ==
    /\ Walking
    /\ Candidates(out) # {}
    /\ ~VerifyStatement(chain[First(Candidates(out))], out)
    /\ place' = "broken"
    /\ UNCHANGED <<now, pin, chain, out, trail, last>>

\* Nothing further descends from here, or every step has been taken.
Arrive ==
    /\ place = "walking"
    /\ Walking => Candidates(out) = {}
    /\ place' = "arrived"
    /\ UNCHANGED <<now, pin, chain, out, trail, last>>

-----------------------------------------------------------------------------
(* Between walks.                                                          *)

Rest == place' = "none" /\ chain' = <<>> /\ out' = pin' /\ trail' = <<>> /\ last' = None

\* followRotation: the pin moves to where the walk arrived, if it moved at all.
Adopt ==
    /\ place = "arrived"
    /\ trail # <<>>
    /\ pin' = out
    /\ Rest
    /\ UNCHANGED now

\* The same statements once more, in another order.
Again(order) ==
    /\ place \in Ended \ {"none"}
    /\ last = None
    /\ Present([i \in DOMAIN chain |-> chain[order[i]]])
    /\ last' = [place |-> place, out |-> out]

Tick ==
    /\ place # "walking"
    /\ now < MaxTime
    /\ now' = now + 1
    /\ UNCHANGED pin
    /\ Rest

-----------------------------------------------------------------------------

Sequences(S, lengths) == UNION {[1..n -> S] : n \in lengths}
Injective(f) == \A i, j \in DOMAIN f : f[i] = f[j] => i = j

\* Bound: a document lists a statement once, and one entry too many at most.
Chains == {c \in Sequences(Statements, 0..MaxChainEntries + 1) : Injective(c)}
Orders == {o \in [DOMAIN chain -> DOMAIN chain] : Injective(o)}

Init ==
    /\ now = 0
    /\ pin \in Keys
    /\ chain = <<>>
    /\ place = "none"
    /\ out = pin
    /\ trail = <<>>
    /\ last = None

Next ==
    \/ \E c \in Chains : Begin(c)
    \/ Follow \/ Break \/ Arrive
    \/ Adopt
    \/ \E o \in Orders : Again(o)
    \/ Tick

Spec == Init /\ [][Next]_vars

-----------------------------------------------------------------------------

TypeOK ==
    /\ now \in 0..MaxTime
    /\ {pin, out} \subseteq Keys
    /\ chain \in Seq(Statements)
    /\ place \in Ended \cup {"walking"}
    /\ trail \in Seq(DOMAIN chain) /\ Injective(trail)
    /\ last \in [place : Ended, out : Keys] \cup {None}

\* rotation_verify.go, "refusing to let anything but a signature move a trust
\* anchor": every statement applied was authorized by the key the one before it
\* established, from the pin on, and a successor proved possession of its key.
Establishes(k) == IF k = 0 THEN pin ELSE chain[trail[k]].new
MovesAreAuthorized ==
    /\ \A k \in 1..Len(trail) :
        LET s == chain[trail[k]] IN
        /\ s.old = Establishes(k - 1)
        /\ s.formed /\ s.oldSigned
        /\ s.new # None => s.newSigned
    /\ place = "arrived" => out = Establishes(Len(trail))

\* "A verifier that let one lapse would RESURRECT trust in a key someone announced
\* was compromised": no walk arrives at a key that the document withdraws, however
\* long ago that statement expired.
RevocationStands ==
    place = "arrived" =>
        \A i \in DOMAIN chain :
            ~(Withdraws(chain[i]) /\ chain[i].old = out /\ chain[i].notBefore <= now)

\* "A server may therefore present the chain in any order ... and the result is the
\* same": true when no key has two statements in effect.
Result == [place |-> place, out |-> out]
Forked ==
    \E i, j \in DOMAIN chain :
        /\ i # j /\ chain[i].old = chain[j].old
        /\ Effective(chain[i], now) /\ Effective(chain[j], now)
SameUnlessForked == last # None /\ place # "walking" /\ ~Forked => last = Result
=============================================================================
