---------------------------- MODULE MCPeerService ----------------------------
(***************************************************************************)
(* Instances of PeerService.  m1 and m2 are successive manifests, m2x the  *)
(* second one stamped with m2's issue time.                                *)
(***************************************************************************)
EXTENDS PeerService, TLC

CONSTANTS m1, m2, m2x, a, b, d, c1, c2

MCIssued == [m \in Manifests |-> IF m = m1 THEN 1 ELSE 2]
MCNotAfter == [m \in Manifests |-> IF m = m1 THEN 3 ELSE 4]
\* Short lives: the first manifest expires at the second tick.
MCShortLived == [m \in Manifests |-> IF m = m1 THEN 2 ELSE 3]

Serve(ms, ps, ages) == [manifest : ms, proof : ps, maxAge : ages]
Say(source, id, fp, to) == [source |-> source, id |-> id, fp |-> fp, authority |-> to,
                            status |-> "pending"]

AtoB == {<<a, b>>}

\* Few: the first manifest signed or stripped, the second by another signer.
AnswersFew == Serve({m1}, {a, None}, {None}) \cup Serve({m2}, {b}, {None})
\* Two successive manifests of two signers, a stripped first one, and a third
\* issued at the time of the second, which may not be cached.
AnswersAll == Serve({m1, m2}, {a, b}, {None}) \cup Serve({m1}, {None}, {None})
              \cup Serve({m2x}, {a}, {0})
\* One signer, one manifest at each issue time.
AnswersSigned == Serve(Manifests, {a}, {None})
AnswersTwoSigners == Serve({m1}, {a, b}, {None})
\* A manifest to be cached for a tick, of the two it lives.
AnswersBriefly == Serve({m1}, {None}, {1})
\* Every kind of proof; an answer that may not be cached.
AnswersEach == Serve({m1}, {a, b, None, Invalid}, {None}) \cup Serve({m1}, {a, None}, {0})
DnsB == {Say("dns", None, b, None)}
DnsBVia == {Say("dns", None, b, d)}
NoSightings == {}
Sym == Permutations(Callers)
=============================================================================
