------------------------------- MODULE Delivery -------------------------------
(***************************************************************************)
(* How a manifest, its detached proof and the identity history reach those *)
(* who fetch them: the well-known handler (wellknown/wellknown.go) before  *)
(* one shared HTTP cache, the exchange and the validation of the resolver  *)
(* (resolver/resolver.go), and the walk of IdentityChain over the document  *)
(* that arrived.  The server is honest, a publisher that renews, withdraws, *)
(* announces a successor and signs as it, or hostile, and then any document *)
(* arrives as in IdentityChain.                                            *)
(*                                                                         *)
(* A body is what its hash tells apart: a manifest by the number of its    *)
(* manifest_id, a document by how long its history is and who is active.   *)
(* A proof is its signer and the manifest it was made over.  The cache is  *)
(* any that keeps to RFC 9111: it answers from what is fresh, revalidates  *)
(* what is stale by its ETag, lets a 304 update the header of what it      *)
(* holds, and keeps no "no-store".                                         *)
(***************************************************************************)
EXTENDS IdentityChain

CONSTANTS
    Clients,
    Us,             \* the client whose pin is walked
    Invalid,        \* the signer of a proof that does not verify
    Lineage,        \* the statements an honest domain makes, in order
    MaxAge,         \* Handler.MaxAge, MaxCacheAge (1h)
    RefreshBefore,  \* peer.RefreshBefore (6h)
    Lifetime,       \* [1..MaxManifests -> from issued_at to expires_at]
    MaxManifests    \* bound: manifests an honest domain issues

ASSUME DeliveryAssumption ==
    /\ Us \in Clients
    /\ Invalid \notin Keys \cup {None}
    /\ Lineage \in Seq(Statements) /\ Len(Lineage) <= MaxChainEntries
    /\ {MaxAge, MaxManifests} \subseteq Nat \ {0}
    /\ RefreshBefore \in Nat
    /\ Lifetime \in [1..MaxManifests -> Nat \ {0}]

VARIABLES
    server,         \* "honest" or "hostile"
    pub,            \* what Publisher.CurrentManifest returns, or None
    issued,         \* manifests issued so far
    active,         \* the identity the publisher signs with, or None
    announced,      \* when each statement of the document was published
    cache,          \* [Kinds -> a response and how long it is fresh, or None]
    exchange,       \* [Clients -> the request in flight, or NoExchange]
    got,            \* what our last manifest fetch returned, and when it falls due
    left            \* auxiliary: when each <<id, signer>> was last published

Kinds == {"manifest", "identity"}

domain == <<server, pub, issued, active, announced, left>>
delivery == <<cache, exchange, got>>
dvars == <<vars, domain, delivery>>

Lesser(x, y) == IF x < y THEN x ELSE y

-----------------------------------------------------------------------------
(* The handler: one snapshot, one answer.                                  *)

\* Mutant: the validator names the resource, not the bytes.
TagOfResource(body) == <<0, None>>

\* Both resources: the hash of what is served.
Tag(body) == <<body.id, body.active>>

Response(status, tag, body, proof, maxAge) ==
    [status |-> status, tag |-> tag, body |-> body, proof |-> proof, maxAge |-> maxAge]

\* Mutant: only MaxAge bounds what a cache may keep.
CacheSecondsFlat(expires) == MaxAge

\* Never negative: what has expired may not be cached.
CacheSeconds(expires) == IF expires <= now THEN 0 ELSE Lesser(MaxAge, expires - now)

\* Mutant: the document changes rarely, so caches may keep it twice as long.
DocSecondsLong == 2 * MaxAge
DocSeconds == MaxAge

\* Mutant: a miss may be kept as anything else may.
MissKept == Response(404, None, None, None, MaxAge)

\* no-store.
Miss == Response(404, None, None, None, None)

\* The header of the full answer, the proof of this snapshot among it.
NotModified(full) == [full EXCEPT !.status = 304]

\* An unsigned publication writes nothing.
WriteProof(p) == IF p.signer = None THEN None ELSE [signer |-> p.signer, over |-> p.id]

Full(kind) ==
    IF kind = "manifest"
    THEN LET body == [id |-> pub.id, active |-> None, expires |-> pub.expires]
         IN  Response(200, Tag(body), body, WriteProof(pub), CacheSeconds(pub.expires))
    ELSE LET body == [id |-> Len(announced), active |-> active, expires |-> None]
         IN  Response(200, Tag(body), body, None, DocSeconds)

Answer(kind, ifNoneMatch) ==
    IF (kind = "manifest" /\ pub = None) \/ (kind = "identity" /\ active = None) THEN Miss
    ELSE IF ifNoneMatch = Full(kind).tag THEN NotModified(Full(kind)) ELSE Full(kind)

-----------------------------------------------------------------------------
(* The publisher.                                                          *)

\* bare is auxiliary: nothing was published at some moment since it began.
NoExchange == [at |-> "idle", kind |-> None, tag |-> None, answer |-> None, bare |-> FALSE]

\* Bound, here and in Exchanging: nothing happens during a walk, which reads
\* nothing that others write.
Publishing == server = "honest" /\ place = "none" /\ UNCHANGED <<vars, server, cache, got>>

Leave ==
    left' = IF pub = None THEN left
            ELSE [p \in DOMAIN left \cup {<<pub.id, pub.signer>>} |->
                    IF p = <<pub.id, pub.signer>> THEN now ELSE left[p]]

\* The first manifest, a new one after it, or one after a withdrawal.
Issue ==
    /\ Publishing /\ Leave
    /\ issued < MaxManifests
    /\ issued' = issued + 1
    /\ pub' = [id |-> issued', expires |-> now + Lifetime[issued'], signer |-> active]
    /\ UNCHANGED <<active, announced, exchange>>

Withdraw ==
    /\ Publishing /\ Leave
    /\ pub # None
    /\ pub' = None
    /\ exchange' = [c \in Clients |->
            [exchange[c] EXCEPT !.bare = @ \/ exchange[c].kind = "manifest"]]
    /\ UNCHANGED <<issued, active, announced>>

\* The document gains the next statement, which may take effect later.
Announce ==
    /\ Publishing
    /\ active # None
    /\ Len(announced) < Len(Lineage)
    /\ announced' = Append(announced, now)
    /\ UNCHANGED <<pub, issued, active, left, exchange>>

\* The same manifest, signed by the successor that is in effect.
SwitchSigner ==
    /\ Publishing /\ Leave
    /\ pub # None
    /\ \E i \in DOMAIN announced :
        /\ Lineage[i].old = active /\ Effective(Lineage[i], now)
        /\ active' = Lineage[i].new
    /\ pub' = [pub EXCEPT !.signer = active']
    /\ UNCHANGED <<issued, announced, exchange>>

\* Publication.Proof is nil from here on.  Bound: only a domain that has
\* announced no successor does this.
StopSigning ==
    /\ Publishing /\ Leave
    /\ pub # None /\ active # None /\ announced = <<>>
    /\ active' = None
    /\ pub' = [pub EXCEPT !.signer = None]
    /\ UNCHANGED <<issued, announced, exchange>>

-----------------------------------------------------------------------------
(* An exchange: the client's GET, through the cache.                       *)

Fresh(e) == e # None /\ e.fresh > 0

Exchanging == place = "none" /\ UNCHANGED <<vars, domain>>

Tagged(kind) == IF cache[kind] = None THEN None ELSE cache[kind].response.tag

Bare(kind) == kind = "manifest" /\ pub = None

\* What another client makes of its answer is not followed.
HandOn(c, request, r) ==
    exchange' = [exchange EXCEPT ![c] =
        IF c = Us THEN [request EXCEPT !.at = "answered", !.answer = r] ELSE NoExchange]

Ask(c, kind) ==
    LET request == [NoExchange EXCEPT !.at = "forwarded", !.kind = kind,
                                      !.tag = Tagged(kind), !.bare = Bare(kind)]
    IN
    /\ server = "honest"
    /\ exchange[c] = NoExchange
    /\ IF Fresh(cache[kind])
       THEN HandOn(c, request, cache[kind].response)
       ELSE exchange' = [exchange EXCEPT ![c] = request]
    /\ Exchanging /\ UNCHANGED <<cache, got>>

\* Bound: we ask for the history when the signer is another than the pin, and
\* others, whose pins may be older, only before anything is published.
AskIdentity(c) ==
    /\ IF c = Us THEN got.status = "copy" /\ got.signer \notin {None, Invalid, pin}
                 ELSE issued = 0 /\ announced = <<>>
    /\ Ask(c, "identity")

Serve(c) ==
    /\ exchange[c].at = "forwarded"
    /\ exchange' = [exchange EXCEPT ![c].at = "served",
                                    ![c].answer = Answer(exchange[c].kind, exchange[c].tag)]
    /\ Exchanging /\ UNCHANGED <<cache, got>>

Keep(kind, r) == cache' = [cache EXCEPT ![kind] = [response |-> r, fresh |-> r.maxAge]]

\* A full answer is stored, unless it may not be, and handed on.
RelayFull(c) ==
    LET x == exchange[c] IN
    /\ x.at = "served" /\ x.answer.status # 304
    /\ IF x.answer.maxAge = None THEN UNCHANGED cache ELSE Keep(x.kind, x.answer)
    /\ HandOn(c, x, x.answer)
    /\ Exchanging /\ UNCHANGED got

\* A 304 updates the stored answer it names, field by field where it has one.
RelayUpdate(c) ==
    LET x == exchange[c]
        stored == cache[x.kind].response
        updated == [stored EXCEPT !.maxAge = x.answer.maxAge,
                                  !.proof = IF x.answer.proof = None THEN @ ELSE x.answer.proof]
    IN
    /\ x.at = "served" /\ x.answer.status = 304
    /\ x.answer.tag = Tagged(x.kind)
    /\ Keep(x.kind, updated)
    /\ HandOn(c, x, updated)
    /\ Exchanging /\ UNCHANGED got

\* Another exchange has replaced what the 304 is about.
RelayAgain(c) ==
    LET x == exchange[c] IN
    /\ x.at = "served" /\ x.answer.status = 304
    /\ x.answer.tag # Tagged(x.kind)
    /\ exchange' = [exchange EXCEPT ![c] =
            [x EXCEPT !.at = "forwarded", !.tag = None, !.answer = None]]
    /\ Exchanging /\ UNCHANGED <<cache, got>>

-----------------------------------------------------------------------------
(* The resolver's verdict.                                                 *)

NoCopy == [status |-> "none", id |-> None, signer |-> None, due |-> 0]

\* The signature is over these bytes.
Check(proof, body) == proof.over = body.id

\* A proof of other bytes is not absent but present and wrong.
SignerOf(r) ==
    IF r.proof = None THEN None
    ELSE IF Check(r.proof, r.body) THEN r.proof.signer ELSE Invalid

Validate(body) == now < body.expires

\* Mutant: max-age is not asked.
CacheUntilExpiry(r) == r.body.expires

\* cacheUntil: the Age of the answer is not asked.
CacheUntil(r) == Lesser(r.body.expires, now + r.maxAge)

\* The cache bound is when to look again, and not how long a copy may be used.
RefreshAt(until) ==
    IF until >= now + RefreshBefore THEN until - RefreshBefore
    ELSE now + (until - now) \div 2

Verdict(r) ==
    IF r.status = 404 THEN [NoCopy EXCEPT !.status = "absent"]
    ELSE IF ~Validate(r.body) THEN [NoCopy EXCEPT !.status = "refused"]
    ELSE [status |-> "copy", id |-> r.body.id, signer |-> SignerOf(r),
          due |-> RefreshAt(CacheUntil(r))]

ReceiveManifest ==
    /\ exchange[Us].at = "answered" /\ exchange[Us].kind = "manifest"
    /\ got' = Verdict(exchange[Us].answer)
    /\ exchange' = [exchange EXCEPT ![Us] = NoExchange]
    /\ Exchanging /\ UNCHANGED cache

\* followRotation walks the document it fetched.
ReceiveIdentity ==
    /\ exchange[Us].at = "answered" /\ exchange[Us].kind = "identity"
    /\ IF exchange[Us].answer.status = 404 THEN UNCHANGED vars
       ELSE Begin(SubSeq(Lineage, 1, exchange[Us].answer.body.id))
    /\ exchange' = [exchange EXCEPT ![Us] = NoExchange]
    /\ UNCHANGED <<domain, cache, got>>

-----------------------------------------------------------------------------

Hostile ==
    /\ server = "hostile"
    /\ \/ place = "none" /\ \E c \in Chains : Begin(c)
       \/ last = None /\ \E o \in Orders : Again(o)
    /\ UNCHANGED <<domain, delivery>>

Walk == (Follow \/ Break \/ Arrive) /\ UNCHANGED <<domain, delivery>>

\* Only as far as the signer of the manifest that caused the walk.
Accept ==
    /\ Adopt
    /\ server = "honest" => out = got.signer
    /\ UNCHANGED <<domain, delivery>>

\* followRotation: the manifest is refused, the pin stays.
Refuse ==
    /\ server = "honest" /\ place \in Ended \ {"none"}
    /\ place # "arrived" \/ trail = <<>> \/ out # got.signer
    /\ UNCHANGED <<now, pin>> /\ Rest
    /\ UNCHANGED <<domain, delivery>>

\* Bound: an exchange (Options.Timeout, seconds) is shorter than a tick.
Pass ==
    /\ Tick
    /\ server = "honest" => place = "none"
    /\ \A c \in Clients : exchange[c] = NoExchange
    /\ cache' = [k \in Kinds |-> IF Fresh(cache[k]) THEN [cache[k] EXCEPT !.fresh = @ - 1]
                                  ELSE cache[k]]
    /\ UNCHANGED <<domain, exchange, got>>

DInit ==
    /\ Init
    /\ server \in {"honest", "hostile"}
    /\ server = "honest" => pin = Lineage[1].old
    /\ pub = None /\ issued = 0
    /\ active = pin
    /\ announced = <<>>
    /\ cache = [k \in Kinds |-> None]
    /\ exchange = [c \in Clients |-> NoExchange]
    /\ got = NoCopy
    /\ left = <<>>

DNext ==
    \/ Issue \/ Withdraw \/ Announce \/ SwitchSigner \/ StopSigning
    \/ \E c \in Clients :
        \/ Ask(c, "manifest") \/ AskIdentity(c) \/ Serve(c)
        \/ RelayFull(c) \/ RelayUpdate(c) \/ RelayAgain(c)
    \/ ReceiveManifest \/ ReceiveIdentity
    \/ Hostile \/ Walk \/ Accept \/ Refuse \/ Pass

DSpec == DInit /\ [][DNext]_dvars

-----------------------------------------------------------------------------

Body == [id : Nat, active : Keys \cup {None}, expires : Nat \cup {None}]
Proof == [signer : Keys, over : 1..MaxManifests]
Tags == Nat \X (Keys \cup {None})
Responses == [status : {200, 304, 404}, tag : Tags \cup {None}, body : Body \cup {None},
              proof : Proof \cup {None}, maxAge : Nat \cup {None}]
Publications == [id : 1..MaxManifests, expires : Nat, signer : Keys \cup {None}]
Entries == [response : Responses, fresh : Nat]
Copies == [status : {"none", "absent", "refused", "copy"}, id : 1..MaxManifests \cup {None},
           signer : Keys \cup {None, Invalid}, due : Nat]

\* Nothing is none of what may be published, kept or answered.
ASSUME NothingAssumption ==
    None \notin Kinds \cup Tags \cup Body \cup Proof \cup Responses \cup Publications \cup Entries

DTypeOK ==
    /\ TypeOK
    /\ server \in {"honest", "hostile"}
    /\ pub \in Publications \cup {None}
    /\ issued \in 0..MaxManifests /\ active \in Keys \cup {None}
    /\ announced \in Seq(0..MaxTime)
    /\ cache \in [Kinds -> Entries \cup {None}]
    /\ \A c \in Clients :
          /\ exchange[c].at \in {"idle", "forwarded", "served", "answered"}
          /\ exchange[c].answer \in Responses \cup {None}
    /\ got \in Copies

\* wellknown.go ServeHTTP, "a handler that fetched the two separately could pair
\* one build's body with another's signature and every correspondent would see a
\* verification failure": through any interleaving of renewals, changes of signer,
\* revalidations and other clients, no fetch from an honest domain sees one.
ProofFitsBody == got.signer # Invalid

\* The longest a copy waits from its fetch until it falls due.
LongestWait ==
    IF RefreshBefore < MaxAge - MaxAge \div 2 THEN MaxAge - RefreshBefore ELSE MaxAge \div 2

\* wellknown.go MaxCacheAge, "while keeping rotations promptly visible": what a
\* client holds, and who signed it, is what the domain publishes, or a send looks
\* for what replaced it at the latest MaxAge + LongestWait after that: an age in the
\* cache, and a wait at the client, which counts from its own fetch.  This says
\* when a copy falls due and not when it is last used: if the refresh fails, it is
\* used on (PeerService, PastCacheIsUnused).  A manifest that is published unsigned
\* after it was signed is the exception: a 304 without a proof leaves the stored one.
Published(p) == pub # None /\ <<pub.id, pub.signer>> = p
ReplacedFallsDue ==
    got.status = "copy" =>
        LET p == <<got.id, got.signer>>
            bare == <<got.id, None>>
        IN  \/ Published(p)
            \/ p \in DOMAIN left /\ got.due < left[p] + MaxAge + LongestWait
            \/ Published(bare) \/ bare \in DOMAIN left

\* wellknown.go cacheSeconds, "an expired manifest should not be served at all":
\* what the cache answers from by itself has not expired, so no fetch is refused
\* for the cache's sake.
FreshIsValid ==
    LET e == cache["manifest"]
    IN  Fresh(e) /\ e.response.status = 200 => now < e.response.body.expires

\* wellknown.go miss, "a cached 404 would keep senders in cleartext long after":
\* a client that hears there is no manifest asked while there was none.
AbsentIsTrue ==
    LET x == exchange[Us] IN
    x.at = "answered" /\ x.kind = "manifest" /\ x.answer.status = 404 => x.bare

\* wellknown.go serveIdentity, "the rotation chain a pinned correspondent walks":
\* a statement announced MaxAge ago and in effect has reached every walk, so a
\* publisher that waits this long before it signs as the successor is followed.
AnnouncedIsFollowed ==
    server = "honest" /\ place = "arrived" =>
        \A i \in DOMAIN announced :
            /\ announced[i] + MaxAge <= now
            /\ \A j \in 1..i : Effective(Lineage[j], now)
            => \A j \in 1..i : out # Lineage[j].old
=============================================================================
