---------------------------- MODULE DeliveryProofs ----------------------------
(***************************************************************************)
(* What a client of an honest domain receives, through one shared cache    *)
(* and any interleaving with renewals and other clients.                   *)
(*                                                                         *)
(* The invariant follows an answer from the handler to the client.  What   *)
(* the handler serves is true at this moment; what the cache keeps was     *)
(* true when its freshness began, now + fresh - MaxAge; what a client is    *)
(* handed was true less than MaxAge ago.  Lasts says this of a manifest    *)
(* and its signer, Heard of an identity document.  A tick moves the clock  *)
(* and the freshness together, and a publication only ends what lasts at   *)
(* the present moment.                                                     *)
(***************************************************************************)
EXTENDS Delivery, IdentityChainProofs

Manifests == [id : 1..MaxManifests, active : {None}, expires : Nat]
Documents == [id : 0..Len(Lineage), active : Keys, expires : {None}]

ManifestAnswers ==
    {r \in [status : {200, 304}, tag : Tags, body : Manifests, proof : Proof \cup {None},
            maxAge : 0..MaxAge] :
        r.tag = Tag(r.body) /\ (r.proof # None => Check(r.proof, r.body))}

DocumentAnswers ==
    {r \in [status : {200, 304}, tag : Tags, body : Documents, proof : {None},
            maxAge : {MaxAge}] : r.tag = Tag(r.body)}

Answers(kind) == IF kind = "manifest" THEN ManifestAnswers ELSE DocumentAnswers

Ats == {"idle", "forwarded", "served", "answered"}
Exchanges == [at : Ats, kind : Kinds \cup {None}, tag : Tags \cup {None},
              answer : Responses \cup {None}, bare : BOOLEAN]

\* What a manifest answer says: this manifest, by this signer.
Said(r) == <<r.body.id, SignerOf(r)>>

\* p is published, or was at t or later, or its manifest was published unsigned.
Public(pb, p) == pb # None /\ <<pb.id, pb.signer>> = p
Unsigned(pb, lf, id) == Public(pb, <<id, None>>) \/ <<id, None>> \in DOMAIN lf
Lasts(pb, lf, p, t) ==
    \/ Public(pb, p)
    \/ p \in DOMAIN lf /\ t <= lf[p]
    \/ Unsigned(pb, lf, p[1])

\* What a document of n statements leaves out was announced at t or later.
Heard(an, n, t) == \A i \in DOMAIN an : n < i => t <= an[i]

InTime(r, length, t) == 0 < length => t + length <= r.body.expires

\* An answer of this kind was true at t.
TrueAt(kind, r, pb, lf, an, t) ==
    IF kind = "manifest" THEN Lasts(pb, lf, Said(r), t) ELSE Heard(an, r.body.id, t)

\* In flight: nothing, a question, an answer on its way, or ours.
Served(x, pb, lf, an, t) ==
    \/ x.answer = Miss
    \/ /\ x.answer \in Answers(x.kind)
       /\ TrueAt(x.kind, x.answer, pb, lf, an, t)
       /\ x.kind = "manifest" => InTime(x.answer, x.answer.maxAge, t)

Answered(x, pb, lf, an, t) ==
    \/ x.answer = Miss
    \/ /\ x.answer \in Answers(x.kind) /\ x.answer.status = 200
       /\ TrueAt(x.kind, x.answer, pb, lf, an, t - MaxAge + 1)

InFlight(c, x, pb, lf, an, t) ==
    /\ x \in Exchanges
    /\ x.at = "idle" => x = NoExchange
    /\ x.at # "idle" => x.kind \in Kinds
    /\ x.at = "forwarded" => x.answer = None
    /\ x.at = "served" => Served(x, pb, lf, an, t)
    /\ x.at = "answered" => c = Us /\ Answered(x, pb, lf, an, t)
    /\ x.kind = "manifest" /\ (pb = None \/ x.answer = Miss) => x.bare

\* Kept: while it is fresh, it was true when it began to be.
Kept(kind, e, pb, lf, an, t) ==
    \/ e = None
    \/ /\ e \in [response : Answers(kind), fresh : 0..MaxAge]
       /\ e.response.status = 200
       /\ 0 < e.fresh => TrueAt(kind, e.response, pb, lf, an, t + e.fresh - MaxAge)
       /\ kind = "manifest" => InTime(e.response, e.fresh, t)

Got(g, pb, lf, t) ==
    /\ g \in Copies
    /\ g.signer # Invalid
    /\ g.status = "copy" =>
        /\ g.due <= t + LongestWait
        /\ Lasts(pb, lf, <<g.id, g.signer>>, g.due - LongestWait - MaxAge + 1)

\* A manifest that somebody has.
BodyOf(pb) == [id |-> pb.id, active |-> None, expires |-> pb.expires]
Had(b) ==
    \/ pub # None /\ b = BodyOf(pub)
    \/ cache["manifest"] # None /\ b = cache["manifest"].response.body
    \/ \E c \in Clients : /\ exchange[c].kind = "manifest"
                          /\ exchange[c].answer \in ManifestAnswers
                          /\ b = exchange[c].answer.body

\* A number is of one manifest.
OneBody ==
    \A b, d \in Manifests : Had(b) /\ Had(d) =>
        b.id <= issued /\ (b.id = d.id => b.expires = d.expires)

PublisherOK ==
    /\ server \in {"honest", "hostile"}
    /\ pub \in Publications \cup {None}
    /\ issued \in 0..MaxManifests /\ active \in Keys \cup {None}
    /\ pub # None => pub.signer = active
    /\ announced \in Seq(0..MaxTime) /\ Len(announced) <= Len(Lineage)
    /\ \A i \in DOMAIN announced : announced[i] <= now
    /\ \A p \in DOMAIN left : left[p] \in 0..now

\* An honest domain is walked on what it published.
Walked ==
    server = "honest" =>
        \/ place = "none"
        \/ \E n \in 0..Len(Lineage) :
            chain = SubSeq(Lineage, 1, n) /\ Heard(announced, n, now - MaxAge + 1)

DInv ==
    /\ ChainInv
    /\ PublisherOK
    /\ cache \in [Kinds -> Entries \cup {None}]
    /\ \A k \in Kinds : Kept(k, cache[k], pub, left, announced, now)
    /\ exchange \in [Clients -> Exchanges]
    /\ \A c \in Clients : InFlight(c, exchange[c], pub, left, announced, now)
    /\ Got(got, pub, left, now)
    /\ OneBody
    /\ Walked

-----------------------------------------------------------------------------
(* What lasts and what was heard.                                          *)

LEMMA Sizes ==
  /\ MaxAge \in Nat \ {0} /\ MaxManifests \in Nat \ {0} /\ MaxTime \in Nat
  /\ None \notin Keys /\ None \notin Nat /\ None \notin Tags /\ None \notin Kinds
  /\ None \notin Proof /\ None \notin Responses /\ None \notin Publications
  /\ None \notin Entries /\ Invalid \notin Keys \cup {None} /\ Us \in Clients
  BY ChainAssumption, DeliveryAssumption, NothingAssumption

LEMMA Waits == LongestWait \in Nat
  BY DeliveryAssumption DEF LongestWait

\* A copy kept for no more than MaxAge falls due within the longest wait.
LEMMA RefreshAtBounds ==
  ASSUME now \in Nat, NEW until \in Nat, now <= until, until <= now + MaxAge
  PROVE  RefreshAt(until) \in Nat /\ RefreshAt(until) <= now + LongestWait
  BY DeliveryAssumption DEF RefreshAt, LongestWait

\* What was true later was true earlier.
LEMMA TrueEarlier ==
  ASSUME NEW kind, NEW r, NEW pb, NEW lf, NEW an, NEW s \in Int, NEW t \in Int, s <= t,
         \A p \in DOMAIN lf : lf[p] \in Nat, \A i \in DOMAIN an : an[i] \in Nat,
         TrueAt(kind, r, pb, lf, an, t)
  PROVE  TrueAt(kind, r, pb, lf, an, s)
  <1>1. ASSUME NEW p, Lasts(pb, lf, p, t) PROVE Lasts(pb, lf, p, s)
    BY <1>1 DEF Lasts
  <1>2. ASSUME NEW n, Heard(an, n, t) PROVE Heard(an, n, s)
    BY <1>2 DEF Heard
  <1> QED
    BY <1>1, <1>2 DEF TrueAt

Left(pb, lf, t) ==
    IF pb = None THEN lf
    ELSE [p \in DOMAIN lf \cup {<<pb.id, pb.signer>>} |->
            IF p = <<pb.id, pb.signer>> THEN t ELSE lf[p]]

\* What has been published lasts until it is replaced, and then until that moment.
LEMMA LastsStays ==
  ASSUME NEW pb, NEW pb2, NEW lf, NEW t \in Nat, \A p \in DOMAIN lf : lf[p] \in 0..t
  PROVE  /\ \A p \in DOMAIN Left(pb, lf, t) : Left(pb, lf, t)[p] \in 0..t
         /\ \A p, s : s \in Int /\ s <= t /\ Lasts(pb, lf, p, s)
                         => Lasts(pb2, Left(pb, lf, t), p, s)
  <1>1. CASE pb = None
    BY <1>1 DEF Left, Lasts, Public, Unsigned
  <1>2. CASE pb # None
    <2> DEFINE x == <<pb.id, pb.signer>>
               lf2 == Left(pb, lf, t)
    <2>1. /\ DOMAIN lf2 = DOMAIN lf \cup {x} /\ lf2[x] = t
          /\ \A p \in DOMAIN lf : lf2[p] \in {t, lf[p]}
      BY <1>2 DEF Left
    <2>2. \A p \in DOMAIN lf : lf[p] <= lf2[p]
      BY <2>1
    <2>3. \A p : Public(pb, p) <=> p = x
      BY <1>2 DEF Public
    <2> HIDE DEF lf2, x
    <2>4. ASSUME NEW p, NEW s \in Int, s <= t, Lasts(pb, lf, p, s)
          PROVE  Lasts(pb2, lf2, p, s)
      <3>1. CASE Public(pb, p)
        BY <2>1, <2>3, <2>4, <3>1 DEF Lasts
      <3>2. CASE p \in DOMAIN lf /\ s <= lf[p]
        <4>1. lf[p] \in Int /\ lf2[p] \in Int
          BY <2>1, <3>2
        <4>2. p \in DOMAIN lf2 /\ s <= lf2[p]
          BY <2>1, <2>2, <2>4, <3>2, <4>1
        <4> QED
          BY <4>2 DEF Lasts
      <3>3. CASE Unsigned(pb, lf, p[1])
        BY <2>1, <2>3, <3>3 DEF Lasts, Unsigned
      <3> QED
        BY <2>4, <3>1, <3>2, <3>3 DEF Lasts
    <2>5. \A p \in DOMAIN lf2 : lf2[p] \in 0..t
      BY <2>1
    <2> QED
      BY <2>4, <2>5 DEF lf2
  <1> QED
    BY <1>1, <1>2

\* The document that grows says no less of what is left out.
LEMMA HeardStays ==
  ASSUME NEW S, NEW an \in Seq(S), NEW t \in Nat
  PROVE  \A n, s : s \in Int /\ s <= t /\ Heard(an, n, s) => Heard(Append(an, t), n, s)
  <1>1. /\ DOMAIN an = 1..Len(an) /\ Len(an) \in Nat
        /\ DOMAIN Append(an, t) = 1..(Len(an) + 1)
        /\ \A i \in 1..Len(an) : Append(an, t)[i] = an[i]
        /\ Append(an, t)[Len(an) + 1] = t
    BY LenProperties
  <1> QED
    BY <1>1 DEF Heard

\* A publication: a new one or none, or one more statement, or both as they were.
Publishes(pb, lf, an, pb2, lf2, an2, t) ==
    /\ lf2 = Left(pb, lf, t) \/ (lf2 = lf /\ pb2 = pb)
    /\ an2 \in {an, Append(an, t)}

LEMMA PublishKeepsTrue ==
  ASSUME NEW an \in Seq(0..MaxTime), NEW lf, NEW pb, NEW t \in Nat,
         \A p \in DOMAIN lf : lf[p] \in 0..t,
         NEW pb2, NEW lf2, NEW an2, Publishes(pb, lf, an, pb2, lf2, an2, t)
  PROVE  /\ \A kind, r, s : s \in Int /\ s <= t /\ TrueAt(kind, r, pb, lf, an, s)
                               => TrueAt(kind, r, pb2, lf2, an2, s)
         /\ \A p, s : s \in Int /\ s <= t /\ Lasts(pb, lf, p, s) => Lasts(pb2, lf2, p, s)
         /\ \A p \in DOMAIN lf2 : lf2[p] \in 0..t
  <1>1. /\ \A p, s : s \in Int /\ s <= t /\ Lasts(pb, lf, p, s) => Lasts(pb2, lf2, p, s)
        /\ \A p \in DOMAIN lf2 : lf2[p] \in 0..t
    BY LastsStays DEF Publishes
  <1>2. \A n, s : s \in Int /\ s <= t /\ Heard(an, n, s) => Heard(an2, n, s)
    BY HeardStays DEF Publishes
  <1> QED
    BY <1>1, <1>2 DEF TrueAt

\* A request that has seen a moment without a manifest.
Marked(x, pb) == [x EXCEPT !.bare = @ \/ (pb = None /\ x.kind = "manifest")]

\* What is kept, in flight and held stays what it says.
LEMMA PublishKeepsAnswers ==
  ASSUME NEW an \in Seq(0..MaxTime), NEW lf, NEW pb, NEW t \in Nat,
         \A p \in DOMAIN lf : lf[p] \in 0..t,
         NEW pb2, NEW lf2, NEW an2, Publishes(pb, lf, an, pb2, lf2, an2, t)
  PROVE  /\ \A kind, e : Kept(kind, e, pb, lf, an, t) => Kept(kind, e, pb2, lf2, an2, t)
         /\ \A g : Got(g, pb, lf, t) => Got(g, pb2, lf2, t)
         /\ \A c, x : InFlight(c, x, pb, lf, an, t) =>
               InFlight(c, Marked(x, pb2), pb2, lf2, an2, t)
         /\ pb2 # None => \A c, x : InFlight(c, x, pb, lf, an, t) => InFlight(c, x, pb2, lf2, an2, t)
  <1>1. \A kind, r, s : s \in Int /\ s <= t /\ TrueAt(kind, r, pb, lf, an, s)
                          => TrueAt(kind, r, pb2, lf2, an2, s)
    BY PublishKeepsTrue
  <1>2. \A p, s : s \in Int /\ s <= t /\ Lasts(pb, lf, p, s) => Lasts(pb2, lf2, p, s)
    BY PublishKeepsTrue
  <1>3. ASSUME NEW kind, NEW e, Kept(kind, e, pb, lf, an, t)
        PROVE  Kept(kind, e, pb2, lf2, an2, t)
    <2>1. CASE e # None
      <3>1. e.fresh \in 0..MaxAge /\ t + e.fresh - MaxAge \in Int /\ t + e.fresh - MaxAge <= t
        BY <1>3, <2>1, Sizes DEF Kept
      <3> QED
        BY <1>1, <1>3, <3>1 DEF Kept
    <2> QED
      BY <2>1 DEF Kept
  <1>4. ASSUME NEW g, Got(g, pb, lf, t) PROVE Got(g, pb2, lf2, t)
    <2>1. CASE g.status = "copy"
      <3>1. g.due \in Nat /\ g.due <= t + LongestWait
        BY <1>4, <2>1 DEF Got, Copies
      <3>2. /\ g.due - LongestWait - MaxAge + 1 \in Int
            /\ g.due - LongestWait - MaxAge + 1 <= t
        BY <3>1, Sizes, Waits
      <3> QED
        BY <1>2, <1>4, <3>2 DEF Got
    <2> QED
      BY <1>4, <2>1 DEF Got
  <1>5. \A x : Served(x, pb, lf, an, t) => Served(x, pb2, lf2, an2, t)
    BY <1>1 DEF Served
  <1>6. ASSUME NEW x, x.kind \in Kinds, Answered(x, pb, lf, an, t)
        PROVE  Answered(x, pb2, lf2, an2, t)
    <2>1. CASE x.answer # Miss
      <3>1. t - MaxAge + 1 \in Int /\ t - MaxAge + 1 <= t
        BY Sizes
      <3> QED
        BY <1>1, <1>6, <3>1 DEF Answered
    <2> QED
      BY <2>1 DEF Answered
  <1>7. ASSUME NEW c, NEW x, InFlight(c, x, pb, lf, an, t), pb2 # None
        PROVE  InFlight(c, x, pb2, lf2, an2, t)
    <2>1. /\ x.at = "served" => Served(x, pb2, lf2, an2, t)
          /\ x.at = "answered" => Answered(x, pb2, lf2, an2, t)
      BY <1>5, <1>6, <1>7 DEF InFlight
    <2> QED
      BY <1>7, <2>1 DEF InFlight
  <1>8. ASSUME NEW c, NEW x, InFlight(c, x, pb, lf, an, t)
        PROVE  InFlight(c, Marked(x, pb2), pb2, lf2, an2, t)
    <2> DEFINE y == Marked(x, pb2)
    <2>1. x \in Exchanges
      BY <1>8 DEF InFlight
    <2>2. /\ y \in Exchanges /\ y.at = x.at /\ y.kind = x.kind /\ y.tag = x.tag
          /\ y.answer = x.answer
          /\ (x.bare => y.bare) /\ (pb2 = None /\ x.kind = "manifest" => y.bare)
      BY <2>1 DEF Exchanges, Marked
    <2>3. x = NoExchange => y = NoExchange
      <3>1. x = NoExchange => ~(pb2 = None /\ x.kind = "manifest") /\ x.bare = FALSE
        BY Sizes DEF NoExchange, Kinds
      <3> QED
        BY <2>1, <3>1 DEF Exchanges, Marked
    <2> HIDE DEF y
    <2>4. /\ y.at = "served" => Served(y, pb2, lf2, an2, t)
          /\ y.at = "answered" => Answered(y, pb2, lf2, an2, t)
      BY <1>5, <1>6, <1>8, <2>2 DEF InFlight, Served, Answered
    <2>5. InFlight(c, y, pb2, lf2, an2, t)
      BY <1>8, <2>2, <2>3, <2>4 DEF InFlight
    <2> QED
      BY <2>5 DEF y
  <1> QED
    BY <1>3, <1>4, <1>7, <1>8

-----------------------------------------------------------------------------
(* The handler tells the truth.                                            *)

LEMMA MissIsNoAnswer ==
  /\ Miss \in Responses /\ Miss.status = 404 /\ Miss.maxAge = None
  /\ \A kind : Miss \notin Answers(kind)
  /\ \A kind : \A r \in Answers(kind) : /\ r.maxAge \in 0..MaxAge /\ r.maxAge # None
                                        /\ r.status \in {200, 304} /\ r.tag = Tag(r.body)
                                        /\ r.tag \in Tags /\ r \in Responses
  <1>1. Miss \in Responses /\ Miss.status = 404 /\ Miss.maxAge = None
    BY DEF Miss, Response, Responses
  <1>2. ASSUME NEW kind, NEW r \in Answers(kind)
        PROVE  /\ r.maxAge \in 0..MaxAge /\ r.maxAge # None
               /\ r.status \in {200, 304} /\ r.tag = Tag(r.body) /\ r.tag \in Tags
    BY Sizes DEF Answers, ManifestAnswers, DocumentAnswers
  <1>3. ASSUME NEW kind, NEW r \in Answers(kind) PROVE r \in Responses
    <2>1. Manifests \subseteq Body /\ Documents \subseteq Body
      BY DEF Manifests, Documents, Body
    <2>2. r \in [status : {200, 304}, tag : Tags, body : Manifests \cup Documents,
                 proof : Proof \cup {None}, maxAge : 0..MaxAge]
      BY Sizes DEF Answers, ManifestAnswers, DocumentAnswers
    <2> QED
      BY <2>1, <2>2, Sizes DEF Responses
  <1> QED
    BY <1>1, <1>2, <1>3

LEMMA SignerIsKey ==
  ASSUME NEW r \in ManifestAnswers
  PROVE  /\ SignerOf(r) = (IF r.proof = None THEN None ELSE r.proof.signer)
         /\ SignerOf(r) \in Keys \cup {None} /\ SignerOf(r) # Invalid
  BY Sizes DEF ManifestAnswers, SignerOf, Proof

\* What the handler serves is of its kind, of this moment, and in time.
LEMMA AnswerIsTrue ==
  ASSUME PublisherOK, now \in 0..MaxTime, NEW kind \in Kinds, NEW tag
  PROVE  \/ Answer(kind, tag) = Miss /\ (kind = "manifest" => pub = None)
         \/ /\ Answer(kind, tag) \in Answers(kind)
            /\ TrueAt(kind, Answer(kind, tag), pub, left, announced, now)
            /\ kind = "manifest" => /\ InTime(Answer(kind, tag), Answer(kind, tag).maxAge, now)
                                    /\ pub # None /\ Answer(kind, tag).body = BodyOf(pub)
  <1> DEFINE r == Answer(kind, tag)
             full == Full(kind)
  <1>1. CASE kind = "manifest" /\ pub # None
    <2>1. /\ pub.id \in 1..MaxManifests /\ pub.expires \in Nat
          /\ pub.signer \in Keys \cup {None}
      BY <1>1 DEF PublisherOK, Publications
    <2>2. BodyOf(pub) \in Manifests /\ Tag(BodyOf(pub)) = <<pub.id, None>>
      BY <2>1 DEF BodyOf, Manifests, Tag
    <2>3. /\ full.status = 200 /\ full.tag = <<pub.id, None>> /\ full.body = BodyOf(pub)
          /\ full.proof = WriteProof(pub) /\ full.maxAge = CacheSeconds(pub.expires)
          /\ full = Response(200, Tag(BodyOf(pub)), BodyOf(pub), WriteProof(pub),
                             CacheSeconds(pub.expires))
      BY <1>1, <2>2 DEF Full, Response, BodyOf
    <2>4. WriteProof(pub) \in Proof \cup {None} /\ (WriteProof(pub) # None =>
                WriteProof(pub).over = pub.id /\ WriteProof(pub).signer = pub.signer)
          /\ (WriteProof(pub) = None <=> pub.signer = None)
      BY <2>1, Sizes DEF WriteProof, Proof
    <2>5. /\ CacheSeconds(pub.expires) \in 0..MaxAge
          /\ 0 < CacheSeconds(pub.expires) => now + CacheSeconds(pub.expires) <= pub.expires
      BY <2>1, Sizes DEF CacheSeconds, Lesser
    <2>6. <<pub.id, None>> \in Tags
      BY <2>1 DEF Tags
    <2> HIDE DEF full
    <2>7. r \in {full, NotModified(full)}
      BY <1>1, Sizes DEF Answer, Kinds, full
    <2>8. /\ r.status \in {200, 304} /\ r.tag = Tag(BodyOf(pub)) /\ r.body = BodyOf(pub)
          /\ r.proof = WriteProof(pub) /\ r.maxAge = CacheSeconds(pub.expires)
          /\ r \in [status : {200, 304}, tag : Tags, body : Manifests, proof : Proof \cup {None},
                    maxAge : 0..MaxAge]
      BY <2>2, <2>3, <2>4, <2>5, <2>6, <2>7 DEF NotModified, Response
    <2> HIDE DEF r
    <2>9. r \in ManifestAnswers
      BY <2>4, <2>8 DEF ManifestAnswers, Check, BodyOf
    <2>10. Said(r) = <<pub.id, pub.signer>>
      BY <2>4, <2>8, <2>9, SignerIsKey DEF Said, BodyOf
    <2>11. TrueAt(kind, r, pub, left, announced, now) /\ InTime(r, r.maxAge, now)
      BY <1>1, <2>5, <2>8, <2>10 DEF TrueAt, Lasts, Public, InTime, BodyOf
    <2> QED
      BY <1>1, <2>8, <2>9, <2>11 DEF Answers, r
  <1>2. CASE kind = "identity" /\ active # None
    <2> DEFINE body == [id |-> Len(announced), active |-> active, expires |-> None]
    <2>1. /\ Len(announced) \in 0..Len(Lineage) /\ active \in Keys
          /\ DOMAIN announced = 1..Len(announced)
      <3>1. Len(announced) \in Nat /\ DOMAIN announced = 1..Len(announced)
        BY LenProperties DEF PublisherOK
      <3>2. Len(Lineage) \in Nat
        BY LenProperties, DeliveryAssumption
      <3> QED
        BY <1>2, <3>1, <3>2 DEF PublisherOK
    <2>2. body \in Documents /\ Tag(body) = <<body.id, active>> /\ Tag(body) \in Tags
      BY <2>1 DEF Documents, Tag, Tags
    <2>3. full = Response(200, Tag(body), body, None, DocSeconds)
      BY <1>2 DEF Full
    <2> HIDE DEF full
    <2>4. r \in {full, NotModified(full)}
      BY <1>2, Sizes DEF Answer, Kinds, full
    <2>5. /\ r.body = body /\ r.tag = Tag(body)
          /\ r \in [status : {200, 304}, tag : Tags, body : Documents, proof : {None},
                    maxAge : {MaxAge}]
      BY <2>2, <2>3, <2>4 DEF NotModified, Response, DocSeconds
    <2> HIDE DEF r
    <2>6. r \in DocumentAnswers
      BY <2>5 DEF DocumentAnswers
    <2>7. TrueAt(kind, r, pub, left, announced, now)
      BY <1>2, <2>1, <2>5 DEF TrueAt, Heard
    <2> QED
      BY <1>2, <2>6, <2>7 DEF Answers, r
  <1>3. CASE (kind = "manifest" /\ pub = None) \/ (kind = "identity" /\ active = None)
    BY <1>3 DEF Answer
  <1> QED
    BY <1>1, <1>2, <1>3 DEF Kinds

\* The header of a 304 on the stored answer it names: as true as the full answer.
Updated(stored, r) ==
    [stored EXCEPT !.maxAge = r.maxAge, !.proof = IF r.proof = None THEN @ ELSE r.proof]

LEMMA UpdatedIsTrue ==
  ASSUME NEW kind \in Kinds, NEW stored \in Answers(kind), stored.status = 200,
         NEW r \in Answers(kind), r.tag = stored.tag,
         NEW pb, NEW lf, NEW an, NEW t \in Nat, TrueAt(kind, r, pb, lf, an, t)
  PROVE  /\ Updated(stored, r) \in Answers(kind) /\ Updated(stored, r).status = 200
         /\ Updated(stored, r).maxAge = r.maxAge /\ Updated(stored, r).tag = stored.tag
         /\ Updated(stored, r).body = stored.body
         /\ TrueAt(kind, Updated(stored, r), pb, lf, an, t)
         /\ stored.body.id = r.body.id
  <1> DEFINE u == Updated(stored, r)
  <1>1. stored.body.id = r.body.id
    BY MissIsNoAnswer DEF Tag
  <1>2. CASE kind = "manifest"
    <2>1. stored \in ManifestAnswers /\ r \in ManifestAnswers
      BY <1>2 DEF Answers
    <2>2. /\ u \in [status : {200, 304}, tag : Tags, body : Manifests, proof : Proof \cup {None},
                    maxAge : 0..MaxAge]
          /\ u.status = 200 /\ u.maxAge = r.maxAge /\ u.tag = stored.tag /\ u.body = stored.body
          /\ u.proof = (IF r.proof = None THEN stored.proof ELSE r.proof)
      <3>1. stored \in [status : {200, 304}, tag : Tags, body : Manifests,
                        proof : Proof \cup {None}, maxAge : 0..MaxAge]
        BY <2>1 DEF ManifestAnswers
      <3>2. r.maxAge \in 0..MaxAge /\ r.proof \in Proof \cup {None}
        BY <2>1 DEF ManifestAnswers
      <3>3. PICK q \in Proof \cup {None} : q = IF r.proof = None THEN stored.proof ELSE r.proof
        BY <3>1, <3>2
      <3>4. u = [stored EXCEPT !.maxAge = r.maxAge, !.proof = q]
        BY <3>3 DEF Updated
      <3> HIDE DEF u
      <3>5. u = [status |-> stored.status, tag |-> stored.tag, body |-> stored.body,
                 proof |-> q, maxAge |-> r.maxAge]
        BY <3>1, <3>4
      <3>6. stored.status \in {200, 304} /\ stored.tag \in Tags /\ stored.body \in Manifests
        BY <3>1
      <3> QED
        BY <3>2, <3>3, <3>5, <3>6
    <2> HIDE DEF u
    <2>3. u \in ManifestAnswers
      BY <1>1, <2>1, <2>2 DEF ManifestAnswers, Check
    <2>4. Said(u)[1] = r.body.id /\ Said(r)[1] = r.body.id
      BY <1>1, <2>2 DEF Said
    <2>5. TrueAt(kind, u, pb, lf, an, t)
      <3>1. CASE r.proof # None
        <4>1. Said(u) = Said(r)
          BY <1>1, <2>1, <2>2, <2>3, <3>1, SignerIsKey DEF Said
        <4> QED
          BY <1>2, <4>1 DEF TrueAt
      <3>2. CASE r.proof = None
        <4>1. Said(r) = <<r.body.id, None>>
          BY <2>1, <3>2, SignerIsKey DEF Said
        <4>2. Unsigned(pb, lf, r.body.id)
          BY <1>2, <2>4, <4>1 DEF TrueAt, Lasts, Unsigned
        <4> QED
          BY <1>2, <2>4, <4>2 DEF TrueAt, Lasts
      <3> QED
        BY <3>1, <3>2
    <2> QED
      BY <1>1, <1>2, <2>2, <2>3, <2>5 DEF Answers, u
  <1>3. CASE kind # "manifest"
    <2>1. stored \in DocumentAnswers /\ r \in DocumentAnswers
      BY <1>3 DEF Answers
    <2>2. /\ u \in [status : {200, 304}, tag : Tags, body : Documents, proof : {None},
                    maxAge : {MaxAge}]
          /\ u.status = 200 /\ u.maxAge = r.maxAge /\ u.tag = stored.tag /\ u.body = stored.body
      <3>1. stored \in [status : {200, 304}, tag : Tags, body : Documents,
                        proof : {None}, maxAge : {MaxAge}]
        BY <2>1 DEF DocumentAnswers
      <3>2. r.maxAge = MaxAge /\ r.proof = None
        BY <2>1 DEF DocumentAnswers
      <3>3. u = [stored EXCEPT !.maxAge = MaxAge, !.proof = stored.proof]
        BY <3>2 DEF Updated
      <3> HIDE DEF u
      <3>4. u = stored
        BY <3>1, <3>3
      <3> QED
        BY <3>1, <3>2, <3>4
    <2> HIDE DEF u
    <2>3. u \in DocumentAnswers
      BY <2>1, <2>2 DEF DocumentAnswers
    <2>4. TrueAt(kind, u, pb, lf, an, t)
      BY <1>1, <1>3, <2>2 DEF TrueAt
    <2> QED
      BY <1>1, <1>3, <2>2, <2>3, <2>4 DEF Answers, u
  <1> QED
    BY <1>2, <1>3

-----------------------------------------------------------------------------
(* An exchange keeps the invariant.                                        *)

\* What a step of one exchange may do: one request moves on, one answer is kept.
LEMMA ExchangeKeeps ==
  ASSUME DInv, Exchanging, NEW c \in Clients, NEW x,
         exchange' = [exchange EXCEPT ![c] = x],
         InFlight(c, x, pub, left, announced, now),
         cache' \in [Kinds -> Entries \cup {None}],
         \A k \in Kinds : Kept(k, cache'[k], pub, left, announced, now),
         Got(got', pub, left, now),
         x.kind = "manifest" /\ x.answer \in ManifestAnswers => Had(x.answer.body),
         cache'["manifest"] # None => Had(cache'["manifest"].response.body)
  PROVE  DInv'
  <1>1. /\ UNCHANGED <<vars, domain>> /\ UNCHANGED <<now, pin, chain, place, out, trail, last>>
        /\ UNCHANGED <<server, pub, issued, active, announced, left>> /\ place = "none"
    BY DEF Exchanging, vars, domain
  <1>2. ChainInv'
    BY <1>1, ChainKeeps DEF DInv, ChainStep
  <1>3. PublisherOK' /\ Walked'
    BY <1>1 DEF DInv, PublisherOK, Walked
  <1>4. /\ exchange' \in [Clients -> Exchanges] /\ exchange'[c] = x
        /\ \A d \in Clients : d # c => exchange'[d] = exchange[d]
    BY DEF DInv, InFlight
  <1>5. \A d \in Clients : InFlight(d, exchange'[d], pub, left, announced, now)
    BY <1>4 DEF DInv
  <1>6. \A b : Had(b)' => Had(b)
    BY <1>1, <1>4 DEF Had
  <1>7. OneBody'
    BY <1>1, <1>6 DEF DInv, OneBody
  <1> QED
    BY <1>1, <1>2, <1>3, <1>4, <1>5, <1>7 DEF DInv

LEMMA RequestType ==
  ASSUME DInv, NEW c \in Clients
  PROVE  /\ exchange[c] \in Exchanges
         /\ exchange[c].at # "idle" => exchange[c].kind \in Kinds
         /\ InFlight(c, exchange[c], pub, left, announced, now)
         /\ now \in 0..MaxTime /\ now \in Nat
         /\ pub # None /\ exchange[c].kind \in Kinds => exchange[c] # NoExchange
  <1>1. NoExchange.kind \notin Kinds
    BY Sizes DEF NoExchange
  <1> QED
    BY <1>1, Sizes DEF DInv, InFlight, ChainInv, TypeOK

\* Ages as the clock reads them.
LEMMA Dates ==
  ASSUME DInv
  PROVE  /\ \A p \in DOMAIN left : left[p] \in Nat
         /\ \A i \in DOMAIN announced : announced[i] \in Nat
         /\ now \in Nat
  <1>1. announced \in [1..Len(announced) -> 0..MaxTime] /\ DOMAIN announced = 1..Len(announced)
    BY LenProperties DEF DInv, PublisherOK
  <1> QED
    BY <1>1, Sizes DEF DInv, PublisherOK, ChainInv, TypeOK

LEMMA NothingInFlight ==
  ASSUME NEW c, NEW pb, NEW lf, NEW an, NEW t
  PROVE  /\ InFlight(c, NoExchange, pb, lf, an, t)
         /\ NoExchange.kind # "manifest" /\ NoExchange.answer = None
  BY Sizes DEF InFlight, NoExchange, Exchanges, Ats, Kinds

\* What is handed on, to us or to another.
LEMMA HandOnInFlight ==
  ASSUME DInv, NEW c \in Clients, NEW request \in Exchanges, request.kind \in Kinds,
         request.kind = "manifest" /\ pub = None => request.bare,
         NEW r, \/ r = Miss /\ (request.kind = "manifest" => request.bare)
                \/ /\ r \in Answers(request.kind) /\ r.status = 200
                   /\ TrueAt(request.kind, r, pub, left, announced, now - MaxAge + 1),
         HandOn(c, request, r)
  PROVE  \E x : /\ exchange' = [exchange EXCEPT ![c] = x]
                /\ InFlight(c, x, pub, left, announced, now)
                /\ x.answer \in {r, None}
  <1>1. CASE c = Us
    <2> DEFINE x == [request EXCEPT !.at = "answered", !.answer = r]
    <2>1. r \in Responses
      BY MissIsNoAnswer
    <2>2. /\ x \in Exchanges /\ x.at = "answered" /\ x.kind = request.kind /\ x.answer = r
          /\ x.bare = request.bare
      BY <2>1 DEF Exchanges, Ats
    <2>3. exchange' = [exchange EXCEPT ![c] = x]
      BY <1>1 DEF HandOn
    <2> HIDE DEF x
    <2>4. Answered(x, pub, left, announced, now)
      BY <2>2 DEF Answered
    <2>5. r = Miss => r \notin Answers(request.kind)
      BY MissIsNoAnswer
    <2>6. InFlight(c, x, pub, left, announced, now)
      BY <1>1, <2>2, <2>4, <2>5 DEF InFlight
    <2> QED
      BY <2>2, <2>3, <2>6
  <1>2. CASE c # Us
    <2>1. exchange' = [exchange EXCEPT ![c] = NoExchange]
      BY <1>2 DEF HandOn
    <2>2. InFlight(c, NoExchange, pub, left, announced, now) /\ NoExchange.answer \in {r, None}
      BY NothingInFlight
    <2> QED
      BY <2>1, <2>2
  <1> QED
    BY <1>1, <1>2

LEMMA AskKeeps ==
  ASSUME DInv, NEW c \in Clients, NEW kind \in Kinds, Ask(c, kind)
  PROVE  DInv'
  <1> DEFINE request == [NoExchange EXCEPT !.at = "forwarded", !.kind = kind,
                                           !.tag = Tagged(kind), !.bare = Bare(kind)]
             e == cache[kind]
  <1>1. /\ Exchanging /\ UNCHANGED <<cache, got>>
        /\ IF Fresh(e) THEN HandOn(c, request, e.response)
                       ELSE exchange' = [exchange EXCEPT ![c] = request]
    BY DEF Ask
  <1>2. Kept(kind, e, pub, left, announced, now) /\ e \in Entries \cup {None}
    BY DEF DInv
  <1>3. Tagged(kind) \in Tags \cup {None}
    BY <1>2, Sizes DEF Tagged, Entries, Responses
  <1>4. /\ request \in Exchanges /\ request.at = "forwarded" /\ request.kind = kind
        /\ request.answer = None
        /\ (kind = "manifest" /\ pub = None => request.bare)
    <2>1. Bare(kind) \in BOOLEAN /\ (kind = "manifest" /\ pub = None => Bare(kind))
      BY DEF Bare
    <2> QED
      BY <1>3, <2>1 DEF NoExchange, Exchanges, Ats
  <1> HIDE DEF request
  <1>5. /\ cache' \in [Kinds -> Entries \cup {None}]
        /\ \A k \in Kinds : Kept(k, cache'[k], pub, left, announced, now)
        /\ Got(got', pub, left, now)
        /\ cache'["manifest"] # None => Had(cache'["manifest"].response.body)
    BY <1>1 DEF DInv, Had
  <1>6. CASE ~Fresh(e)
    <2>1. InFlight(c, request, pub, left, announced, now)
      <3>1. request.answer # Miss
        BY <1>4, MissIsNoAnswer, Sizes
      <3> QED
        BY <1>4, <3>1 DEF InFlight
    <2>2. None \notin ManifestAnswers
      BY MissIsNoAnswer, Sizes DEF Answers
    <2> QED
      BY <1>1, <1>4, <1>5, <1>6, <2>1, <2>2, ExchangeKeeps
  <1>7. CASE Fresh(e)
    <2>1. /\ e # None /\ e.fresh \in 0..MaxAge /\ 0 < e.fresh /\ e.response \in Answers(kind)
          /\ e.response.status = 200
          /\ TrueAt(kind, e.response, pub, left, announced, now + e.fresh - MaxAge)
      BY <1>2, <1>7 DEF Fresh, Kept
    <2>2. /\ now + e.fresh - MaxAge \in Int /\ now - MaxAge + 1 \in Int
          /\ now - MaxAge + 1 <= now + e.fresh - MaxAge
      BY <2>1, Dates, Sizes
    <2>3. TrueAt(kind, e.response, pub, left, announced, now - MaxAge + 1)
      BY <2>1, <2>2, Dates, TrueEarlier
    <2>4. PICK x : /\ exchange' = [exchange EXCEPT ![c] = x]
                   /\ InFlight(c, x, pub, left, announced, now)
                   /\ x.answer \in {e.response, None}
      BY <1>1, <1>4, <1>7, <2>1, <2>3, HandOnInFlight
    <2>5. x.kind = "manifest" /\ x.answer \in ManifestAnswers => Had(x.answer.body)
      <3>1. None \notin ManifestAnswers
        BY MissIsNoAnswer, Sizes DEF Answers
      <3>2. kind = "identity" => e.response \notin ManifestAnswers
        BY <2>1, Sizes DEF Answers, DocumentAnswers, ManifestAnswers, Documents, Manifests
      <3> QED
        BY <2>1, <2>4, <3>1, <3>2 DEF Had, Kinds
    <2> QED
      BY <1>1, <1>5, <2>4, <2>5, ExchangeKeeps
  <1> QED
    BY <1>6, <1>7

LEMMA ServeKeeps ==
  ASSUME DInv, NEW c \in Clients, Serve(c)
  PROVE  DInv'
  <1> DEFINE x == exchange[c]
             r == Answer(x.kind, x.tag)
             y == [x EXCEPT !.at = "served", !.answer = r]
  <1>1. /\ x \in Exchanges /\ x.kind \in Kinds /\ x.at = "forwarded"
        /\ InFlight(c, x, pub, left, announced, now)
    BY RequestType DEF Serve
  <1>2. /\ Exchanging /\ UNCHANGED <<cache, got>>
        /\ exchange' = [exchange EXCEPT ![c] = y]
    BY DEF Serve, DInv
  <1>3. \/ r = Miss /\ (x.kind = "manifest" => pub = None)
        \/ /\ r \in Answers(x.kind)
           /\ TrueAt(x.kind, r, pub, left, announced, now)
           /\ x.kind = "manifest" => InTime(r, r.maxAge, now) /\ pub # None /\ r.body = BodyOf(pub)
    BY <1>1, RequestType, AnswerIsTrue DEF DInv
  <1>4. r \in Responses
    BY <1>3, MissIsNoAnswer
  <1> HIDE DEF r
  <1>5. /\ y \in Exchanges /\ y.at = "served" /\ y.kind = x.kind /\ y.answer = r
        /\ y.bare = x.bare
    BY <1>1, <1>4 DEF Exchanges, Ats
  <1> HIDE DEF x, y
  <1>6. Served(y, pub, left, announced, now)
    BY <1>3, <1>5 DEF Served
  <1>7. x.kind = "manifest" /\ (pub = None \/ r = Miss) => x.bare
    <2>1. r = Miss => r \notin Answers(x.kind)
      BY MissIsNoAnswer
    <2> QED
      BY <1>1, <1>3, <2>1 DEF InFlight
  <1>8. InFlight(c, y, pub, left, announced, now)
    BY <1>1, <1>5, <1>6, <1>7 DEF InFlight
  <1>9. y.kind = "manifest" /\ y.answer \in ManifestAnswers => Had(y.answer.body)
    <2>1. r = Miss => r \notin ManifestAnswers
      BY MissIsNoAnswer DEF Answers
    <2> QED
      BY <1>3, <1>5, <2>1 DEF Had
  <1> QED
    BY <1>2, <1>8, <1>9, ExchangeKeeps DEF DInv, Had

\* The answer that arrived is ours or kept: true now, and so for as long as it may be.
LEMMA FreshlyKept ==
  ASSUME DInv, NEW kind \in Kinds, NEW r \in Answers(kind), r.status = 200,
         TrueAt(kind, r, pub, left, announced, now),
         kind = "manifest" => InTime(r, r.maxAge, now) /\ Had(r.body), Keep(kind, r)
  PROVE  /\ cache' \in [Kinds -> Entries \cup {None}]
         /\ \A k \in Kinds : Kept(k, cache'[k], pub, left, announced, now)
         /\ cache'["manifest"] # None => Had(cache'["manifest"].response.body)
  <1> DEFINE e == [response |-> r, fresh |-> r.maxAge]
  <1>1. r.maxAge \in 0..MaxAge /\ r \in Responses
    BY MissIsNoAnswer
  <1>2. /\ e \in Entries /\ e.response = r /\ e.fresh = r.maxAge
        /\ e \in [response : Answers(kind), fresh : 0..MaxAge]
    BY <1>1, Sizes DEF Entries
  <1>3. now + r.maxAge - MaxAge \in Int /\ now + r.maxAge - MaxAge <= now /\ now \in Int
    BY <1>1, Dates, Sizes
  <1>4. TrueAt(kind, r, pub, left, announced, now + r.maxAge - MaxAge)
    BY <1>3, Dates, TrueEarlier
  <1>5. /\ cache' \in [Kinds -> Entries \cup {None}] /\ cache'[kind] = e
        /\ \A k \in Kinds : k # kind => cache'[k] = cache[k]
    <2>1. cache' = [cache EXCEPT ![kind] = e]
      BY DEF Keep
    <2> HIDE DEF e
    <2> QED
      BY <1>2, <2>1 DEF DInv
  <1> HIDE DEF e
  <1>6. Kept(kind, e, pub, left, announced, now)
    BY <1>2, <1>4 DEF Kept
  <1>7. cache'["manifest"] # None => Had(cache'["manifest"].response.body)
    BY <1>2, <1>5 DEF Had, Kinds
  <1> QED
    BY <1>5, <1>6, <1>7 DEF DInv

\* ... and handed on.
LEMMA FreshlyHanded ==
  ASSUME DInv, NEW kind, NEW r \in Answers(kind), TrueAt(kind, r, pub, left, announced, now)
  PROVE  TrueAt(kind, r, pub, left, announced, now - MaxAge + 1)
  <1>1. now - MaxAge + 1 \in Int /\ now \in Int /\ now - MaxAge + 1 <= now
    BY Dates, Sizes
  <1> QED
    BY <1>1, Dates, TrueEarlier

\* Bodies of manifests are of manifest exchanges.
LEMMA KindOfAnswer ==
  ASSUME NEW kind \in Kinds, NEW r, r \in Answers(kind) \cup {Miss, None}, r \in ManifestAnswers
  PROVE  kind = "manifest"
  <1>1. None \notin ManifestAnswers /\ Miss \notin ManifestAnswers
    <2>1. Answers("manifest") = ManifestAnswers
      BY DEF Answers
    <2>2. Miss \notin Answers("manifest") /\ Answers("manifest") \subseteq Responses
      BY MissIsNoAnswer
    <2> QED
      BY <2>1, <2>2, Sizes
  <1>2. r \notin DocumentAnswers
    BY Sizes DEF DocumentAnswers, ManifestAnswers, Documents, Manifests
  <1> QED
    BY <1>1, <1>2 DEF Answers, Kinds

LEMMA RelayFullKeeps ==
  ASSUME DInv, NEW c \in Clients, RelayFull(c)
  PROVE  DInv'
  <1> DEFINE x == exchange[c]
             r == x.answer
  <1>1. /\ x \in Exchanges /\ x.kind \in Kinds /\ x.at = "served"
        /\ InFlight(c, x, pub, left, announced, now)
        /\ r.status # 304
    BY RequestType DEF RelayFull
  <1>2. /\ Exchanging /\ UNCHANGED got /\ HandOn(c, x, r)
        /\ IF r.maxAge = None THEN UNCHANGED cache ELSE Keep(x.kind, r)
    BY DEF RelayFull
  <1>3. \/ r = Miss
        \/ /\ r \in Answers(x.kind) /\ r.status = 200 /\ r.maxAge # None
           /\ TrueAt(x.kind, r, pub, left, announced, now)
           /\ x.kind = "manifest" => InTime(r, r.maxAge, now) /\ Had(r.body)
    <2>1. r = Miss \/ (r \in Answers(x.kind) /\ TrueAt(x.kind, r, pub, left, announced, now)
                        /\ (x.kind = "manifest" => InTime(r, r.maxAge, now)))
      BY <1>1 DEF InFlight, Served
    <2>2. r \in Answers(x.kind) /\ x.kind = "manifest" => Had(r.body)
      BY DEF Had, Answers
    <2>3. r \in Answers(x.kind) => r.status = 200 /\ r.maxAge # None
      BY <1>1, MissIsNoAnswer
    <2> QED
      BY <2>1, <2>2, <2>3
  <1>4. x.kind = "manifest" /\ (pub = None \/ r = Miss) => x.bare
    BY <1>1 DEF InFlight
  <1> HIDE DEF x, r
  <1>5. PICK y : /\ exchange' = [exchange EXCEPT ![c] = y]
                 /\ InFlight(c, y, pub, left, announced, now)
                 /\ y.answer \in {r, None}
    BY <1>1, <1>2, <1>3, <1>4, FreshlyHanded, HandOnInFlight
  <1>6. /\ cache' \in [Kinds -> Entries \cup {None}]
        /\ \A k \in Kinds : Kept(k, cache'[k], pub, left, announced, now)
        /\ cache'["manifest"] # None => Had(cache'["manifest"].response.body)
    <2>1. CASE r = Miss
      BY <1>2, <2>1, MissIsNoAnswer DEF DInv, Had
    <2>2. CASE r # Miss
      BY <1>1, <1>2, <1>3, <2>2, FreshlyKept
    <2> QED
      BY <2>1, <2>2
  <1>7. y.kind = "manifest" /\ y.answer \in ManifestAnswers => Had(y.answer.body)
    <2>1. ASSUME y.answer \in ManifestAnswers PROVE y.answer = r /\ r \in Answers("manifest")
      BY <1>1, <1>3, <1>5, <2>1, KindOfAnswer, Sizes, MissIsNoAnswer DEF Answers
    <2>2. ASSUME r \in ManifestAnswers PROVE x.kind = "manifest" /\ r # Miss
      BY <1>1, <1>3, <2>2, KindOfAnswer, MissIsNoAnswer DEF Answers
    <2> QED
      BY <1>3, <2>1, <2>2 DEF Answers
  <1> QED
    BY <1>2, <1>5, <1>6, <1>7, ExchangeKeeps DEF DInv

LEMMA RelayUpdateKeeps ==
  ASSUME DInv, NEW c \in Clients, RelayUpdate(c)
  PROVE  DInv'
  <1> DEFINE x == exchange[c]
             r == x.answer
             stored == cache[x.kind].response
             u == Updated(stored, r)
  <1>1. /\ x \in Exchanges /\ x.kind \in Kinds /\ x.at = "served"
        /\ InFlight(c, x, pub, left, announced, now)
        /\ r.status = 304 /\ r.tag = Tagged(x.kind)
    BY RequestType DEF RelayUpdate
  <1>2. Exchanging /\ UNCHANGED got /\ Keep(x.kind, u) /\ HandOn(c, x, u)
    BY DEF RelayUpdate, Updated
  <1>3. /\ r \in Answers(x.kind) /\ r.tag \in Tags
        /\ TrueAt(x.kind, r, pub, left, announced, now)
        /\ x.kind = "manifest" => InTime(r, r.maxAge, now) /\ Had(r.body)
    <2>1. r # Miss
      BY <1>1, MissIsNoAnswer
    <2>2. /\ r \in Answers(x.kind) /\ TrueAt(x.kind, r, pub, left, announced, now)
          /\ x.kind = "manifest" => InTime(r, r.maxAge, now)
      BY <1>1, <2>1 DEF InFlight, Served
    <2>3. r \in Answers(x.kind) /\ x.kind = "manifest" => Had(r.body)
      BY DEF Had, Answers
    <2> QED
      BY <2>2, <2>3, MissIsNoAnswer
  <1>4. /\ cache[x.kind] # None /\ r.tag = stored.tag
        /\ stored \in Answers(x.kind) /\ stored.status = 200
        /\ x.kind = "manifest" => Had(stored.body)
    BY <1>1, <1>3, Sizes DEF Tagged, DInv, Kept, Had
  <1>5. x.kind = "manifest" /\ (pub = None \/ r = Miss) => x.bare
    BY <1>1 DEF InFlight
  <1> HIDE DEF x, r, stored, u
  <1>6. /\ u \in Answers(x.kind) /\ u.status = 200 /\ u.maxAge = r.maxAge
        /\ u.body = stored.body /\ stored.body.id = r.body.id
        /\ TrueAt(x.kind, u, pub, left, announced, now)
    BY <1>1, <1>3, <1>4, Dates, UpdatedIsTrue DEF u
  <1>7. x.kind = "manifest" => InTime(u, u.maxAge, now) /\ Had(u.body)
    <2>1. ASSUME x.kind = "manifest" PROVE stored.body.expires = r.body.expires
      <3>1. stored.body \in Manifests /\ r.body \in Manifests
        BY <1>3, <1>4, <2>1 DEF Answers, ManifestAnswers
      <3> QED
        BY <1>3, <1>4, <1>6, <2>1, <3>1 DEF DInv, OneBody
    <2> QED
      BY <1>3, <1>4, <1>6, <2>1 DEF InTime
  <1>8. PICK y : /\ exchange' = [exchange EXCEPT ![c] = y]
                 /\ InFlight(c, y, pub, left, announced, now)
                 /\ y.answer \in {u, None}
    BY <1>1, <1>2, <1>5, <1>6, FreshlyHanded, HandOnInFlight
  <1>9. /\ cache' \in [Kinds -> Entries \cup {None}]
        /\ \A k \in Kinds : Kept(k, cache'[k], pub, left, announced, now)
        /\ cache'["manifest"] # None => Had(cache'["manifest"].response.body)
    BY <1>1, <1>2, <1>6, <1>7, FreshlyKept
  <1>10. y.kind = "manifest" /\ y.answer \in ManifestAnswers => Had(y.answer.body)
    <2>1. ASSUME y.answer \in ManifestAnswers PROVE y.answer = u /\ x.kind = "manifest"
      BY <1>1, <1>6, <1>8, <2>1, KindOfAnswer, Sizes, MissIsNoAnswer DEF Answers
    <2> QED
      BY <1>7, <2>1
  <1> QED
    BY <1>2, <1>8, <1>9, <1>10, ExchangeKeeps DEF DInv

LEMMA RelayAgainKeeps ==
  ASSUME DInv, NEW c \in Clients, RelayAgain(c)
  PROVE  DInv'
  <1> DEFINE x == exchange[c]
             y == [x EXCEPT !.at = "forwarded", !.tag = None, !.answer = None]
  <1>1. /\ x \in Exchanges /\ x.kind \in Kinds /\ x.at = "served"
        /\ InFlight(c, x, pub, left, announced, now)
    BY RequestType DEF RelayAgain
  <1>2. /\ Exchanging /\ UNCHANGED <<cache, got>>
        /\ exchange' = [exchange EXCEPT ![c] = y]
    BY DEF RelayAgain
  <1>3. /\ y \in Exchanges /\ y.at = "forwarded" /\ y.kind = x.kind /\ y.answer = None
        /\ y.bare = x.bare
    BY <1>1 DEF Exchanges, Ats
  <1> HIDE DEF x, y
  <1>4. None # Miss /\ None \notin ManifestAnswers
    BY MissIsNoAnswer, Sizes DEF Answers
  <1>5. InFlight(c, y, pub, left, announced, now)
    BY <1>1, <1>3, <1>4 DEF InFlight
  <1> QED
    BY <1>2, <1>3, <1>4, <1>5, ExchangeKeeps DEF DInv, Had

\* resolver.go: what we make of a manifest.
LEMMA VerdictGot ==
  ASSUME DInv, NEW r, \/ r = Miss
                      \/ /\ r \in ManifestAnswers /\ r.status = 200
                         /\ Lasts(pub, left, Said(r), now - MaxAge + 1)
  PROVE  Got(Verdict(r), pub, left, now)
  <1>1. /\ [NoCopy EXCEPT !.status = "absent"] \in Copies
        /\ [NoCopy EXCEPT !.status = "refused"] \in Copies
        /\ [NoCopy EXCEPT !.status = "absent"].status = "absent"
        /\ [NoCopy EXCEPT !.status = "refused"].status = "refused"
        /\ None = [NoCopy EXCEPT !.status = "absent"].signer
        /\ None = [NoCopy EXCEPT !.status = "refused"].signer
    BY DEF NoCopy, Copies
  <1>2. CASE r = Miss
    <2>1. Verdict(r) = [NoCopy EXCEPT !.status = "absent"]
      BY <1>2, MissIsNoAnswer DEF Verdict
    <2> QED
      BY <1>1, <2>1, Sizes DEF Got
  <1>3. CASE r # Miss /\ ~Validate(r.body)
    <2>1. Verdict(r) = [NoCopy EXCEPT !.status = "refused"]
      BY <1>3 DEF Verdict
    <2> QED
      BY <1>1, <2>1, Sizes DEF Got
  <1>4. CASE r # Miss /\ Validate(r.body)
    <2> DEFINE g == [status |-> "copy", id |-> r.body.id, signer |-> SignerOf(r),
                     due |-> RefreshAt(CacheUntil(r))]
    <2>1. Verdict(r) = g
      BY <1>4 DEF Verdict
    <2>2. /\ r.body.id \in 1..MaxManifests /\ r.body.expires \in Nat /\ r.maxAge \in 0..MaxAge
          /\ SignerOf(r) \in Keys \cup {None} /\ SignerOf(r) # Invalid
      BY <1>4, SignerIsKey DEF ManifestAnswers, Manifests
    <2>3. /\ CacheUntil(r) \in Nat
          /\ now <= CacheUntil(r) /\ CacheUntil(r) <= now + MaxAge
      BY <1>4, <2>2, Dates, Sizes DEF CacheUntil, Lesser, Validate
    <2>4. RefreshAt(CacheUntil(r)) \in Nat /\ RefreshAt(CacheUntil(r)) <= now + LongestWait
      BY <2>3, Dates, RefreshAtBounds
    <2>5. /\ g \in Copies /\ g.signer # Invalid /\ g.due = RefreshAt(CacheUntil(r))
          /\ <<g.id, g.signer>> = Said(r)
      BY <2>2, <2>4 DEF Copies, Said
    <2> HIDE DEF g
    <2>6. /\ g.due - LongestWait - MaxAge + 1 \in Int /\ now - MaxAge + 1 \in Int
          /\ g.due - LongestWait - MaxAge + 1 <= now - MaxAge + 1
          /\ g.due <= now + LongestWait
      BY <2>4, <2>5, Dates, Sizes, Waits
    <2>7. Lasts(pub, left, Said(r), g.due - LongestWait - MaxAge + 1)
      <3>1. Lasts(pub, left, Said(r), now - MaxAge + 1)
        BY <1>4
      <3> QED
        BY <2>6, <3>1, Dates DEF Lasts
    <2> QED
      BY <2>1, <2>5, <2>6, <2>7 DEF Got
  <1> QED
    BY <1>2, <1>3, <1>4

LEMMA ReceiveManifestKeeps ==
  ASSUME DInv, ReceiveManifest
  PROVE  DInv'
  <1> DEFINE x == exchange[Us]
  <1>1. /\ x.kind = "manifest" /\ x.at = "answered"
        /\ InFlight(Us, x, pub, left, announced, now)
    BY RequestType, Sizes DEF ReceiveManifest
  <1>2. /\ Exchanging /\ UNCHANGED cache /\ got' = Verdict(x.answer)
        /\ exchange' = [exchange EXCEPT ![Us] = NoExchange]
    BY DEF ReceiveManifest
  <1>3. \/ x.answer = Miss
        \/ /\ x.answer \in ManifestAnswers /\ x.answer.status = 200
           /\ Lasts(pub, left, Said(x.answer), now - MaxAge + 1)
    BY <1>1 DEF InFlight, Answered, Answers, TrueAt
  <1>4. Got(got', pub, left, now)
    BY <1>2, <1>3, VerdictGot
  <1> QED
    BY <1>2, <1>4, ExchangeKeeps, NothingInFlight, Sizes DEF DInv, Had

LEMMA HistoryOfLineage ==
  ASSUME NEW n \in 0..Len(Lineage)
  PROVE  /\ SubSeq(Lineage, 1, n) \in Seq(Statements)
         /\ Len(SubSeq(Lineage, 1, n)) = n
         /\ \A i \in 1..n : SubSeq(Lineage, 1, n)[i] = Lineage[i]
  <1>1. /\ Lineage \in Seq(Statements) /\ Len(Lineage) \in Nat
        /\ \A i \in 1..n : Lineage[i] \in Statements
    BY DeliveryAssumption, LenProperties
  <1> QED
    BY <1>1, SubSeqProperties

LEMMA ReceiveIdentityKeeps ==
  ASSUME DInv, ReceiveIdentity
  PROVE  DInv' /\ ChainStep
  <1> DEFINE x == exchange[Us]
             r == x.answer
             history == SubSeq(Lineage, 1, r.body.id)
  <1>1. /\ x.kind = "identity" /\ x.at = "answered"
        /\ InFlight(Us, x, pub, left, announced, now)
    BY RequestType, Sizes DEF ReceiveIdentity
  <1>2. /\ UNCHANGED <<domain, cache, got>>
        /\ exchange' = [exchange EXCEPT ![Us] = NoExchange]
        /\ IF r.status = 404 THEN UNCHANGED vars ELSE Begin(history)
    BY DEF ReceiveIdentity
  <1>3. UNCHANGED <<server, pub, issued, active, announced, left, cache, got>>
    BY <1>2 DEF domain
  <1>4. r.status # 404 => /\ r.body.id \in 0..Len(Lineage) /\ r.maxAge = MaxAge
                          /\ Heard(announced, r.body.id, now - MaxAge + 1)
    BY <1>1, MissIsNoAnswer DEF InFlight, Answered, Answers, DocumentAnswers, Documents, TrueAt
  <1>5. r.status # 404 => history \in Seq(Statements)
    BY <1>4, HistoryOfLineage
  <1>6. ChainStep
    BY <1>2, <1>5 DEF ChainStep
  <1>7. now' = now
    BY <1>2 DEF Begin, Present, vars
  <1>8. Walked'
    <2>1. CASE r.status = 404
      BY <1>2, <1>3, <2>1 DEF DInv, Walked, vars
    <2>2. CASE r.status # 404
      <3>1. chain' = history
        BY <1>2, <2>2 DEF Begin, Present
      <3> QED
        BY <1>3, <1>4, <1>7, <2>2, <3>1 DEF Walked
    <2> QED
      BY <2>1, <2>2
  <1>9. /\ exchange' \in [Clients -> Exchanges] /\ exchange'[Us] = NoExchange
        /\ \A d \in Clients : d # Us => exchange'[d] = exchange[d]
    <2>1. NoExchange \in Exchanges
      BY NothingInFlight DEF InFlight
    <2> QED
      BY <1>2, <2>1, Sizes DEF DInv
  <1>10. \A d \in Clients : InFlight(d, exchange'[d], pub, left, announced, now)
    BY <1>9, NothingInFlight DEF DInv
  <1>11. \A b : Had(b)' => Had(b)
    BY <1>3, <1>9, NothingInFlight DEF Had
  <1>12. OneBody' /\ PublisherOK'
    BY <1>3, <1>7, <1>11 DEF DInv, OneBody, PublisherOK
  <1>13. ChainInv'
    BY <1>6, ChainKeeps DEF DInv
  <1> QED
    BY <1>3, <1>6, <1>7, <1>8, <1>9, <1>10, <1>12, <1>13 DEF DInv

-----------------------------------------------------------------------------
(* A publication keeps it.                                                 *)

\* What a publication may do, to those who have asked too.
LEMMA PublishKeeps ==
  ASSUME DInv, Publishing, Publishes(pub, left, announced, pub', left', announced', now),
         PublisherOK', OneBody',
         \/ pub' # None /\ UNCHANGED exchange
         \/ pub' = pub /\ UNCHANGED exchange
         \/ /\ pub' = None
            /\ exchange' = [c \in Clients |->
                  [exchange[c] EXCEPT !.bare = @ \/ exchange[c].kind = "manifest"]]
  PROVE  DInv'
  <1>1. /\ UNCHANGED vars /\ UNCHANGED <<now, pin, chain, place, out, trail, last>>
        /\ UNCHANGED <<cache, got, server>> /\ place = "none"
    BY DEF Publishing, vars
  <1>2. ChainInv' /\ Walked'
    BY <1>1, ChainKeeps DEF DInv, ChainStep, Walked
  <1>3. announced \in Seq(0..MaxTime) /\ now \in Nat /\ \A p \in DOMAIN left : left[p] \in 0..now
    BY Dates DEF DInv, PublisherOK
  <1>6. \A c, x : InFlight(c, x, pub, left, announced, now)
                   => InFlight(c, Marked(x, pub'), pub', left', announced', now)
    BY <1>3, PublishKeepsAnswers
  <1>4. /\ \A k \in Kinds : Kept(k, cache'[k], pub', left', announced', now)
        /\ Got(got', pub', left', now)
    <2>1. /\ \A k \in Kinds : Kept(k, cache[k], pub, left, announced, now)
          /\ Got(got, pub, left, now)
      BY DEF DInv
    <2>2. /\ \A k, e : Kept(k, e, pub, left, announced, now)
                        => Kept(k, e, pub', left', announced', now)
          /\ \A g : Got(g, pub, left, now) => Got(g, pub', left', now)
      BY <1>3, PublishKeepsAnswers
    <2>3. cache' = cache /\ got' = got
      BY <1>1
    <2> QED
      BY <2>1, <2>2, <2>3
  <1>5. /\ exchange' \in [Clients -> Exchanges]
        /\ \A c \in Clients : InFlight(c, exchange'[c], pub', left', announced', now)
    <2>1. CASE pub' # None /\ UNCHANGED exchange
      BY <1>3, <2>1, PublishKeepsAnswers DEF DInv
    <2>2. CASE pub' = pub /\ UNCHANGED exchange /\ pub' = None
      <3>1. ASSUME NEW c \in Clients
            PROVE  InFlight(c, exchange[c], pub', left', announced', now)
        <4>1. InFlight(c, exchange[c], pub, left, announced, now)
          BY DEF DInv
        <4>2. exchange[c] \in Exchanges /\ (exchange[c].kind = "manifest" => exchange[c].bare)
          BY <2>2, <4>1 DEF InFlight
        <4>3. Marked(exchange[c], pub') = exchange[c]
          BY <2>2, <4>2 DEF Exchanges, Marked
        <4>4. InFlight(c, Marked(exchange[c], pub'), pub', left', announced', now)
          BY <1>6, <4>1
        <4> QED
          BY <4>3, <4>4
      <3> QED
        BY <2>2, <3>1 DEF DInv
    <2>3. CASE /\ pub' = None
               /\ exchange' = [c \in Clients |->
                    [exchange[c] EXCEPT !.bare = @ \/ exchange[c].kind = "manifest"]]
      <3>1. ASSUME NEW c \in Clients
            PROVE  InFlight(c, exchange'[c], pub', left', announced', now)
        <4>1. InFlight(c, exchange[c], pub, left, announced, now)
          BY DEF DInv
        <4>2. InFlight(c, Marked(exchange[c], pub'), pub', left', announced', now)
          BY <1>6, <4>1
        <4>3. exchange'[c] = Marked(exchange[c], pub')
          BY <2>3 DEF Marked
        <4> QED
          BY <4>2, <4>3
      <3>2. \A c \in Clients : exchange'[c] \in Exchanges
        BY <3>1 DEF InFlight
      <3> QED
        BY <2>3, <3>1, <3>2
    <2> QED
      BY <2>1, <2>2, <2>3
  <1> QED
    BY <1>1, <1>2, <1>4, <1>5 DEF DInv

LEMMA LeavePublishes ==
  ASSUME DInv, Leave, announced' = announced
  PROVE  /\ Publishes(pub, left, announced, pub', left', announced', now)
         /\ \A p \in DOMAIN left' : left'[p] \in 0..now
  <1>1. left' = Left(pub, left, now)
    BY DEF Leave, Left
  <1>2. Publishes(pub, left, announced, pub', left', announced', now)
    BY <1>1 DEF Publishes
  <1>3. announced \in Seq(0..MaxTime) /\ now \in Nat /\ \A p \in DOMAIN left : left[p] \in 0..now
    BY Dates DEF DInv, PublisherOK
  <1> QED
    BY <1>2, <1>3, PublishKeepsTrue

\* The same bodies, whoever signed them.
LEMMA SameBodies ==
  ASSUME DInv, cache' = cache, issued' = issued,
         pub' = None \/ (pub # None /\ pub' # None /\ BodyOf(pub') = BodyOf(pub)),
         \A c \in Clients : /\ exchange'[c].kind = exchange[c].kind
                            /\ exchange'[c].answer = exchange[c].answer
  PROVE  OneBody'
  <1>1. \A b : Had(b)' => Had(b)
    BY DEF Had, BodyOf
  <1> QED
    BY <1>1 DEF DInv, OneBody

LEMMA IssueKeeps ==
  ASSUME DInv, Issue
  PROVE  DInv'
  <1>1. /\ Publishing /\ Leave /\ UNCHANGED <<active, announced, exchange>>
        /\ issued' = issued + 1 /\ issued \in 0..MaxManifests /\ issued < MaxManifests
        /\ pub' = [id |-> issued', expires |-> now + Lifetime[issued'], signer |-> active]
        /\ UNCHANGED <<now, server, cache>>
    BY DEF Issue, Publishing, DInv, PublisherOK, vars
  <1>2. Publishes(pub, left, announced, pub', left', announced', now)
        /\ \A p \in DOMAIN left' : left'[p] \in 0..now
    BY <1>1, LeavePublishes
  <1>3. issued' \in 1..MaxManifests /\ now + Lifetime[issued'] \in Nat
    <2>1. issued' \in 1..MaxManifests
      BY <1>1, Sizes
    <2>2. Lifetime[issued'] \in Nat
      BY <2>1, DeliveryAssumption
    <2> QED
      BY <2>1, <2>2, Dates
  <1>4. pub' \in Publications /\ pub' # None
    BY <1>1, <1>3, Sizes DEF Publications, DInv, PublisherOK
  <1>5. PublisherOK'
    BY <1>1, <1>2, <1>3, <1>4 DEF DInv, PublisherOK
  <1>6. OneBody'
    <2>1. BodyOf(pub').id = issued'
      BY <1>1 DEF BodyOf
    <2>2. ASSUME NEW b \in Manifests, Had(b)' PROVE Had(b) \/ b = BodyOf(pub')
      BY <1>1, <2>2 DEF Had, BodyOf
    <2>3. ASSUME NEW b \in Manifests, Had(b) PROVE b.id <= issued
      BY <2>3 DEF DInv, OneBody
    <2>4. ASSUME NEW b \in Manifests, NEW d \in Manifests, Had(b)', Had(d)'
          PROVE  b.id <= issued' /\ (b.id = d.id => b.expires = d.expires)
      <3>1. b.id \in Nat /\ d.id \in Nat
        BY DEF Manifests
      <3>2. CASE Had(b) /\ Had(d)
        BY <1>1, <3>1, <3>2 DEF DInv, OneBody
      <3>3. CASE b = BodyOf(pub') /\ d = BodyOf(pub')
        BY <1>3, <2>1, <3>3
      <3>4. CASE b = BodyOf(pub') /\ Had(d)
        BY <1>1, <1>3, <2>1, <2>3, <3>1, <3>4
      <3>5. CASE d = BodyOf(pub') /\ Had(b)
        BY <1>1, <1>3, <2>1, <2>3, <3>1, <3>5
      <3> QED
        BY <2>2, <2>4, <3>2, <3>3, <3>4, <3>5
    <2> QED
      BY <2>4 DEF OneBody
  <1> QED
    BY <1>1, <1>2, <1>4, <1>5, <1>6, PublishKeeps

LEMMA WithdrawKeeps ==
  ASSUME DInv, Withdraw
  PROVE  DInv'
  <1>1. /\ Publishing /\ Leave /\ pub' = None /\ UNCHANGED <<issued, active, announced>>
        /\ exchange' = [c \in Clients |->
              [exchange[c] EXCEPT !.bare = @ \/ exchange[c].kind = "manifest"]]
        /\ UNCHANGED <<now, server, cache>>
    BY DEF Withdraw, Publishing, vars
  <1>2. Publishes(pub, left, announced, pub', left', announced', now)
        /\ \A p \in DOMAIN left' : left'[p] \in 0..now
    BY <1>1, LeavePublishes
  <1>3. PublisherOK'
    BY <1>1, <1>2 DEF DInv, PublisherOK
  <1>4. ASSUME NEW c \in Clients
        PROVE  exchange'[c].kind = exchange[c].kind /\ exchange'[c].answer = exchange[c].answer
    <2>1. exchange[c] \in Exchanges
      BY DEF DInv
    <2> QED
      BY <1>1, <2>1 DEF Exchanges
  <1>5. OneBody'
    BY <1>1, <1>4, SameBodies
  <1> QED
    BY <1>1, <1>2, <1>3, <1>5, PublishKeeps

LEMMA SignerChangeKeeps ==
  ASSUME DInv, Publishing, Leave, pub # None, active' \in Keys \cup {None},
         pub' = [pub EXCEPT !.signer = active'], UNCHANGED <<issued, announced, exchange>>
  PROVE  DInv'
  <1>1. UNCHANGED <<now, server, cache>>
    BY DEF Publishing, vars
  <1>2. /\ pub \in Publications /\ pub' \in Publications /\ pub'.signer = active'
        /\ pub'.id = pub.id /\ pub'.expires = pub.expires /\ pub' # None
    <2>1. pub \in Publications
      BY DEF DInv, PublisherOK
    <2>2. pub' \in Publications /\ pub'.signer = active' /\ pub'.id = pub.id
          /\ pub'.expires = pub.expires
      BY <2>1 DEF Publications
    <2> QED
      BY <2>1, <2>2, Sizes
  <1>3. Publishes(pub, left, announced, pub', left', announced', now)
        /\ \A p \in DOMAIN left' : left'[p] \in 0..now
    BY LeavePublishes
  <1>4. PublisherOK'
    BY <1>1, <1>2, <1>3 DEF DInv, PublisherOK
  <1>5. OneBody'
    BY <1>1, <1>2, SameBodies DEF BodyOf
  <1> QED
    BY <1>2, <1>3, <1>4, <1>5, PublishKeeps

LEMMA SignerKeeps ==
  ASSUME DInv, SwitchSigner \/ StopSigning
  PROVE  DInv'
  <1>1. CASE SwitchSigner
    <2>1. PICK i \in DOMAIN announced : active' = Lineage[i].new
      BY <1>1 DEF SwitchSigner
    <2>2. Lineage[i] \in Statements
      <3>1. i \in 1..Len(Lineage)
        BY LenProperties, DeliveryAssumption DEF DInv, PublisherOK
      <3> QED
        BY <3>1, DeliveryAssumption
    <2>3. active' \in Keys \cup {None}
      BY <2>1, <2>2, ChainAssumption DEF Statement
    <2> QED
      BY <1>1, <2>3, SignerChangeKeeps DEF SwitchSigner
  <1>2. CASE StopSigning
    <2>1. active' \in Keys \cup {None} /\ pub' = [pub EXCEPT !.signer = active']
      BY <1>2 DEF StopSigning
    <2> QED
      BY <1>2, <2>1, SignerChangeKeeps DEF StopSigning
  <1> QED
    BY <1>1, <1>2

LEMMA AnnounceKeeps ==
  ASSUME DInv, Announce
  PROVE  DInv'
  <1>1. /\ Publishing /\ UNCHANGED <<pub, issued, active, left, exchange>>
        /\ announced' = Append(announced, now) /\ Len(announced) < Len(Lineage)
        /\ UNCHANGED <<now, server, cache>>
    BY DEF Announce, Publishing, vars
  <1>2. Publishes(pub, left, announced, pub', left', announced', now)
    BY <1>1 DEF Publishes
  <1>3. /\ announced \in Seq(0..MaxTime) /\ now \in 0..MaxTime
        /\ Len(announced) \in Nat /\ Len(Lineage) \in Nat
        /\ \A i \in DOMAIN announced : announced[i] <= now
    BY LenProperties, DeliveryAssumption DEF DInv, PublisherOK, ChainInv, TypeOK
  <1>4. /\ announced' \in Seq(0..MaxTime) /\ Len(announced') = Len(announced) + 1
        /\ \A i \in DOMAIN announced' : announced'[i] <= now
    <2>1. /\ DOMAIN announced = 1..Len(announced) /\ announced' \in Seq(0..MaxTime)
          /\ Len(announced') = Len(announced) + 1
          /\ DOMAIN announced' = 1..(Len(announced) + 1)
          /\ \A i \in 1..Len(announced) : announced'[i] = announced[i]
          /\ announced'[Len(announced) + 1] = now
      BY <1>1, <1>3, LenProperties
    <2> QED
      BY <1>3, <2>1
  <1>5. PublisherOK'
    BY <1>1, <1>3, <1>4 DEF DInv, PublisherOK
  <1>6. OneBody'
    BY <1>1, SameBodies
  <1> QED
    BY <1>1, <1>2, <1>5, <1>6, PublishKeeps

-----------------------------------------------------------------------------
(* The walk and the clock keep it.                                         *)

LEMMA WalkKeeps ==
  ASSUME DInv, Hostile \/ Walk \/ Accept \/ Refuse
  PROVE  DInv' /\ ChainStep
  <1>1. /\ UNCHANGED <<domain, delivery>>
        /\ UNCHANGED <<server, pub, issued, active, announced, left, cache, exchange, got>>
    BY DEF Hostile, Walk, Accept, Refuse, domain, delivery
  <1>2. Chains \subseteq Seq(Statements)
    BY SeqDef, ChainAssumption DEF Chains, Sequences
  <1>3. ChainStep
    BY <1>2 DEF Hostile, Walk, Accept, Refuse, ChainStep
  <1>4. now' = now
    BY DEF Hostile, Begin, Again, Present, Walk, Follow, Break, Arrive, Accept, Adopt, Refuse
  <1>5. Walked'
    <2>1. CASE Hostile
      BY <1>1, <2>1 DEF Hostile, Walked
    <2>2. CASE Walk
      BY <1>1, <1>4, <2>2 DEF Walk, Follow, Walking, Break, Arrive, DInv, Walked
    <2>3. CASE Accept \/ Refuse
      BY <2>3 DEF Accept, Adopt, Refuse, Rest, Walked
    <2> QED
      BY <2>1, <2>2, <2>3
  <1>6. OneBody' /\ PublisherOK'
    BY <1>1, <1>4 DEF DInv, OneBody, Had, PublisherOK
  <1>7. ChainInv'
    BY <1>3, ChainKeeps DEF DInv
  <1> QED
    BY <1>1, <1>3, <1>4, <1>5, <1>6, <1>7 DEF DInv

LEMMA PassKeeps ==
  ASSUME DInv, Pass
  PROVE  DInv' /\ ChainStep
  <1>1. /\ Tick /\ now' = now + 1 /\ UNCHANGED <<domain, exchange, got>>
        /\ UNCHANGED <<server, pub, issued, active, announced, left>>
        /\ \A c \in Clients : exchange[c] = NoExchange
        /\ cache' = [k \in Kinds |-> IF Fresh(cache[k]) THEN [cache[k] EXCEPT !.fresh = @ - 1]
                                      ELSE cache[k]]
    BY DEF Pass, Tick, domain
  <1>2. ChainStep
    BY <1>1 DEF ChainStep
  <1>3. ChainInv' /\ now \in Nat /\ now' \in Nat
    BY <1>1, <1>2, ChainKeeps, Dates DEF DInv
  <1>4. ASSUME NEW k \in Kinds
        PROVE  /\ cache'[k] \in Entries \cup {None}
               /\ Kept(k, cache'[k], pub, left, announced, now + 1)
               /\ cache[k] = None => cache'[k] = None
               /\ cache[k] # None => cache'[k].response = cache[k].response
    <2> DEFINE e == cache[k]
               f == cache'[k]
    <2>1. /\ Kept(k, e, pub, left, announced, now) /\ e \in Entries \cup {None}
          /\ f = IF Fresh(e) THEN [e EXCEPT !.fresh = @ - 1] ELSE e
      BY <1>1 DEF DInv
    <2> HIDE DEF e, f
    <2>2. CASE ~Fresh(e)
      BY <2>1, <2>2 DEF Fresh, Kept, InTime, e, f
    <2>3. CASE Fresh(e)
      <3>1. /\ e # None /\ 0 < e.fresh /\ e \in Entries
            /\ e \in [response : Answers(k), fresh : 0..MaxAge]
            /\ e.response.status = 200
            /\ TrueAt(k, e.response, pub, left, announced, now + e.fresh - MaxAge)
            /\ k = "manifest" => InTime(e.response, e.fresh, now)
        BY <2>1, <2>3 DEF Fresh, Kept
      <3>2. /\ f.response = e.response /\ f.fresh = e.fresh - 1 /\ e.fresh \in Nat
            /\ f \in Entries /\ f \in [response : Answers(k), fresh : 0..MaxAge]
        BY <2>1, <2>3, <3>1, Sizes DEF Entries
      <3>3. now + 1 + f.fresh - MaxAge = now + e.fresh - MaxAge /\ now + 1 + f.fresh = now + e.fresh
        BY <1>3, <3>2, Sizes
      <3>4. TrueAt(k, f.response, pub, left, announced, now + 1 + f.fresh - MaxAge)
        BY <3>1, <3>2, <3>3
      <3>5. k = "manifest" => InTime(f.response, f.fresh, now + 1)
        BY <3>1, <3>2, <3>3 DEF InTime
      <3>6. Kept(k, f, pub, left, announced, now + 1)
        BY <3>1, <3>2, <3>4, <3>5 DEF Kept
      <3> QED
        BY <3>1, <3>2, <3>6 DEF e, f
    <2> QED
      BY <2>2, <2>3
  <1>5. /\ cache' \in [Kinds -> Entries \cup {None}]
        /\ \A k \in Kinds : Kept(k, cache'[k], pub, left, announced, now + 1)
    BY <1>1, <1>4
  <1>6. \A c \in Clients : InFlight(c, exchange'[c], pub, left, announced, now + 1)
    BY <1>1, NothingInFlight
  <1>7. Got(got, pub, left, now + 1)
    <2>1. got.status = "copy" => got.due \in Nat
      BY DEF DInv, Got, Copies
    <2> QED
      BY <1>3, <2>1, Sizes, Waits DEF DInv, Got
  <1>8. PublisherOK'
    <2>1. \A i \in DOMAIN announced : announced[i] <= now + 1
      BY <1>3, Dates DEF DInv, PublisherOK
    <2>2. \A p \in DOMAIN left : left[p] \in 0..(now + 1)
      BY <1>3 DEF DInv, PublisherOK
    <2> QED
      BY <1>1, <2>1, <2>2 DEF DInv, PublisherOK
  <1>9. OneBody'
    <2>1. \A b : Had(b)' => Had(b)
      <3>1. cache'["manifest"] # None =>
              cache["manifest"] # None /\ cache'["manifest"].response = cache["manifest"].response
        BY <1>4 DEF Kinds
      <3> QED
        BY <1>1, <3>1 DEF Had
    <2> QED
      BY <1>1, <2>1 DEF DInv, OneBody
  <1>10. Walked'
    BY <1>1 DEF Tick, Rest, Walked
  <1> QED
    BY <1>1, <1>2, <1>3, <1>5, <1>6, <1>7, <1>8, <1>9, <1>10 DEF DInv

-----------------------------------------------------------------------------
(* Every step keeps it, and what it says.                                  *)

LEMMA InitDInv == DInit => DInv
  <1> SUFFICES ASSUME DInit PROVE DInv
    OBVIOUS
  <1>1. ChainInv
    BY InitChainInv DEF DInit
  <1>2. PublisherOK
    <2>1. /\ pub = None /\ issued = 0 /\ active = pin /\ announced = <<>> /\ left = <<>>
          /\ server \in {"honest", "hostile"} /\ pin \in Keys
      BY DEF DInit, Init
    <2>2. <<>> \in Seq(0..MaxTime) /\ Len(<<>>) = 0 /\ DOMAIN <<>> = {} /\ Len(Lineage) \in Nat
      BY EmptySeq, LenProperties, DeliveryAssumption
    <2> QED
      BY <2>1, <2>2, Sizes DEF PublisherOK
  <1>3. /\ exchange \in [Clients -> Exchanges]
        /\ \A c \in Clients : InFlight(c, exchange[c], pub, left, announced, now)
    BY NothingInFlight DEF DInit, InFlight
  <1>4. /\ cache \in [Kinds -> Entries \cup {None}]
        /\ \A k \in Kinds : Kept(k, cache[k], pub, left, announced, now)
    BY DEF DInit, Kept
  <1>5. Got(got, pub, left, now)
    BY Sizes DEF DInit, NoCopy, Got, Copies
  <1>6. OneBody
    <2>1. \A b : ~Had(b)
      BY NothingInFlight DEF DInit, Had, Kinds
    <2> QED
      BY <2>1 DEF OneBody
  <1>7. Walked
    BY DEF DInit, Init, Walked
  <1> QED
    BY <1>1, <1>2, <1>3, <1>4, <1>5, <1>6, <1>7 DEF DInv

LEMMA ExchangeIsNoChainStep ==
  ASSUME Exchanging \/ Publishing
  PROVE  ChainStep
  BY DEF Exchanging, Publishing, ChainStep

LEMMA NextDInv == DInv /\ [DNext]_dvars => DInv' /\ ChainStep
  <1> SUFFICES ASSUME DInv, [DNext]_dvars PROVE DInv' /\ ChainStep
    OBVIOUS
  <1>1. CASE Issue \/ Withdraw \/ Announce \/ SwitchSigner \/ StopSigning
    <2>1. Publishing
      BY <1>1 DEF Issue, Withdraw, Announce, SwitchSigner, StopSigning
    <2> QED
      BY <1>1, <2>1, IssueKeeps, WithdrawKeeps, AnnounceKeeps, SignerKeeps, ExchangeIsNoChainStep
  <1>2. CASE \E c \in Clients : \/ Ask(c, "manifest") \/ AskIdentity(c) \/ Serve(c)
                                \/ RelayFull(c) \/ RelayUpdate(c) \/ RelayAgain(c)
    <2>1. PICK c \in Clients : \/ Ask(c, "manifest") \/ Ask(c, "identity") \/ Serve(c)
                               \/ RelayFull(c) \/ RelayUpdate(c) \/ RelayAgain(c)
      BY <1>2 DEF AskIdentity
    <2>2. Exchanging
      BY <2>1 DEF Ask, Serve, RelayFull, RelayUpdate, RelayAgain
    <2>3. "manifest" \in Kinds /\ "identity" \in Kinds
      BY DEF Kinds
    <2> QED
      BY <2>1, <2>2, <2>3, AskKeeps, ServeKeeps, RelayFullKeeps, RelayUpdateKeeps,
         RelayAgainKeeps, ExchangeIsNoChainStep
  <1>3. CASE ReceiveManifest \/ ReceiveIdentity
    BY <1>3, ReceiveManifestKeeps, ReceiveIdentityKeeps, ExchangeIsNoChainStep DEF ReceiveManifest
  <1>4. CASE Hostile \/ Walk \/ Accept \/ Refuse
    BY <1>4, WalkKeeps
  <1>5. CASE Pass
    BY <1>5, PassKeeps
  <1>6. CASE UNCHANGED dvars
    <2>1. /\ UNCHANGED vars /\ UNCHANGED <<now, pin, chain, place, out, trail, last>>
          /\ UNCHANGED <<server, pub, issued, active, announced, left, cache, exchange, got>>
      BY <1>6 DEF dvars, vars, domain, delivery
    <2>2. ChainInv' /\ ChainStep
      BY <2>1, ChainKeeps DEF DInv, ChainStep
    <2>3. OneBody' /\ PublisherOK' /\ Walked'
      BY <2>1 DEF DInv, OneBody, Had, PublisherOK, Walked
    <2> QED
      BY <2>1, <2>2, <2>3 DEF DInv
  <1> QED
    BY <1>1, <1>2, <1>3, <1>4, <1>5, <1>6 DEF DNext

LEMMA DSpecInv == DSpec => []DInv
  <1>1. DInv /\ [DNext]_dvars => DInv'
    BY NextDInv
  <1> QED
    BY <1>1, InitDInv, PTL DEF DSpec

\* The types of Delivery, for any domain, clients and cache.
THEOREM DeliveryTyped == DSpec => []DTypeOK
  <1>1. DInv => DTypeOK
    BY DEF DInv, ChainInv, PublisherOK, InFlight, Exchanges, Ats, Got, DTypeOK
  <1> QED
    BY <1>1, DSpecInv, PTL

\* rotation_verify.go, "refusing to let anything but a signature move a trust anchor":
\* for a hostile server's documents and an honest one's, however they arrive.
THEOREM DeliveredMovesAreAuthorized == DSpec => []MovesAreAuthorized
  <1>1. DInv => MovesAreAuthorized
    BY StandsAuthorized DEF DInv
  <1> QED
    BY <1>1, DSpecInv, PTL

\* rotation_verify.go, "would RESURRECT trust in a key someone announced was
\* compromised": no walk of what was delivered arrives at a withdrawn key.
THEOREM DeliveredRevocationStands == DSpec => []RevocationStands
  <1>1. DInv => RevocationStands
    BY StandsRevoked DEF DInv
  <1> QED
    BY <1>1, DSpecInv, PTL

\* rotation_verify.go, "may present the chain in any order".
THEOREM DeliveredOrderIsIgnored == DSpec => []SameUnlessForked
  <1>1. DInv => SameUnlessForked
    BY StandsTheSame DEF DInv
  <1> QED
    BY <1>1, DSpecInv, PTL

\* wellknown.go ServeHTTP, "could pair one build's body with another's signature":
\* no fetch from an honest domain returns a proof of other bytes.
THEOREM ProofsFit == DSpec => []ProofFitsBody
  <1>1. DInv => ProofFitsBody
    BY DEF DInv, Got, ProofFitsBody
  <1> QED
    BY <1>1, DSpecInv, PTL

\* wellknown.go miss, no-store: a client that hears there is no manifest asked
\* while there was none.
THEOREM AbsenceIsTrue == DSpec => []AbsentIsTrue
  <1>1. ASSUME DInv PROVE AbsentIsTrue
    <2> DEFINE x == exchange[Us]
    <2>1. InFlight(Us, x, pub, left, announced, now)
      BY <1>1, Sizes DEF DInv
    <2>2. x.at = "answered" /\ x.answer.status = 404 => x.answer = Miss
      BY <2>1 DEF InFlight, Answered
    <2> QED
      BY <2>1, <2>2 DEF InFlight, AbsentIsTrue
  <1> QED
    BY <1>1, DSpecInv, PTL

\* wellknown.go cacheSeconds: no cache answers by itself with an expired manifest.
THEOREM CachedIsValid == DSpec => []FreshIsValid
  <1>1. ASSUME DInv, Fresh(cache["manifest"]), cache["manifest"].response.status = 200
        PROVE  now < cache["manifest"].response.body.expires
    <2> DEFINE e == cache["manifest"]
    <2>1. /\ Kept("manifest", e, pub, left, announced, now) /\ e # None /\ e.fresh > 0
      BY <1>1 DEF DInv, Fresh, Kinds
    <2>2. /\ e.fresh \in 0..MaxAge /\ e.response \in ManifestAnswers
          /\ InTime(e.response, e.fresh, now)
      BY <2>1 DEF Kept, Answers
    <2>3. e.response.body.expires \in Nat
      BY <2>2 DEF ManifestAnswers, Manifests
    <2>4. now + e.fresh <= e.response.body.expires /\ now \in Nat /\ e.fresh \in Nat
      BY <1>1, <2>1, <2>2, Dates, Sizes DEF InTime
    <2> QED
      BY <2>1, <2>3, <2>4
  <1>2. DInv => FreshIsValid
    BY <1>1 DEF FreshIsValid
  <1> QED
    BY <1>2, DSpecInv, PTL

\* wellknown.go MaxCacheAge, "while keeping rotations promptly visible": a copy of
\* what is no longer published falls due for its refresh less than MaxAge +
\* LongestWait after it was replaced, for any lifetimes, any number of clients and
\* any cache that keeps to its rules, unless its manifest was published unsigned.
THEOREM ReplacedCopiesFallDue == DSpec => []ReplacedFallsDue
  <1>1. ASSUME DInv PROVE ReplacedFallsDue
    <2> DEFINE p == <<got.id, got.signer>>
               bare == <<got.id, None>>
    <2>1. SUFFICES ASSUME got.status = "copy"
                   PROVE  \/ Published(p)
                          \/ p \in DOMAIN left /\ got.due < left[p] + MaxAge + LongestWait
                          \/ Published(bare) \/ bare \in DOMAIN left
      BY DEF ReplacedFallsDue
    <2>2. Lasts(pub, left, p, got.due - LongestWait - MaxAge + 1) /\ got.due \in Nat
      BY <1>1, <2>1 DEF DInv, Got, Copies
    <2>3. p \in DOMAIN left => left[p] \in Nat
      BY <1>1, Dates
    <2>4. p[1] = got.id
      OBVIOUS
    <2> HIDE DEF p
    <2>5. ASSUME p \in DOMAIN left, got.due - LongestWait - MaxAge + 1 <= left[p]
          PROVE  got.due < left[p] + MaxAge + LongestWait
      BY <2>2, <2>3, <2>5, Sizes, Waits
    <2> QED
      BY <2>2, <2>4, <2>5 DEF Lasts, Public, Unsigned, Published
  <1> QED
    BY <1>1, DSpecInv, PTL

-----------------------------------------------------------------------------
(* An honest lineage goes one way.                                         *)

\* The key that a statement installs is that of no earlier one.
NeverReturns == \A j, k \in DOMAIN Lineage : Lineage[k].new = Lineage[j].old => k < j

Onward == server = "honest" => \A j, k \in 1..Len(trail) : j < k => trail[j] < trail[k]

\* What is walked, in terms of the lineage.
LEMMA WalkedLineage ==
  ASSUME DInv, server = "honest", place # "none"
  PROVE  \E n \in 0..Len(Lineage) :
            /\ Len(chain) = n /\ chain = SubSeq(Lineage, 1, n) /\ n \in Nat
            /\ \A i \in 1..n : chain[i] = Lineage[i] /\ i \in DOMAIN Lineage
            /\ Heard(announced, n, now - MaxAge + 1)
  <1>1. PICK n \in 0..Len(Lineage) :
            chain = SubSeq(Lineage, 1, n) /\ Heard(announced, n, now - MaxAge + 1)
    BY DEF DInv, Walked
  <1>2. Len(Lineage) \in Nat /\ DOMAIN Lineage = 1..Len(Lineage)
    BY LenProperties, DeliveryAssumption
  <1> QED
    BY <1>1, <1>2, HistoryOfLineage

LEMMA FollowsOnward ==
  ASSUME NeverReturns, DInv, Onward, Follow, server' = server
  PROVE  Onward'
  <1> SUFFICES ASSUME server = "honest"
               PROVE  \A j, k \in 1..Len(trail') : j < k => trail'[j] < trail'[k]
    BY DEF Onward
  <1> DEFINE i == First(Candidates(out))
             m == Len(trail)
  <1>1. TypeOK /\ place = "walking" /\ Stands(pin, now, chain, trail, place, out)
    BY DEF DInv, ChainInv, Follow, Walking
  <1>2. i \in Open(now, chain, trail, out) /\ trail' = Append(trail, i)
    BY <1>1, CandidatesAreOpen DEF Follow, Apply
  <1> HIDE DEF i
  <1>3. /\ i \in 1..Len(chain) /\ i \notin Passed(trail) /\ chain[i].old = out
        /\ Len(chain) \in Nat /\ trail \in Seq(1..Len(chain)) /\ Injective(trail)
        /\ trail \in [1..m -> 1..Len(chain)] /\ m \in Nat
    BY <1>1, <1>2, LenProperties DEF Open, Stands, TypeOK
  <1>4. /\ Len(trail') = m + 1 /\ trail'[m + 1] = i
        /\ \A k \in 1..m : trail'[k] = trail[k]
    BY <1>2, <1>3, AppendTrail
  <1>5. m # 0 => trail[m] < i
    <2>1. SUFFICES ASSUME m # 0 PROVE trail[m] < i
      OBVIOUS
    <2>2. trail[m] \in 1..Len(chain)
      BY <1>3, <2>1
    <2>3. chain[trail[m]].new = out
      BY <1>1, <2>1 DEF Stands, Ends, KeyAfter
    <2>4. \A k \in 1..Len(chain) : chain[k] = Lineage[k] /\ k \in DOMAIN Lineage
      BY <1>1, WalkedLineage
    <2> QED
      BY <1>3, <2>2, <2>3, <2>4 DEF NeverReturns
  <1>6. \A k \in 1..m : trail[k] < i
    <2>1. ASSUME NEW k \in 1..m PROVE trail[k] < i
      <3>1. m \in 1..m /\ trail[m] \in Nat /\ trail[k] \in Nat /\ i \in Nat /\ m # 0
        BY <1>3
      <3>2. k < m => trail[k] < trail[m]
        BY <3>1 DEF Onward
      <3> QED
        BY <1>5, <3>1, <3>2
    <2> QED
      BY <2>1
  <1>7. \A j, k \in 1..m : j < k => trail[j] < trail[k]
    BY DEF Onward
  <1>8. ASSUME NEW j \in 1..(m + 1), NEW k \in 1..(m + 1), j < k
        PROVE  trail'[j] < trail'[k]
    <2> HIDE DEF m
    <2>m. m \in Nat
      BY <1>3
    <2>1. j \in 1..m /\ (k \in 1..m \/ k = m + 1)
      BY <2>m, <1>8
    <2> QED
      BY <1>4, <1>6, <1>7, <1>8, <2>1
  <1> QED
    BY <1>4, <1>8

LEMMA NextOnward ==
  ASSUME NeverReturns, DInv, Onward, [DNext]_dvars
  PROVE  Onward'
  <1>1. ChainStep /\ server' = server
    <2>1. server' = server
      BY DEF DNext, Issue, Withdraw, Announce, SwitchSigner, StopSigning, Publishing, Ask,
             AskIdentity, Serve, RelayFull, RelayUpdate, RelayAgain, ReceiveManifest,
             Exchanging, ReceiveIdentity, Hostile, Walk, Accept, Refuse, Pass, domain, dvars
    <2> QED
      BY <2>1, NextDInv
  <1>2. trail' \in {trail, <<>>} \/ Follow
    BY <1>1 DEF ChainStep, Begin, Present, Break, Arrive, Adopt, Again, Tick, Rest, vars
  <1>3. CASE trail' \in {trail, <<>>}
    <2>1. Len(<<>>) = 0
      BY EmptySeq
    <2> QED
      BY <1>1, <1>3, <2>1 DEF Onward
  <1> QED
    BY <1>1, <1>2, <1>3, FollowsOnward

LEMMA OnwardFollows ==
  ASSUME NeverReturns, DInv, Onward
  PROVE  AnnouncedIsFollowed
  <1> SUFFICES ASSUME server = "honest", place = "arrived", NEW i \in DOMAIN announced,
                      announced[i] + MaxAge <= now,
                      \A j \in 1..i : Effective(Lineage[j], now),
                      NEW j \in 1..i, out = Lineage[j].old
               PROVE  FALSE
    BY DEF AnnouncedIsFollowed
  <1> DEFINE m == Len(trail)
  <1>1. PICK n \in 0..Len(Lineage) :
            /\ Len(chain) = n /\ n \in Nat
            /\ \A k \in 1..n : chain[k] = Lineage[k] /\ k \in DOMAIN Lineage
            /\ Heard(announced, n, now - MaxAge + 1)
    BY WalkedLineage
  <1>2. i \in Nat /\ DOMAIN announced = 1..Len(announced) /\ announced[i] \in Nat
    BY LenProperties, Dates DEF DInv, PublisherOK
  <1>3. ~(now - MaxAge + 1 <= announced[i])
    BY <1>2, Dates, Sizes
  <1>4. i <= n
    BY <1>1, <1>2, <1>3 DEF Heard
  <1>5. j \in 1..n
    BY <1>1, <1>2, <1>4
  <1>6. Stands(pin, now, chain, trail, "arrived", out)
    BY DEF DInv, ChainInv
  <1>7. j \in Passed(trail)
    BY <1>1, <1>5, <1>6 DEF Stands, Ends, Open
  <1>8. m \in Nat /\ trail \in [1..m -> 1..n]
    BY <1>1, <1>6, LenProperties DEF Stands
  <1>9. PICK k \in 1..m : trail[k] = j
    BY <1>7 DEF Passed
  <1>10. m \in 1..m /\ m # 0 /\ trail[m] \in 1..n
    BY <1>8, <1>9
  <1>11. chain[trail[m]].new = Lineage[j].old
    BY <1>6, <1>10 DEF Stands, Ends, KeyAfter
  <1>12. trail[m] < j
    BY <1>1, <1>5, <1>10, <1>11 DEF NeverReturns
  <1>13. k < m => trail[k] < trail[m]
    BY <1>9, <1>10 DEF Onward
  <1> QED
    BY <1>5, <1>8, <1>9, <1>10, <1>12, <1>13

\* wellknown.go serveIdentity, "the rotation chain a pinned correspondent walks": a
\* statement announced MaxAge ago and in effect has reached every walk, for a domain
\* that never returns to a key it has left.
THEOREM AnnouncementsAreFollowed ==
  ASSUME NeverReturns
  PROVE  DSpec => []AnnouncedIsFollowed
  <1>1. DInit => Onward
    <2>1. Len(<<>>) = 0
      BY EmptySeq
    <2> QED
      BY <2>1 DEF DInit, Init, Onward
  <1>2. DInv /\ Onward /\ [DNext]_dvars => Onward'
    BY NextOnward
  <1>3. DInv /\ Onward => AnnouncedIsFollowed
    BY OnwardFollows
  <1> QED
    BY <1>1, <1>2, <1>3, DSpecInv, PTL DEF DSpec

=============================================================================
