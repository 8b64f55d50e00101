------------------------ MODULE IdentityChainProofs --------------------------
(***************************************************************************)
(* What a walk has established, whatever it is presented with, and that a  *)
(* second walk over the same statements establishes the same.              *)
(*                                                                         *)
(* Everything rests on one description of a walk, Stands: how far the      *)
(* trail leads from the pin, and what its end says of the statements it    *)
(* left.  It is kept by each step, it is what the safety properties say of *)
(* a finished walk, and it does not depend on the order of the chain: a    *)
(* walk that ended can be replayed in any other order of the statements,   *)
(* and where no key has two of them in effect it is the only one.          *)
(***************************************************************************)
EXTENDS IdentityChain, SequenceTheorems, FiniteSetTheorems, WellFoundedInduction, TLAPS

Passed(t) == {t[k] : k \in 1..Len(t)}

\* The key that the first k statements of the trail t establish.
KeyAfter(from, c, t, k) == IF k = 0 THEN from ELSE c[t[k]].new

\* What a walk at this key could still apply.
Open(time, c, t, key) ==
    {i \in 1..Len(c) : i \notin Passed(t) /\ c[i].old = key /\ Effective(c[i], time)}

\* Each statement applied was in effect, authorized by the key before it, and only
\* the last of a walk that was revoked withdraws a key.
Leads(from, time, c, t, p) ==
    \A k \in 1..Len(t) :
        /\ c[t[k]].old = KeyAfter(from, c, t, k - 1)
        /\ Effective(c[t[k]], time) /\ VerifyStatement(c[t[k]], c[t[k]].old)
        /\ Withdraws(c[t[k]]) => k = Len(t) /\ p = "revoked"

\* What the place says of where the trail ends.
Ends(from, time, c, t, p, key) ==
    /\ p \in {"walking", "arrived", "broken"} => key = KeyAfter(from, c, t, Len(t))
    /\ p = "arrived" => Open(time, c, t, key) = {}
    /\ p = "broken" => \E i \in Open(time, c, t, key) : ~VerifyStatement(c[i], key)
    /\ p = "revoked" => /\ t # <<>> /\ Withdraws(c[t[Len(t)]])
                        /\ key = c[t[Len(t)]].old
    /\ p \in {"none", "too-long"} => t = <<>> /\ key = from
    /\ p # "none" => (p = "too-long" <=> Len(c) > MaxChainEntries)

Stands(from, time, c, t, p, key) ==
    /\ t \in Seq(1..Len(c)) /\ Injective(t)
    /\ Leads(from, time, c, t, p)
    /\ Ends(from, time, c, t, p, key)

IsForked(time, c) ==
    \E i, j \in DOMAIN c :
        i # j /\ c[i].old = c[j].old /\ Effective(c[i], time) /\ Effective(c[j], time)

Begins(t, u) == Len(t) <= Len(u) /\ \A k \in 1..Len(t) : t[k] = u[k]

\* The walk before this one, in the present order of the chain: where nothing is
\* forked, the present one is a part of it.
Replayed ==
    last # None =>
        /\ "none" \notin {place, last.place}
        /\ \E u : /\ Stands(pin, now, chain, u, last.place, last.out)
                  /\ IsForked(now, chain) \/ Begins(trail, u)

ChainInv ==
    /\ TypeOK
    /\ Stands(pin, now, chain, trail, place, out)
    /\ Replayed

\* A step of the walk, from any document of statements.
ChainStep ==
    \/ \E c \in Seq(Statements) : Begin(c)
    \/ Follow \/ Break \/ Arrive
    \/ Adopt
    \/ \E o \in Orders : Again(o)
    \/ Tick
    \/ Rest /\ UNCHANGED <<now, pin>>
    \/ UNCHANGED vars

-----------------------------------------------------------------------------
(* Trails.                                                                 *)

\* A trail as long as the chain has used all of it.
LEMMA LongTrailIsFull ==
  ASSUME NEW n \in Nat, NEW t \in Seq(1..n), Injective(t), ~(Len(t) < n)
  PROVE  Passed(t) = 1..n
  <1>1. t \in [1..Len(t) -> 1..n] /\ Len(t) \in Nat
    BY LenProperties
  <1>2. t \in Injection(1..Len(t), 1..n)
    BY <1>1 DEF Injective, Injection, IsInjective
  <1>3. IsFiniteSet(1..n) /\ Cardinality(1..n) = n /\ Cardinality(1..Len(t)) = Len(t)
    <2>1. ASSUME NEW m \in Nat
          PROVE  IsFiniteSet(1..m) /\ Cardinality(1..m) = m
      <3>1. /\ IsFiniteSet(1..m)
            /\ Cardinality(1..m) = IF 1 > m THEN 0 ELSE m - 1 + 1
        BY FS_Interval
      <3> QED
        BY <3>1
    <2> QED
      BY <1>1, <2>1
  <1>4. /\ Cardinality(1..Len(t)) <= Cardinality(1..n)
        /\ Cardinality(1..Len(t)) = Cardinality(1..n) => t \in Surjection(1..Len(t), 1..n)
    BY <1>2, <1>3, FS_Injection
  <1>5. t \in Surjection(1..Len(t), 1..n)
    <2> DEFINE m == Len(t)
    <2>1. m \in Nat /\ ~(m < n)
      BY <1>1
    <2>2. m <= n
      BY <1>3, <1>4
    <2> HIDE DEF m
    <2>3. m = n
      BY <2>1, <2>2
    <2> QED
      BY <1>3, <1>4, <2>3 DEF m
  <1> QED
    BY <1>1, <1>5 DEF Surjection, Passed

\* A step further.
LEMMA AppendTrail ==
  ASSUME NEW n \in Nat, NEW t \in Seq(1..n), Injective(t), NEW i \in 1..n, i \notin Passed(t)
  PROVE  /\ Append(t, i) \in Seq(1..n) /\ Injective(Append(t, i))
         /\ Len(Append(t, i)) = Len(t) + 1 /\ Len(t) \in Nat
         /\ \A k \in 1..Len(t) : Append(t, i)[k] = t[k]
         /\ Append(t, i)[Len(t) + 1] = i
         /\ Append(t, i) # <<>>
  <1>1. DOMAIN t = 1..Len(t) /\ Len(t) \in Nat
    BY LenProperties
  <1> DEFINE u == Append(t, i)
  <1>2. /\ u \in Seq(1..n) /\ Len(u) = Len(t) + 1
        /\ \A k \in 1..Len(t) : u[k] = t[k]
        /\ u[Len(t) + 1] = i
    BY <1>1
  <1>3. DOMAIN u = 1..(Len(t) + 1)
    BY <1>2, LenProperties
  <1> HIDE DEF u
  <1>4. Injective(u)
    <2>1. ASSUME NEW j \in 1..(Len(t) + 1), NEW k \in 1..(Len(t) + 1), u[j] = u[k]
          PROVE  j = k
      <3>1. (j \in 1..Len(t) \/ j = Len(t) + 1) /\ (k \in 1..Len(t) \/ k = Len(t) + 1)
        BY <1>1
      <3>2. \A l \in 1..Len(t) : u[l] = t[l] /\ t[l] # i
        BY <1>2 DEF Passed
      <3>3. \A x, y \in 1..Len(t) : t[x] = t[y] => x = y
        BY <1>1 DEF Injective
      <3> QED
        BY <1>2, <2>1, <3>1, <3>2, <3>3
    <2> QED
      BY <1>3, <2>1 DEF Injective
  <1>5. u # <<>>
    BY <1>1, <1>2, EmptySeq
  <1> QED
    BY <1>1, <1>2, <1>4, <1>5 DEF u

\* The first of some indices is one of them.
LEMMA FirstIsOne ==
  ASSUME NEW n \in Nat, NEW I \in SUBSET (1..n), I # {}
  PROVE  First(I) \in I
  <1> DEFINE R == OpToRel(<, Nat)
  <1>1. IsWellFoundedOn(R, Nat)
    BY NatLessThanWellFounded
  <1>2. I \subseteq Nat
    OBVIOUS
  <1> HIDE DEF R
  <1>3. PICK i \in I : \A j \in I : <<j, i>> \notin R
    BY <1>1, <1>2, WFMin
  <1>4. \A j \in I : j < i => <<j, i>> \in R
    BY <1>2, <1>3 DEF R, OpToRel
  <1>5. \A j \in I : j \in Nat /\ i \in Nat /\ ~(j < i)
    BY <1>2, <1>3, <1>4
  <1>6. \A j \in I : i <= j
    BY <1>5
  <1> QED
    BY <1>6 DEF First

-----------------------------------------------------------------------------
(* A walk, one statement at a time.                                        *)

\* VerifyStatement names a successor unless it withdraws.
LEMMA SuccessorIsKey ==
  ASSUME NEW s \in Statements, NEW key, VerifyStatement(s, key), ~Withdraws(s)
  PROVE  s.new \in Keys
  BY ChainAssumption DEF VerifyStatement, Withdraws, Statement

\* Where the walk leads after the statement it applies.
LEMMA FollowStands ==
  ASSUME NEW from, NEW time, NEW c \in Seq(Statements), NEW t, NEW key,
         Stands(from, time, c, t, "walking", key),
         NEW i \in Open(time, c, t, key), VerifyStatement(c[i], key),
         NEW p, p = (IF Withdraws(c[i]) THEN "revoked" ELSE "walking"),
         NEW k2, k2 = (IF Withdraws(c[i]) THEN key ELSE c[i].new)
  PROVE  Stands(from, time, c, Append(t, i), p, k2)
  <1> DEFINE u == Append(t, i)
             n == Len(c)
             m == Len(t)
  <1>1. n \in Nat /\ t \in Seq(1..n) /\ Injective(t) /\ i \in 1..n /\ i \notin Passed(t)
    BY LenProperties DEF Stands, Open
  <1>2. /\ u \in Seq(1..n) /\ Injective(u) /\ Len(u) = m + 1 /\ m \in Nat
        /\ \A k \in 1..m : u[k] = t[k]
        /\ u[m + 1] = i /\ u # <<>>
    BY <1>1, AppendTrail
  <1>3. c[i].old = key /\ Effective(c[i], time) /\ key = KeyAfter(from, c, t, m)
    BY DEF Open, Stands, Ends
  <1>4. /\ Leads(from, time, c, t, "walking") /\ n <= MaxChainEntries
        /\ MaxChainEntries \in Nat
    BY <1>1, ChainAssumption DEF Stands, Ends
  <1> HIDE DEF u
  <1>5. \A k \in 0..m : KeyAfter(from, c, u, k) = KeyAfter(from, c, t, k)
    BY <1>2 DEF KeyAfter
  <1>6. Leads(from, time, c, u, p)
    <2>1. ASSUME NEW k \in 1..m
          PROVE  /\ c[u[k]].old = KeyAfter(from, c, u, k - 1)
                 /\ Effective(c[u[k]], time) /\ VerifyStatement(c[u[k]], c[u[k]].old)
                 /\ ~Withdraws(c[u[k]])
      <3>1. u[k] = t[k] /\ KeyAfter(from, c, u, k - 1) = KeyAfter(from, c, t, k - 1)
        BY <1>2, <1>5
      <3> QED
        BY <1>4, <3>1 DEF Leads
    <2>2. /\ c[u[m + 1]].old = KeyAfter(from, c, u, m)
          /\ Effective(c[u[m + 1]], time) /\ VerifyStatement(c[u[m + 1]], c[u[m + 1]].old)
          /\ Withdraws(c[u[m + 1]]) => p = "revoked"
      BY <1>2, <1>3, <1>5
    <2>3. \A k \in 1..(m + 1) : k \in 1..m \/ (k = m + 1 /\ k - 1 = m)
      BY <1>2
    <2> QED
      BY <1>2, <2>1, <2>2, <2>3 DEF Leads
  <1>7. Ends(from, time, c, u, p, k2)
    <2>1. ~Withdraws(c[i]) => k2 = KeyAfter(from, c, u, m + 1)
      BY <1>2 DEF KeyAfter
    <2> QED
      BY <1>2, <1>3, <1>4, <2>1 DEF Ends
  <1> QED
    BY <1>2, <1>6, <1>7 DEF Stands, u

\* The candidates of the step are what is open.
LEMMA CandidatesAreOpen ==
  ASSUME TypeOK
  PROVE  /\ Candidates(out) = Open(now, chain, trail, out)
         /\ Candidates(out) # {} => First(Candidates(out)) \in Open(now, chain, trail, out)
  <1>1. Candidates(out) = Open(now, chain, trail, out)
    BY DEF Candidates, Open, Used, Passed
  <1>2. Len(chain) \in Nat /\ Candidates(out) \in SUBSET (1..Len(chain))
    BY LenProperties DEF TypeOK, Candidates
  <1> QED
    BY <1>1, <1>2, FirstIsOne

\* Where a walk that takes no further statement ends, as the code decides it.
LEMMA ArriveStands ==
  ASSUME NEW from, NEW time, NEW c \in Seq(Statements), NEW t, NEW key,
         Stands(from, time, c, t, "walking", key),
         Len(t) < Len(c) => Open(time, c, t, key) = {}
  PROVE  Stands(from, time, c, t, "arrived", key)
  <1>1. Len(c) \in Nat /\ t \in Seq(1..Len(c)) /\ Injective(t)
    BY LenProperties DEF Stands
  <1>2. Open(time, c, t, key) = {}
    <2>1. CASE ~(Len(t) < Len(c))
      BY <1>1, <2>1, LongTrailIsFull DEF Open
    <2> QED
      BY <2>1
  <1>3. Leads(from, time, c, t, "arrived")
    BY DEF Stands, Leads
  <1> QED
    BY <1>1, <1>2, <1>3 DEF Stands, Ends

LEMMA BreakStands ==
  ASSUME NEW from, NEW time, NEW c, NEW t, NEW key,
         Stands(from, time, c, t, "walking", key),
         NEW i \in Open(time, c, t, key), ~VerifyStatement(c[i], key)
  PROVE  Stands(from, time, c, t, "broken", key)
  BY DEF Stands, Leads, Ends

\* A document that has just been presented, and none.
LEMMA PresentStands ==
  ASSUME NEW from, NEW time, NEW c, NEW p, p \in {"none", "walking", "too-long"},
         p # "none" => p = (IF Len(c) > MaxChainEntries THEN "too-long" ELSE "walking")
  PROVE  Stands(from, time, c, <<>>, p, from)
  <1>1. <<>> \in Seq(1..Len(c)) /\ Len(<<>>) = 0
    BY EmptySeq
  <1>2. Injective(<<>>)
    BY DEF Injective
  <1>3. Leads(from, time, c, <<>>, p)
    BY <1>1 DEF Leads
  <1>4. Ends(from, time, c, <<>>, p, from)
    BY <1>1 DEF Ends, KeyAfter
  <1> QED
    BY <1>1, <1>2, <1>3, <1>4 DEF Stands

-----------------------------------------------------------------------------
(* The same statements in another order.                                   *)

\* A reordering has an inverse.
LEMMA OrderIsReversible ==
  ASSUME NEW n \in Nat, NEW o \in [1..n -> 1..n], Injective(o)
  PROVE  \E r \in [1..n -> 1..n] :
            \A i \in 1..n : o[r[i]] = i /\ r[o[i]] = i
  <1>1. o \in Injection(1..n, 1..n)
    BY DEF Injective, Injection, IsInjective
  <1>2. IsFiniteSet(1..n)
    BY FS_Interval
  <1>3. o \in Surjection(1..n, 1..n)
    BY <1>1, <1>2, FS_Injection
  <1>4. \A i \in 1..n : \E j \in 1..n : o[j] = i
    BY <1>3 DEF Surjection
  <1> DEFINE r == [i \in 1..n |-> CHOOSE j \in 1..n : o[j] = i]
  <1>5. r \in [1..n -> 1..n] /\ \A i \in 1..n : o[r[i]] = i
    BY <1>4
  <1>6. \A i \in 1..n : r[o[i]] = i
    BY <1>5 DEF Injective
  <1> QED
    BY <1>5, <1>6

\* The walk that ended, in the order presented next.
LEMMA ReplayStands ==
  ASSUME NEW from, NEW time, NEW c \in Seq(Statements), NEW t, NEW p, NEW key,
         Stands(from, time, c, t, p, key),
         NEW o \in [1..Len(c) -> 1..Len(c)], Injective(o),
         NEW d, d = [i \in 1..Len(c) |-> c[o[i]]]
  PROVE  \E u : Stands(from, time, d, u, p, key)
  <1> DEFINE n == Len(c)
             m == Len(t)
  <1>1. /\ n \in Nat /\ c \in [1..n -> Statements]
        /\ t \in Seq(1..n) /\ Injective(t)
        /\ m \in Nat /\ t \in [1..m -> 1..n] /\ DOMAIN t = 1..m
    BY LenProperties DEF Stands
  <1>2. PICK r \in [1..n -> 1..n] : \A i \in 1..n : o[r[i]] = i /\ r[o[i]] = i
    BY <1>1, OrderIsReversible
  <1>3. d \in Seq(Statements) /\ Len(d) = n /\ \A i \in 1..n : d[i] = c[o[i]]
    <2>1. d \in [1..n -> Statements]
      BY <1>1
    <2>2. d \in Seq(Statements)
      BY <1>1, <2>1, SeqDef
    <2> QED
      BY <1>1, <2>1, <2>2, LenProperties
  <1> DEFINE u == [k \in 1..m |-> r[t[k]]]
  <1>4. u \in Seq(1..n) /\ Len(u) = m /\ Injective(u)
    <2>1. u \in [1..m -> 1..n]
      BY <1>1, <1>2
    <2>2. u \in Seq(1..n)
      BY <1>1, <2>1, SeqDef
    <2>3. ASSUME NEW j \in 1..m, NEW k \in 1..m, u[j] = u[k]
          PROVE  j = k
      <3>1. r[t[j]] = r[t[k]] /\ t[j] \in 1..n /\ t[k] \in 1..n
        BY <1>1, <2>3
      <3>2. t[j] = t[k]
        BY <1>2, <3>1
      <3> QED
        BY <1>1, <3>2 DEF Injective
    <2>4. Injective(u)
      BY <2>1, <2>3 DEF Injective
    <2> QED
      BY <1>1, <2>1, <2>2, <2>4, LenProperties
  <1>5. \A k \in 1..m : u[k] \in 1..n /\ d[u[k]] = c[t[k]]
    BY <1>1, <1>2, <1>3
  <1>6. \A i \in 1..n : o[i] \in Passed(t) <=> i \in Passed(u)
    <2>1. \A i \in 1..n, k \in 1..m : o[i] = t[k] <=> i = u[k]
      BY <1>1, <1>2
    <2> QED
      BY <1>4, <2>1 DEF Passed
  <1> HIDE DEF u
  <1>7. \A k \in 0..m : KeyAfter(from, d, u, k) = KeyAfter(from, c, t, k)
    <2>1. \A k \in 0..m : k = 0 \/ k \in 1..m
      BY <1>1
    <2> QED
      BY <1>5, <2>1 DEF KeyAfter
  <1>8. Open(time, d, u, key) = {i \in 1..n : o[i] \in Open(time, c, t, key)}
    BY <1>3, <1>6 DEF Open
  <1>9. Leads(from, time, d, u, p)
    <2>1. \A k \in 1..m : k - 1 \in 0..m
      BY <1>1
    <2>2. Leads(from, time, c, t, p)
      BY DEF Stands
    <2> QED
      BY <1>4, <1>5, <1>7, <2>1, <2>2 DEF Leads
  <1>10. Ends(from, time, d, u, p, key)
    <2>1. Ends(from, time, c, t, p, key)
      BY DEF Stands
    <2>2. KeyAfter(from, d, u, Len(u)) = KeyAfter(from, c, t, Len(t))
      <3>1. m \in 0..m
        BY <1>1
      <3> QED
        BY <1>4, <1>7, <3>1
    <2>3. p = "arrived" => Open(time, d, u, key) = {}
      BY <1>8, <2>1 DEF Ends
    <2>4. p = "broken" => \E i \in Open(time, d, u, key) : ~VerifyStatement(d[i], key)
      <3>1. SUFFICES ASSUME NEW i \in Open(time, c, t, key), ~VerifyStatement(c[i], key)
                     PROVE  \E j \in Open(time, d, u, key) : ~VerifyStatement(d[j], key)
        BY <2>1 DEF Ends
      <3>2. i \in 1..n
        BY DEF Open
      <3>3. r[i] \in 1..n /\ o[r[i]] = i /\ d[r[i]] = c[i]
        BY <1>2, <1>3, <3>2
      <3> QED
        BY <1>8, <3>1, <3>3
    <2>5. t = <<>> <=> u = <<>>
      BY <1>1, <1>4, EmptySeq
    <2>6. p = "revoked" => d[u[Len(u)]] = c[t[Len(t)]]
      <3>1. p = "revoked" => Len(t) \in 1..m
        BY <1>1, <2>1, EmptySeq DEF Ends
      <3> QED
        BY <1>4, <1>5, <3>1
    <2> QED
      BY <1>3, <2>1, <2>2, <2>3, <2>4, <2>5, <2>6 DEF Ends
  <1> QED
    BY <1>3, <1>4, <1>9, <1>10 DEF Stands

-----------------------------------------------------------------------------
(* Where nothing is forked there is one walk.                              *)

\* At most one statement in effect descends from a key.
LEMMA OneInEffect ==
  ASSUME NEW time, NEW c \in Seq(Statements), ~IsForked(time, c),
         NEW i \in 1..Len(c), NEW j \in 1..Len(c), c[i].old = c[j].old,
         Effective(c[i], time), Effective(c[j], time)
  PROVE  i = j
  <1>1. DOMAIN c = 1..Len(c)
    BY LenProperties
  <1> QED
    BY <1>1 DEF IsForked

\* The walk goes on where the finished one went on.
LEMMA GoesOn ==
  ASSUME NEW from, NEW time, NEW c \in Seq(Statements), ~IsForked(time, c),
         NEW t, NEW key, Stands(from, time, c, t, "walking", key),
         NEW u, NEW p, NEW end, Stands(from, time, c, u, p, end),
         p \in Ended \ {"none"}, Begins(t, u)
  PROVE  /\ \A i \in Open(time, c, t, key) : VerifyStatement(c[i], key) => Begins(Append(t, i), u)
         /\ (Open(time, c, t, key) = {} => p = "arrived" /\ end = key)
         /\ \A i \in Open(time, c, t, key) : ~VerifyStatement(c[i], key) => p = "broken" /\ end = key
  <1> DEFINE n == Len(c)
             m == Len(t)
  <1>1. /\ n \in Nat /\ t \in Seq(1..n) /\ Injective(t) /\ m \in Nat
        /\ u \in Seq(1..n) /\ Injective(u) /\ Len(u) \in Nat
        /\ DOMAIN u = 1..Len(u)
        /\ m <= Len(u) /\ \A k \in 1..m : t[k] = u[k]
    BY LenProperties DEF Stands, Begins
  <1>2. key = KeyAfter(from, c, t, m) /\ \A k \in 1..m : ~Withdraws(c[t[k]])
    BY DEF Stands, Ends, Leads
  <1>3. KeyAfter(from, c, u, m) = key
    <2>1. m # 0 => m \in 1..m /\ t[m] = u[m]
      BY <1>1
    <2> HIDE DEF m
    <2> QED
      BY <1>2, <2>1 DEF KeyAfter
  <1>4. n <= MaxChainEntries /\ MaxChainEntries \in Nat
    BY <1>1, ChainAssumption DEF Stands, Ends
  <1>5. CASE m = Len(u)
    <2>1. t = u
      BY <1>1, <1>5, SeqEqual
    <2>2. p \in {"arrived", "broken"} /\ end = key
      <3>1. p # "too-long"
        BY <1>1, <1>4 DEF Stands, Ends
      <3>2. p # "revoked"
        <4>1. u # <<>> => Len(u) \in 1..m
          BY <1>1, <1>5, EmptySeq
        <4> QED
          BY <1>2, <2>1, <4>1 DEF Stands, Ends
      <3>3. p \in {"arrived", "broken"}
        BY <3>1, <3>2 DEF Ended
      <3> QED
        BY <1>3, <1>5, <3>3 DEF Stands, Ends
    <2>3. p = "arrived" => Open(time, c, t, key) = {}
      BY <2>1, <2>2 DEF Stands, Ends
    <2>4. p = "broken" => \E i \in Open(time, c, t, key) : ~VerifyStatement(c[i], key)
      BY <2>1, <2>2 DEF Stands, Ends
    <2>5. \A i, j \in Open(time, c, t, key) : i = j
      BY OneInEffect DEF Open
    <2> QED
      BY <2>2, <2>3, <2>4, <2>5
  <1>6. CASE m < Len(u)
    <2> DEFINE next == u[m + 1]
    <2>1. m + 1 \in 1..Len(u) /\ next \in 1..n
      BY <1>1, <1>6, LenProperties
    <2>2. c[next].old = key /\ Effective(c[next], time) /\ VerifyStatement(c[next], key)
      <3>1. m + 1 - 1 = m
        BY <1>1
      <3> QED
        BY <1>3, <2>1, <3>1 DEF Stands, Leads
    <2>3. next \notin Passed(t)
      <3>1. \A k \in 1..m : k \in 1..Len(u) /\ k # m + 1 /\ t[k] = u[k]
        BY <1>1, <1>6
      <3> QED
        BY <1>1, <2>1, <3>1 DEF Passed, Injective
    <2>4. next \in Open(time, c, t, key) /\ \A i \in Open(time, c, t, key) : i = next
      BY <2>1, <2>2, <2>3, OneInEffect DEF Open
    <2>5. Begins(Append(t, next), u)
      <3>1. /\ Len(Append(t, next)) = m + 1
            /\ \A k \in 1..m : Append(t, next)[k] = t[k]
            /\ Append(t, next)[m + 1] = next
        BY <1>1, <2>1, <2>3, AppendTrail
      <3> QED
        BY <1>1, <2>1, <3>1 DEF Begins
    <2> QED
      BY <2>2, <2>4, <2>5
  <1> QED
    BY <1>1, <1>5, <1>6

\* Two walks of which one is a part of the other, and both ended: they are one.
LEMMA OneEnd ==
  ASSUME NEW from, NEW time, NEW c \in Seq(Statements), ~IsForked(time, c),
         NEW t, NEW q, NEW key, Stands(from, time, c, t, q, key),
         NEW u, NEW p, NEW end, Stands(from, time, c, u, p, end),
         p \in Ended \ {"none"}, q \in Ended \ {"none"}, Begins(t, u)
  PROVE  p = q /\ end = key
  <1> DEFINE n == Len(c)
  <1>1. /\ n \in Nat /\ t \in Seq(1..n) /\ Injective(t) /\ Len(t) \in Nat
        /\ u \in Seq(1..n) /\ Len(u) \in Nat
        /\ Len(t) <= Len(u) /\ \A k \in 1..Len(t) : t[k] = u[k]
    BY LenProperties DEF Stands, Begins
  <1>2. CASE q = "too-long" \/ p = "too-long"
    BY <1>2 DEF Stands, Ends
  <1>3. CASE q = "revoked" /\ p # "too-long"
    <2>1. Len(t) \in 1..Len(t) /\ Len(t) \in 1..Len(u) /\ Withdraws(c[t[Len(t)]])
      BY <1>1, <1>3, EmptySeq DEF Stands, Ends
    <2>2. u[Len(t)] = t[Len(t)]
      BY <1>1, <2>1
    <2>3. Len(t) = Len(u) /\ p = "revoked"
      BY <2>1, <2>2 DEF Stands, Leads
    <2> QED
      BY <1>3, <2>2, <2>3 DEF Stands, Ends
  <1>4. CASE q \in {"arrived", "broken"} /\ p # "too-long"
    <2>1. Stands(from, time, c, t, "walking", key)
      BY <1>4 DEF Stands, Leads, Ends
    <2>2. q = "arrived" => Open(time, c, t, key) = {}
      BY <1>4 DEF Stands, Ends
    <2>3. q = "broken" => \E i \in Open(time, c, t, key) : ~VerifyStatement(c[i], key)
      BY <1>4 DEF Stands, Ends
    <2> QED
      BY <1>4, <2>1, <2>2, <2>3, GoesOn
  <1> QED
    BY <1>2, <1>3, <1>4 DEF Ended

\* The invariant of the next state, in terms of its variables.
LEMMA ReplayedNext ==
  ASSUME last' # None =>
            /\ "none" \notin {place', last'.place}
            /\ \E u : /\ Stands(pin', now', chain', u, last'.place, last'.out)
                      /\ IsForked(now', chain') \/ Begins(trail', u)
  PROVE  Replayed'
  BY DEF Replayed

LEMMA InitChainInv == Init => ChainInv
  <1> SUFFICES ASSUME Init PROVE ChainInv
    OBVIOUS
  <1>1. <<>> \in Seq(Statements) /\ <<>> \in Seq(DOMAIN chain)
    BY EmptySeq
  <1>2. TypeOK
    BY <1>1, ChainAssumption DEF Init, TypeOK, Ended, Injective
  <1>3. Stands(pin, now, chain, trail, place, out)
    BY PresentStands DEF Init
  <1> QED
    BY <1>2, <1>3 DEF ChainInv, Replayed, Init

\* Nothing is walked, and nothing was.
LEMMA RestKeeps ==
  ASSUME Rest, pin' \in Keys, now' \in 0..MaxTime
  PROVE  ChainInv'
  <1>1. <<>> \in Seq(Statements) /\ <<>> \in Seq(DOMAIN <<>>)
    BY EmptySeq
  <1>2. TypeOK'
    BY <1>1 DEF Rest, TypeOK, Ended, Injective
  <1>3. Stands(pin', now', chain', trail', place', out')
    BY PresentStands DEF Rest
  <1> QED
    BY <1>2, <1>3, ReplayedNext DEF ChainInv, Rest

\* Any document of statements may be presented.
LEMMA PresentKeeps ==
  ASSUME ChainInv, NEW c \in Seq(Statements), Present(c)
  PROVE  /\ TypeOK' <=> last' \in [place : Ended, out : Keys] \cup {None}
         /\ Stands(pin', now', chain', trail', place', out')
         /\ place' \in {"walking", "too-long"} /\ trail' = <<>> /\ chain' = c
         /\ UNCHANGED <<now, pin>>
  <1>1. <<>> \in Seq(DOMAIN c)
    BY EmptySeq
  <1>2. TypeOK' <=> last' \in [place : Ended, out : Keys] \cup {None}
    BY <1>1 DEF ChainInv, TypeOK, Present, Ended, Injective
  <1>3. Stands(pin', now', chain', trail', place', out')
    BY PresentStands DEF Present
  <1> QED
    BY <1>2, <1>3 DEF Present

LEMMA BeginKeeps ==
  ASSUME ChainInv, NEW c \in Seq(Statements), Begin(c)
  PROVE  ChainInv'
  <1>1. last = None /\ last' = None
    BY DEF ChainInv, Replayed, Begin
  <1> QED
    BY <1>1, PresentKeeps, ReplayedNext DEF ChainInv, Begin

LEMMA AgainKeeps ==
  ASSUME ChainInv, NEW o \in Orders, Again(o)
  PROVE  ChainInv'
  <1> DEFINE d == [i \in DOMAIN chain |-> chain[o[i]]]
             n == Len(chain)
  <1>1. chain \in Seq(Statements) /\ DOMAIN chain = 1..n /\ n \in Nat
        /\ chain \in [1..n -> Statements]
    BY LenProperties DEF ChainInv, TypeOK
  <1>2. o \in [1..n -> 1..n] /\ Injective(o) /\ d = [i \in 1..n |-> chain[o[i]]]
    BY <1>1 DEF Orders
  <1>3. d \in Seq(Statements)
    <2>1. d \in [1..n -> Statements]
      BY <1>1, <1>2
    <2> QED
      BY <1>1, <2>1, SeqDef
  <1>4. Present(d) /\ last' = [place |-> place, out |-> out] /\ place \in Ended \ {"none"}
    BY DEF Again
  <1> HIDE DEF d
  <1>5. /\ TypeOK' <=> last' \in [place : Ended, out : Keys] \cup {None}
        /\ Stands(pin', now', chain', trail', place', out')
        /\ place' \in {"walking", "too-long"} /\ trail' = <<>> /\ chain' = d
        /\ UNCHANGED <<now, pin>>
    BY <1>3, <1>4, PresentKeeps
  <1>6. out \in Keys
    BY DEF ChainInv, TypeOK
  <1>7. TypeOK'
    BY <1>4, <1>5, <1>6
  <1>8. PICK u : Stands(pin, now, d, u, place, out)
    <2>1. Stands(pin, now, chain, trail, place, out)
      BY DEF ChainInv
    <2> QED
      BY <1>1, <1>2, <2>1, ReplayStands
  <1>9. Begins(trail', u)
    BY <1>5, <1>8, EmptySeq DEF Begins, Stands
  <1>10. Stands(pin', now', chain', u, last'.place, last'.out)
    BY <1>4, <1>5, <1>8
  <1>11. Replayed'
    BY <1>4, <1>5, <1>9, <1>10, ReplayedNext
  <1> QED
    BY <1>5, <1>7, <1>11 DEF ChainInv

\* A step of the walk: what it would say of the walk before this one.
LEMMA FollowKeeps ==
  ASSUME ChainInv, Follow
  PROVE  ChainInv'
  <1> DEFINE i == First(Candidates(out))
  <1>1. TypeOK /\ Stands(pin, now, chain, trail, "walking", out) /\ place = "walking"
    BY DEF ChainInv, Follow, Walking
  <1>2. i \in Open(now, chain, trail, out)
    BY <1>1, CandidatesAreOpen DEF Follow
  <1>3. VerifyStatement(chain[i], out) /\ Apply(i) /\ UNCHANGED <<now, pin, chain, last>>
    BY DEF Follow
  <1> HIDE DEF i
  <1>4. /\ chain \in Seq(Statements) /\ Len(chain) \in Nat /\ i \in 1..Len(chain)
        /\ chain[i] \in Statements /\ DOMAIN chain = 1..Len(chain)
        /\ trail \in Seq(1..Len(chain)) /\ Injective(trail) /\ i \notin Passed(trail)
    BY <1>1, <1>2, LenProperties DEF TypeOK, Open
  <1>5. Stands(pin, now, chain, Append(trail, i), place', out')
    <2>1. /\ place' = (IF Withdraws(chain[i]) THEN "revoked" ELSE "walking")
          /\ out' = (IF Withdraws(chain[i]) THEN out ELSE chain[i].new)
      BY <1>3 DEF Apply
    <2> QED
      BY <1>1, <1>2, <1>3, <1>4, <2>1, FollowStands
  <1>6. TypeOK'
    <2>1. out' \in Keys
      BY <1>1, <1>3, <1>4, SuccessorIsKey DEF Apply, TypeOK
    <2>2. trail' \in Seq(1..Len(chain)) /\ Injective(trail')
      BY <1>3, <1>4, AppendTrail DEF Apply
    <2>3. place' \in Ended \cup {"walking"}
      BY <1>3 DEF Apply, Ended
    <2> QED
      BY <1>1, <1>3, <1>4, <2>1, <2>2, <2>3 DEF TypeOK
  <1>7. ASSUME last # None
        PROVE  /\ place' # "none" /\ last.place # "none"
               /\ \E u : /\ Stands(pin, now, chain, u, last.place, last.out)
                         /\ IsForked(now, chain) \/ Begins(Append(trail, i), u)
    <2>1. PICK u : /\ Stands(pin, now, chain, u, last.place, last.out)
                   /\ IsForked(now, chain) \/ Begins(trail, u)
      BY <1>7 DEF ChainInv, Replayed
    <2>2. last.place \in Ended \ {"none"}
      BY <1>1, <1>7 DEF ChainInv, Replayed, TypeOK
    <2>3. place' # "none"
      BY <1>3 DEF Apply
    <2>4. ASSUME ~IsForked(now, chain) PROVE Begins(Append(trail, i), u)
      <3>1. \A j \in Open(now, chain, trail, out) :
               VerifyStatement(chain[j], out) => Begins(Append(trail, j), u)
        BY <1>1, <1>4, <2>1, <2>2, <2>4, GoesOn
      <3> QED
        BY <1>2, <1>3, <3>1
    <2> QED
      BY <2>1, <2>2, <2>3, <2>4
  <1>8. trail' = Append(trail, i)
    BY <1>3 DEF Apply
  <1>9. Replayed'
    BY <1>3, <1>7, <1>8, ReplayedNext
  <1> QED
    BY <1>3, <1>5, <1>6, <1>8, <1>9 DEF ChainInv

LEMMA EndKeeps ==
  ASSUME ChainInv, Break \/ Arrive
  PROVE  ChainInv'
  <1>1. TypeOK /\ Stands(pin, now, chain, trail, "walking", out) /\ place = "walking"
    BY DEF ChainInv, Break, Arrive, Walking
  <1>2. /\ UNCHANGED <<now, pin, chain, out, trail, last>>
        /\ place' \in {"broken", "arrived"}
    BY DEF Break, Arrive
  <1>3. chain \in Seq(Statements)
    BY <1>1 DEF TypeOK
  <1>4. Stands(pin, now, chain, trail, place', out)
    <2>1. CASE Break
      BY <1>1, <2>1, CandidatesAreOpen, BreakStands DEF Break
    <2>2. CASE Arrive
      BY <1>1, <1>3, <2>2, CandidatesAreOpen, ArriveStands DEF Arrive, Walking
    <2> QED
      BY <2>1, <2>2
  <1>5. TypeOK'
    BY <1>1, <1>2 DEF TypeOK, Ended
  <1>6. Replayed'
    BY <1>2, ReplayedNext DEF ChainInv, Replayed
  <1> QED
    BY <1>2, <1>4, <1>5, <1>6 DEF ChainInv

LEMMA ChainKeeps ==
  ASSUME ChainInv, ChainStep
  PROVE  ChainInv'
  <1>1. pin \in Keys /\ out \in Keys /\ now \in 0..MaxTime
    BY DEF ChainInv, TypeOK
  <1>2. CASE Adopt \/ Tick \/ (Rest /\ UNCHANGED <<now, pin>>)
    <2>1. Rest /\ pin' \in Keys
      BY <1>1, <1>2 DEF Adopt, Tick
    <2>2. now' \in 0..MaxTime
      BY <1>1, <1>2, ChainAssumption DEF Adopt, Tick
    <2> QED
      BY <2>1, <2>2, RestKeeps
  <1>3. CASE UNCHANGED vars
    <2>1. UNCHANGED <<now, pin, chain, place, out, trail, last>>
      BY <1>3 DEF vars
    <2>2. TypeOK'
      BY <2>1 DEF ChainInv, TypeOK
    <2>3. Replayed'
      BY <2>1, ReplayedNext DEF ChainInv, Replayed
    <2> QED
      BY <2>1, <2>2, <2>3 DEF ChainInv
  <1> QED
    BY <1>2, <1>3, BeginKeeps, AgainKeeps, FollowKeeps, EndKeeps DEF ChainStep

\* A document of the model is one of statements.
LEMMA NextIsChainStep == [Next]_vars => ChainStep
  <1>1. Chains \subseteq Seq(Statements)
    BY SeqDef, ChainAssumption DEF Chains, Sequences
  <1> QED
    BY <1>1 DEF Next, ChainStep

-----------------------------------------------------------------------------
(* What the invariant says of a finished walk.                             *)

LEMMA StandsAuthorized == ChainInv => MovesAreAuthorized
  <1> SUFFICES ASSUME ChainInv PROVE MovesAreAuthorized
    OBVIOUS
  <1>1. \A k : Establishes(k) = KeyAfter(pin, chain, trail, k)
    BY DEF Establishes, KeyAfter
  <1> QED
    BY <1>1 DEF ChainInv, Stands, Leads, Ends, MovesAreAuthorized, VerifyStatement

LEMMA StandsRevoked == ChainInv => RevocationStands
  <1> SUFFICES ASSUME ChainInv, place = "arrived", NEW i \in DOMAIN chain,
                      Withdraws(chain[i]), chain[i].old = out, chain[i].notBefore <= now
               PROVE  FALSE
    BY DEF RevocationStands
  <1>1. i \in 1..Len(chain)
    BY LenProperties DEF ChainInv, TypeOK
  <1>2. Effective(chain[i], now)
    BY DEF Effective, Withdraws
  <1>3. i \notin Passed(trail)
    BY DEF ChainInv, Stands, Leads, Passed
  <1> QED
    BY <1>1, <1>2, <1>3 DEF ChainInv, Stands, Ends, Open

LEMMA StandsTheSame == ChainInv => SameUnlessForked
  <1> SUFFICES ASSUME ChainInv, last # None, place # "walking", ~Forked
               PROVE  last = Result
    BY DEF SameUnlessForked
  <1>1. ~IsForked(now, chain)
    BY DEF Forked, IsForked
  <1>2. PICK u : Stands(pin, now, chain, u, last.place, last.out) /\ Begins(trail, u)
    BY <1>1 DEF ChainInv, Replayed
  <1>3. /\ place \in Ended \ {"none"} /\ last.place \in Ended \ {"none"}
        /\ last \in [place : Ended, out : Keys]
        /\ chain \in Seq(Statements)
    BY DEF ChainInv, TypeOK, Replayed
  <1>4. Stands(pin, now, chain, trail, place, out)
    BY DEF ChainInv
  <1>5. last.place = place /\ last.out = out
    BY <1>1, <1>2, <1>3, <1>4, OneEnd
  <1> QED
    BY <1>3, <1>5 DEF Result

LEMMA SpecChainInv == Spec => []ChainInv
  <1>1. ChainInv /\ [Next]_vars => ChainInv'
    BY NextIsChainStep, ChainKeeps
  <1> QED
    BY <1>1, InitChainInv, PTL DEF Spec

\* rotation_verify.go WalkChain, "refusing to let anything but a signature move a
\* trust anchor": whatever document is presented, and whenever.
THEOREM WalkIsAuthorized == Spec => []MovesAreAuthorized
  BY SpecChainInv, StandsAuthorized, PTL

\* rotation_verify.go Effective, "a verifier that let one lapse would RESURRECT trust":
\* no walk arrives at a key that the document withdraws.
THEOREM WalkStopsAtRevocation == Spec => []RevocationStands
  BY SpecChainInv, StandsRevoked, PTL

\* rotation_verify.go WalkChain, "may present the chain in any order": for every
\* document, every order of it and every moment, unless a key has two statements in
\* effect.
THEOREM WalkIgnoresOrder == Spec => []SameUnlessForked
  BY SpecChainInv, StandsTheSame, PTL

=============================================================================
