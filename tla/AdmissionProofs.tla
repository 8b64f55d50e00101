--------------------------- MODULE AdmissionProofs ---------------------------
(***************************************************************************)
(* Theorems about Admission, for any number of callers, domains and        *)
(* tracked decisions, any burst and refill, and clock readings that reach  *)
(* the table and the bucket in any order.                                  *)
(***************************************************************************)
EXTENDS Admission, SequenceTheorems, FiniteSetTheorems, WellFoundedInduction, TLAPS

\* A set of naturals that is not empty has a least element.
LEMMA LeastOfNats ==
  ASSUME NEW T, T \subseteq Nat, T # {}
  PROVE  \E x \in T : \A y \in T : x <= y
  <1> DEFINE R == OpToRel(<, Nat)
  <1>1. IsWellFoundedOn(R, Nat)
    BY NatLessThanWellFounded
  <1> HIDE DEF R
  <1>2. PICK x \in T : \A y \in T : <<y, x>> \notin R
    BY <1>1, WFMin
  <1>3. \A y \in T : y < x => <<y, x>> \in R
    BY <1>2 DEF R, OpToRel
  <1>4. \A y \in T : x \in Nat /\ y \in Nat /\ ~(y < x)
    BY <1>2, <1>3
  <1> QED
    BY <1>2, <1>4

\* And a greatest one, if it is bounded.
LEMMA GreatestOfNats ==
  ASSUME NEW n \in Nat, NEW T, T \subseteq 0..n, T # {}
  PROVE  \E x \in T : \A y \in T : x >= y
  <1> DEFINE D == {n - y : y \in T}
  <1>1. D \subseteq Nat /\ D # {}
    <2>1. \A y \in 0..n : n - y \in Nat
      OBVIOUS
    <2> QED
      BY <2>1
  <1>2. PICK m \in D : \A k \in D : m <= k
    <2> HIDE DEF D
    <2> QED
      BY <1>1, LeastOfNats
  <1>3. PICK x \in T : m = n - x
    BY <1>2
  <1>4. ASSUME NEW y \in T
        PROVE  x >= y
    <2>1. n - x <= n - y
      BY <1>2, <1>3
    <2>2. x \in Int /\ y \in Int
      OBVIOUS
    <2> QED
      BY <2>1, <2>2
  <1> QED
    BY <1>4

-----------------------------------------------------------------------------
(* The invariant.                                                          *)

\* A caller's clock reading is not in the future.
Read == \A c \in Callers : call[c] # None => call[c].now <= now

\* What the table remembers of a domain is its last admission.
Remembered ==
    \A d \in Domains :
        seen[d] # None => decided[d][seen[d].evidence] = seen[d].at

TableIsFinite == IsFiniteSet(Tracked(seen))

\* The tokens paid since the i-th birth, and those still there, are covered by
\* the burst and what was earned since.
Paid(i) ==
    /\ births[i] <= lastRefill
    /\ (Len(births) - i + 1) * RefillEach + budget
          <= Burst * RefillEach + (lastRefill - births[i])

Covered == \A i \in 1..Len(births) : Paid(i)

IInv ==
    /\ TypeOK /\ Read /\ Remembered
    /\ TableIsFinite /\ TableIsBounded
    /\ Covered /\ RowsAreBounded

-----------------------------------------------------------------------------
(* The table.                                                              *)

Table == [Domains -> Decisions \cup {None}]

LEMMA WithoutFacts ==
  ASSUME NEW s \in Table, NEW old
  PROVE  /\ Without(s, old) \in Table
         /\ Tracked(Without(s, old)) = Tracked(s) \ old
         /\ \A d \in Domains : Without(s, old)[d] \in {s[d], None}
  BY DEF Without, Tracked, Table

\* A table that tracks anything gives up some of it.
LEMMA OldestFacts ==
  ASSUME NEW s \in Table, Tracked(s) # {}
  PROVE  Oldest(s) \cap Tracked(s) # {}
  <1> DEFINE times == {s[d].at : d \in Tracked(s)}
             first == CHOOSE t \in times : \A u \in times : t <= u
             last == CHOOSE t \in times : \A u \in times : t >= u
  <1>1. \A d \in Tracked(s) : s[d] \in Decisions
    BY DEF Tracked, Table
  <1>2. times \subseteq 0..MaxTime /\ times # {}
    BY <1>1 DEF Decisions
  <1>3. Oldest(s) = {d \in Tracked(s) : 4 * (s[d].at - first) <= last - first}
    BY DEF Oldest
  <1>4. first \in times /\ last \in times /\ first <= last
    <2> HIDE DEF times
    <2>1. times \subseteq Nat
      BY <1>2
    <2>2. \E t \in times : \A u \in times : t <= u
      BY <1>2, <2>1, LeastOfNats
    <2>3. \E t \in times : \A u \in times : t >= u
      BY <1>2, GreatestOfNats, AdmissionAssumption
    <2> QED
      BY <2>2, <2>3
  <1>5. PICK d \in Tracked(s) : s[d].at = first
    BY <1>4
  <1> HIDE DEF first, last, times
  <1>6. first \in Int /\ last \in Int
    BY <1>2, <1>4
  <1>7. 4 * (s[d].at - first) <= last - first
    BY <1>4, <1>5, <1>6
  <1> QED
    BY <1>3, <1>5, <1>7

\* A sweep leaves room for one decision (admission.go sweepLocked).
LEMMA SweepFacts ==
  ASSUME NEW s \in Table, NEW t, IsFiniteSet(Tracked(s)), Cardinality(Tracked(s)) <= MaxTracked
  PROVE  /\ Sweep(s, t) \in Table
         /\ \A d \in Domains : Sweep(s, t)[d] \in {s[d], None}
         /\ IsFiniteSet(Tracked(Sweep(s, t)))
         /\ Cardinality(Tracked(Sweep(s, t))) < MaxTracked
  <1> DEFINE fresh == Without(s, Lapsed(s, t))
             rest == Without(fresh, Oldest(fresh))
  <1>0. MaxTracked \in Nat \ {0} /\ Cardinality(Tracked(s)) \in Nat
    BY AdmissionAssumption, FS_CardinalityType
  <1>1. /\ fresh \in Table /\ Tracked(fresh) \subseteq Tracked(s)
        /\ \A d \in Domains : fresh[d] \in {s[d], None}
    BY WithoutFacts
  <1>2. /\ IsFiniteSet(Tracked(fresh)) /\ Cardinality(Tracked(fresh)) \in Nat
        /\ Cardinality(Tracked(fresh)) <= Cardinality(Tracked(s))
    BY <1>1, FS_Subset, FS_CardinalityType
  <1>3. Sweep(s, t) = CASE ~Full(s) -> s
                        [] Full(s) /\ ~Full(fresh) -> fresh
                        [] OTHER -> rest
    BY DEF Sweep
  <1> HIDE DEF fresh
  <1>4. CASE ~Full(s)
    BY <1>0, <1>3, <1>4 DEF Full
  <1>5. CASE Full(s) /\ ~Full(fresh)
    BY <1>0, <1>1, <1>2, <1>3, <1>5 DEF Full
  <1>6. CASE Full(s) /\ Full(fresh)
    <2>1. Sweep(s, t) = rest
      BY <1>3, <1>6
    <2>2. /\ rest \in Table /\ Tracked(rest) = Tracked(fresh) \ Oldest(fresh)
          /\ \A d \in Domains : rest[d] \in {fresh[d], None}
      BY <1>1, WithoutFacts
    <2>3. Tracked(fresh) # {}
      BY <1>0, <1>6, FS_EmptySet DEF Full
    <2>4. Tracked(rest) \subseteq Tracked(fresh) /\ Tracked(rest) # Tracked(fresh)
      BY <1>1, <2>2, <2>3, OldestFacts
    <2> HIDE DEF rest
    <2>5. /\ IsFiniteSet(Tracked(rest)) /\ Cardinality(Tracked(rest)) \in Nat
          /\ Cardinality(Tracked(rest)) <= Cardinality(Tracked(fresh))
          /\ Cardinality(Tracked(rest)) # Cardinality(Tracked(fresh))
      BY <1>2, <2>4, FS_Subset, FS_CardinalityType
    <2>6. Cardinality(Tracked(rest)) < MaxTracked
      BY <1>0, <1>2, <2>5
    <2> QED
      BY <1>1, <2>1, <2>2, <2>5, <2>6
  <1> QED
    BY <1>4, <1>5, <1>6

-----------------------------------------------------------------------------
(* The bucket.                                                             *)

\* One reading of the clock, whatever its order (admission.go refill).
LEMMA RefilledFacts ==
  ASSUME IInv, NEW t \in 0..now
  PROVE  /\ Refilled(t) \in 0..Burst * RefillEach
         /\ Clock(t) \in 0..now /\ Clock(t) >= lastRefill
         /\ Refilled(t) <= budget + (Clock(t) - lastRefill)
  <1> DEFINE full == Burst * RefillEach
  <1>1. full \in Nat
    BY AdmissionAssumption
  <1>2. budget \in 0..full /\ lastRefill \in 0..now /\ now \in Nat
    BY AdmissionAssumption DEF IInv, TypeOK
  <1> HIDE DEF full
  <1>3. CASE t > lastRefill
    <2>1. Refilled(t) = Least(budget + (t - lastRefill), full) /\ Clock(t) = t
      BY <1>3 DEF Refilled, Clock, full
    <2> QED
      BY <1>1, <1>2, <1>3, <2>1 DEF Least, full
  <1>4. CASE ~(t > lastRefill)
    <2>1. Refilled(t) = budget /\ Clock(t) = lastRefill
      BY <1>4 DEF Refilled, Clock
    <2> QED
      BY <1>1, <1>2, <1>4, <2>1 DEF full
  <1> QED
    BY <1>3, <1>4

\* The births are moments of the bucket's clock.
LEMMA BirthsType ==
  ASSUME NEW m \in Nat, NEW s \in Seq(0..m)
  PROVE  Len(s) \in Nat /\ \A i \in 1..Len(s) : s[i] \in 0..m /\ s[i] \in Int
  BY LenProperties, ElementOfSeq

LEMMA BucketType ==
  ASSUME IInv
  PROVE  /\ Burst * RefillEach \in Int /\ RefillEach \in Nat \ {0}
         /\ now \in Nat /\ budget \in Int /\ lastRefill \in Int
         /\ births \in Seq(0..now)
  BY AdmissionAssumption DEF IInv, TypeOK

\* The bucket's clock and budget move and nobody pays.
LEMMA DropKeepsCovered ==
  ASSUME IInv, NEW t \in 0..now, budget' = Refilled(t), lastRefill' = Clock(t),
         UNCHANGED births
  PROVE  Covered'
  <1>1. /\ budget' \in Int /\ lastRefill' \in Int
        /\ lastRefill' >= lastRefill /\ budget' <= budget + (lastRefill' - lastRefill)
    BY RefilledFacts
  <1>2. PICK full \in Int : full = Burst * RefillEach
    BY BucketType
  <1>3. ASSUME NEW i \in 1..Len(births)
        PROVE  Paid(i)'
    <2>1. births[i] \in Int /\ Len(births) \in Nat
      BY BucketType, BirthsType
    <2>2. PICK n \in Int : n = (Len(births) - i + 1) * RefillEach
      BY <2>1, BucketType
    <2>3. births[i] <= lastRefill /\ n + budget <= full + (lastRefill - births[i])
      BY <1>2, <2>2 DEF IInv, Covered, Paid
    <2>4. PICK x \in Int, b \in Int, b2 \in Int, l \in Int, l2 \in Int :
             x = births[i] /\ b = budget /\ b2 = budget' /\ l = lastRefill /\ l2 = lastRefill'
      BY <1>1, <2>1, BucketType
    <2>5. x <= l /\ n + b <= full + (l - x) /\ l2 >= l /\ b2 <= b + (l2 - l)
      BY <1>1, <2>3, <2>4
    <2>6. x <= l2 /\ n + b2 <= full + (l2 - x)
      BY <2>5
    <2> QED
      BY <1>2, <2>2, <2>4, <2>6 DEF Paid
  <1> QED
    BY <1>3 DEF Covered

\* One token is taken, by a caller whose clock reading is t.
LEMMA PayKeepsCovered ==
  ASSUME IInv, NEW t \in 0..now, Refilled(t) >= RefillEach,
         budget' = Refilled(t) - RefillEach, lastRefill' = Clock(t),
         births' = Append(births, Clock(t))
  PROVE  /\ budget' \in 0..Burst * RefillEach /\ lastRefill' \in 0..now
         /\ births' \in Seq(0..now)
         /\ Covered' /\ RowsAreBounded'
  <1> DEFINE len == Len(births)
  <1>1. PICK full \in Int : full = Burst * RefillEach
    BY BucketType
  <1>2. RefillEach \in Nat \ {0} /\ budget \in Int /\ lastRefill \in Int
    BY BucketType
  <1>3. /\ Refilled(t) \in 0..full /\ Clock(t) \in 0..now /\ Clock(t) >= lastRefill
        /\ Refilled(t) <= budget + (Clock(t) - lastRefill)
    BY <1>1, RefilledFacts
  <1>4. len \in Nat /\ \A i \in 1..len : births[i] \in Int
    BY BucketType, BirthsType
  <1>5. /\ births' \in Seq(0..now) /\ Len(births') = len + 1
        /\ \A i \in 1..len : births'[i] = births[i]
        /\ births'[len + 1] = Clock(t)
    BY <1>3, BucketType, AppendProperties
  <1>6. /\ budget' \in 0..full /\ budget' \in Int /\ budget' + RefillEach = Refilled(t)
        /\ lastRefill' \in Int
    BY <1>1, <1>2, <1>3
  <1>7. PICK b \in Int, b2 \in Int, l \in Int, l2 \in Int :
            b = budget /\ b2 = budget' /\ l = lastRefill /\ l2 = lastRefill'
    BY <1>2, <1>6
  <1>8. l2 >= l /\ b2 + RefillEach <= b + (l2 - l) /\ b2 + RefillEach <= full /\ b2 >= 0
    BY <1>3, <1>6, <1>7
  <1>9. ASSUME NEW i \in 1..len + 1
        PROVE  /\ births'[i] <= lastRefill'
               /\ (len + 1 - i + 1) * RefillEach + budget' <= full + (lastRefill' - births'[i])
    <2>1. PICK m \in Int : m = (len + 1 - i + 1) * RefillEach
      BY <1>2, <1>4
    <2>2. CASE i = len + 1
      <3>1. m = RefillEach
        BY <1>2, <1>4, <2>1, <2>2
      <3>2. m + b2 <= full + (l2 - l2)
        BY <1>2, <1>8, <3>1
      <3>3. births'[i] = l2
        BY <1>5, <1>7, <2>2
      <3> QED
        BY <1>7, <2>1, <3>2, <3>3
    <2>3. CASE i \in 1..len
      <3>1. PICK n \in Int : n = (len - i + 1) * RefillEach
        BY <1>2, <1>4
      <3>2. m = n + RefillEach
        BY <1>2, <1>4, <2>1, <3>1
      <3>3. births[i] <= lastRefill /\ n + budget <= full + (lastRefill - births[i])
        BY <1>1, <2>3, <3>1 DEF IInv, Covered, Paid
      <3>4. PICK x \in Int : x = births[i] /\ x = births'[i]
        BY <1>4, <1>5, <2>3
      <3>5. x <= l /\ n + b <= full + (l - x)
        BY <1>7, <3>3, <3>4
      <3>6. x <= l2 /\ m + b2 <= full + (l2 - x)
        BY <1>2, <1>8, <3>2, <3>5
      <3> QED
        BY <1>7, <2>1, <3>4, <3>6
    <2> QED
      BY <1>4, <2>2, <2>3
  <1>10. Covered'
    BY <1>1, <1>5, <1>9 DEF Covered, Paid
  <1>11. ASSUME NEW i \in 1..len + 1, NEW j \in 1..len + 1, i <= j
        PROVE  (j - i + 1) * RefillEach <= full + (births'[j] - births'[i])
    <2>1. CASE j = len + 1
      <3>1. PICK m \in Int : m = (len + 1 - i + 1) * RefillEach
        BY <1>2, <1>4
      <3>2. m + budget' <= full + (lastRefill' - births'[i])
        BY <1>9, <3>1
      <3>3. births'[i] \in Int /\ births'[j] = lastRefill'
        BY <1>5, <2>1, BucketType, BirthsType
      <3>4. m <= full + (lastRefill' - births'[i])
        <4>1. ASSUME NEW n \in Int, NEW left \in Nat, NEW bound \in Int, n + left <= bound
              PROVE  n <= bound
          BY <4>1
        <4>2. budget' \in Nat /\ full + (lastRefill' - births'[i]) \in Int
          BY <1>6, <3>3
        <4> QED
          BY <3>2, <4>1, <4>2
      <3> QED
        BY <2>1, <3>1, <3>3, <3>4
    <2>2. CASE j \in 1..len
      <3>1. i \in 1..len
        BY <1>4, <1>11, <2>2
      <3> QED
        BY <1>1, <1>5, <1>11, <2>2, <3>1 DEF IInv, RowsAreBounded
    <2> QED
      BY <1>4, <2>1, <2>2
  <1>12. RowsAreBounded'
    BY <1>1, <1>5, <1>11 DEF RowsAreBounded
  <1> QED
    BY <1>1, <1>3, <1>5, <1>6, <1>10, <1>12

-----------------------------------------------------------------------------
(* Every step keeps the invariant.                                         *)

\* A step that leaves the table, the bucket and the clock alone.
LEMMA FrameKeeps ==
  ASSUME IInv, UNCHANGED <<now, seen, bucket, history>>, TypeOK', Read'
  PROVE  IInv'
  BY DEF IInv, bucket, history, Remembered, TableIsFinite, TableIsBounded, Covered, Paid,
         RowsAreBounded

\* A table in which decisions are only dropped.
LEMMA DroppingKeeps ==
  ASSUME IInv, NEW old, seen' = Without(seen, old)
  PROVE  /\ seen' \in Table
         /\ \A d \in Domains : seen'[d] \in {seen[d], None}
         /\ TableIsFinite' /\ TableIsBounded'
  <1>1. /\ seen \in Table /\ IsFiniteSet(Tracked(seen))
        /\ Cardinality(Tracked(seen)) <= MaxTracked
    BY DEF IInv, TypeOK, Table, TableIsFinite, TableIsBounded
  <1>2. seen' \in Table /\ Tracked(seen') \subseteq Tracked(seen)
        /\ \A d \in Domains : seen'[d] \in {seen[d], None}
    BY <1>1, WithoutFacts
  <1>3. /\ IsFiniteSet(Tracked(seen'))
        /\ Cardinality(Tracked(seen')) <= Cardinality(Tracked(seen))
        /\ Cardinality(Tracked(seen')) \in Nat /\ Cardinality(Tracked(seen)) \in Nat
    BY <1>1, <1>2, FS_Subset, FS_CardinalityType
  <1> QED
    BY <1>1, <1>2, <1>3, AdmissionAssumption DEF TableIsFinite, TableIsBounded

LEMMA AdmitKeeps ==
  ASSUME IInv, NEW c \in Callers, Admit(c)
  PROVE  IInv'
  <1> DEFINE q == call[c]
             swept == Sweep(seen, q.now)
             new == [evidence |-> q.evidence, at |-> q.now]
  <1>1. q \in Calls /\ new \in Decisions /\ new # None /\ q.now \in Nat
    BY AdmissionAssumption, NilAssumption DEF IInv, TypeOK, Admit, Calls, Decisions
  <1>2. /\ seen \in Table /\ IsFiniteSet(Tracked(seen))
        /\ Cardinality(Tracked(seen)) <= MaxTracked
    BY DEF IInv, TypeOK, Table, TableIsFinite, TableIsBounded
  <1>3. /\ swept \in Table /\ \A d \in Domains : swept[d] \in {seen[d], None}
        /\ IsFiniteSet(Tracked(swept)) /\ Cardinality(Tracked(swept)) < MaxTracked
    BY <1>2, SweepFacts
  <1>4. seen' = [swept EXCEPT ![q.domain] = new]
    BY DEF Admit
  <1> HIDE DEF swept, new
  <1>5. /\ seen' \in Table /\ seen'[q.domain] = new
        /\ \A d \in Domains \ {q.domain} : seen'[d] = swept[d]
        /\ Tracked(seen') = Tracked(swept) \cup {q.domain}
    BY <1>1, <1>3, <1>4 DEF Table, Tracked, Calls
  <1>6. TypeOK'
    <2>1. q.domain \in Domains /\ q.evidence \in Evidence /\ q.now \in 0..MaxTime
      BY <1>1 DEF Calls
    <2>2. decided' \in [Domains -> [Evidence -> 0..MaxTime \cup {None}]]
      BY <2>1 DEF Admit, IInv, TypeOK
    <2>3. \A x \in Callers : call'[x] = None <=> at'[x] = "outside"
      BY DEF Admit, IInv, TypeOK
    <2>4. at' \in [Callers -> Places]
      BY DEF Admit, IInv, TypeOK, Places
    <2> QED
      BY <1>5, <2>2, <2>3, <2>4 DEF Admit, IInv, TypeOK, Table, bucket, store
  <1>7. Remembered'
    <2>1. ASSUME NEW d \in Domains, seen'[d] # None
          PROVE  decided'[d][seen'[d].evidence] = seen'[d].at
      <3>1. CASE d = q.domain
        <4>1. decided'[q.domain][q.evidence] = q.now
          BY <1>1 DEF Admit, IInv, TypeOK, Calls
        <4> QED
          BY <1>5, <3>1, <4>1 DEF new
      <3>2. CASE d # q.domain
        <4>1. seen'[d] = seen[d]
          BY <1>3, <1>5, <2>1, <3>2
        <4>2. decided'[d] = decided[d]
          BY <3>2 DEF Admit, IInv, TypeOK
        <4> QED
          BY <2>1, <4>1, <4>2 DEF IInv, Remembered
      <3> QED
        BY <3>1, <3>2
    <2> QED
      BY <2>1 DEF Remembered
  <1>8. TableIsFinite' /\ TableIsBounded'
    <2> DEFINE old == Tracked(swept)
    <2>1. IsFiniteSet(old) /\ Cardinality(old) \in Nat
      BY <1>3, FS_CardinalityType
    <2>2. /\ IsFiniteSet(old \cup {q.domain})
          /\ \/ Cardinality(old \cup {q.domain}) = Cardinality(old)
             \/ Cardinality(old \cup {q.domain}) = Cardinality(old) + 1
      <3> HIDE DEF old
      <3> QED
        BY <2>1, FS_AddElement
    <2>3. /\ IsFiniteSet(Tracked(seen'))
          /\ \/ Cardinality(Tracked(seen')) = Cardinality(Tracked(swept))
             \/ Cardinality(Tracked(seen')) = Cardinality(Tracked(swept)) + 1
      BY <1>5, <2>2
    <2> QED
      BY <1>3, <2>1, <2>3, FS_CardinalityType, AdmissionAssumption
         DEF TableIsFinite, TableIsBounded
  <1> QED
    BY <1>6, <1>7, <1>8
       DEF Admit, IInv, Read, Covered, Paid, RowsAreBounded, bucket

LEMMA BucketKeeps ==
  ASSUME IInv, NEW c \in Callers, Pay(c) \/ Drop(c)
  PROVE  IInv'
  <1> DEFINE t == call[c].now
  <1>1. t \in 0..now
    BY DEF IInv, TypeOK, Read, Calls, Pay, Drop
  <1> HIDE DEF t
  <1>2. CASE Pay(c)
    <2>1. /\ budget' \in 0..Burst * RefillEach /\ lastRefill' \in 0..now
          /\ births' \in Seq(0..now) /\ Covered' /\ RowsAreBounded'
      BY <1>1, <1>2, PayKeepsCovered DEF Pay, t
    <2>2. TypeOK'
      BY <1>2, <2>1 DEF Pay, IInv, TypeOK, Places, store
    <2> QED
      BY <1>2, <2>1, <2>2
         DEF Pay, IInv, Read, Remembered, TableIsFinite, TableIsBounded
  <1>3. CASE Drop(c)
    <2>1. budget' = Refilled(t) /\ lastRefill' = Clock(t) /\ UNCHANGED births
      BY <1>3 DEF Drop, t, history
    <2>2. Covered' /\ budget' \in 0..Burst * RefillEach /\ lastRefill' \in 0..now
      BY <1>1, <2>1, DropKeepsCovered, RefilledFacts
    <2>3. TypeOK'
      BY <1>3, <2>2 DEF Drop, Return, IInv, TypeOK, Places, store, history
    <2> QED
      BY <1>3, <2>2, <2>3
         DEF Drop, Return, IInv, TypeOK, Read, Remembered, TableIsFinite, TableIsBounded,
             RowsAreBounded, history
  <1> QED
    BY <1>2, <1>3

LEMMA CallerKeeps ==
  ASSUME IInv, NEW c \in Callers, Observe(c)
  PROVE  IInv'
  <1> USE DEF bucket, store, history
  <1>1. ASSUME NEW d \in Domains, NEW e \in Evidence, Arrive(c, d, e)
        PROVE  IInv'
    <2> DEFINE q == [domain |-> d, evidence |-> e, now |-> now]
    <2>1. q \in Calls /\ q # None /\ q.now = now
      BY NilAssumption DEF IInv, TypeOK, Calls
    <2>2. call' = [call EXCEPT ![c] = q]
      BY <1>1 DEF Arrive
    <2> HIDE DEF q
    <2>3. TypeOK'
      BY <1>1, <2>1, <2>2 DEF Arrive, IInv, TypeOK, Places
    <2>4. Read'
      BY <1>1, <2>1, <2>2 DEF Arrive, IInv, TypeOK, Read
    <2> QED
      BY <1>1, <2>3, <2>4, FrameKeeps DEF Arrive
  <1>2. ASSUME Return(c), UNCHANGED <<now, seen, bucket, admin, history>>,
               rows' \subseteq Domains
        PROVE  IInv'
    <2>1. TypeOK' /\ Read'
      BY <1>2 DEF Return, IInv, TypeOK, Places, Read
    <2> QED
      BY <1>2, <2>1, FrameKeeps
  <1>3. CASE RefuseRepeat(c) \/ StoreFails(c)
    BY <1>2, <1>3 DEF RefuseRepeat, StoreFails, IInv, TypeOK
  <1>4. CASE PutObservation(c)
    <2>1. call[c].domain \in Domains
      BY <1>4 DEF PutObservation, IInv, TypeOK, Calls
    <2> QED
      BY <1>2, <1>4, <2>1 DEF PutObservation, IInv, TypeOK
  <1>5. CASE LookUp(c)
    <2>1. TypeOK' /\ Read'
      BY <1>5 DEF LookUp, IInv, TypeOK, Places, Read
    <2> QED
      BY <1>5, <2>1, FrameKeeps DEF LookUp
  <1> QED
    BY <1>1, <1>3, <1>4, <1>5, AdmitKeeps, BucketKeeps DEF Observe

LEMMA NextKeeps ==
  ASSUME IInv, [Next]_vars
  PROVE  IInv'
  <1> USE DEF bucket, store, history
  <1>1. ASSUME NEW d \in Domains, ObserveMalformed(d)
        PROVE  IInv'
    <2>1. TypeOK' /\ Read'
      BY <1>1 DEF ObserveMalformed, IInv, TypeOK, Read
    <2> QED
      BY <1>1, <2>1, FrameKeeps DEF ObserveMalformed
  <1>2. ASSUME NEW d \in Domains, NEW op \in {"add", "forget"}, AdminForgets(op, d)
        PROVE  IInv'
    <2>1. /\ seen' \in Table /\ TableIsFinite' /\ TableIsBounded'
          /\ \A x \in Domains : seen'[x] \in {seen[x], None}
      BY <1>2, DroppingKeeps DEF AdminForgets
    <2>2. TypeOK'
      BY <1>2, <2>1 DEF AdminForgets, IInv, TypeOK, Table
    <2>3. Remembered'
      BY <1>2, <2>1 DEF AdminForgets, IInv, Remembered
    <2> QED
      BY <1>2, <2>1, <2>2, <2>3
         DEF AdminForgets, IInv, Read, Covered, Paid, RowsAreBounded
  <1>3. CASE AdminAdds \/ ForgetPeer \/ AdminFails
    <2>1. TypeOK' /\ Read'
      BY <1>3 DEF AdminAdds, ForgetPeer, AdminFails, IInv, TypeOK, Read
    <2> QED
      BY <1>3, <2>1, FrameKeeps DEF AdminAdds, ForgetPeer, AdminFails
  <1>4. CASE Tick
    <2>1. now \in Nat /\ now' = now + 1 /\ now' \in 0..MaxTime /\ 0..now \subseteq 0..now'
      BY <1>4, AdmissionAssumption DEF Tick, IInv, TypeOK
    <2>2. births' \in Seq(0..now')
      <3>1. births \in Seq(0..now)
        BY DEF IInv, TypeOK
      <3>2. Len(births) \in Nat /\ \A i \in 1..Len(births) : births[i] \in 0..now'
        BY <2>1, <3>1, BirthsType
      <3>3. births = [i \in 1..Len(births) |-> births[i]]
        BY <3>1, LenProperties
      <3>4. births \in [1..Len(births) -> 0..now']
        BY <3>2, <3>3
      <3> QED
        BY <1>4, <3>2, <3>4, SeqDef DEF Tick
    <2>3. TypeOK'
      BY <1>4, <2>1, <2>2 DEF Tick, IInv, TypeOK
    <2>4. Read'
      BY <1>4, <2>1 DEF Tick, IInv, TypeOK, Read, Calls
    <2> QED
      BY <1>4, <2>3, <2>4
         DEF Tick, IInv, Remembered, TableIsFinite, TableIsBounded, Covered, Paid,
             RowsAreBounded
  <1>5. CASE UNCHANGED vars
    <2>1. TypeOK' /\ Read'
      BY <1>5 DEF vars, IInv, TypeOK, Read
    <2> QED
      BY <1>5, <2>1, FrameKeeps DEF vars
  <1> QED
    BY <1>1, <1>2, <1>3, <1>4, <1>5, CallerKeeps DEF Next

LEMMA InitIInv == Init => IInv
  <1> SUFFICES ASSUME Init PROVE IInv
    OBVIOUS
  <1>1. Burst * RefillEach \in Nat
    BY AdmissionAssumption
  <1>2. Tracked(seen) = {}
    BY DEF Init, Tracked
  <1>3. births = <<>> /\ Len(births) = 0 /\ births \in Seq(0..now)
    BY EmptySeq DEF Init
  <1>4. TypeOK
    <2>1. budget \in 0..Burst * RefillEach
      BY <1>1 DEF Init
    <2> QED
      BY <1>3, <2>1, AdmissionAssumption DEF Init, TypeOK, Places
  <1>5. IsFiniteSet(Tracked(seen)) /\ Cardinality(Tracked(seen)) = 0
    BY <1>2, FS_EmptySet
  <1>6. 1..Len(births) = {}
    BY <1>3
  <1>7. Read /\ Remembered
    BY DEF Init, Read, Remembered
  <1> QED
    BY <1>4, <1>5, <1>6, <1>7, AdmissionAssumption
       DEF IInv, TableIsFinite, TableIsBounded, Covered, RowsAreBounded

LEMMA SpecIInv == Spec => []IInv
  BY InitIInv, NextKeeps, PTL DEF Spec

-----------------------------------------------------------------------------
(* The theorems.                                                           *)

\* Every reading, decision, token and record is of its type, whoever runs next.
THEOREM AdmissionTyped == Spec => []TypeOK
  <1>1. IInv => TypeOK
    BY DEF IInv
  <1> QED
    BY <1>1, SpecIInv, PTL

\* admission.go sweepLocked: the memory of decisions never outgrows its cap, for
\* any number of domains, however fresh the decisions and in whatever order the
\* callers' clock readings reach it.
THEOREM TableStaysBounded == Spec => []TableIsBounded
  <1>1. IInv => TableIsBounded
    BY DEF IInv
  <1> QED
    BY <1>1, SpecIInv, PTL

\* admission.go allowNew: over every stretch of the bucket's clock, strangers are
\* let in at most as often as burst and refill allow.
THEOREM RowsStayBounded == Spec => []RowsAreBounded
  <1>1. IInv => RowsAreBounded
    BY DEF IInv
  <1> QED
    BY <1>1, SpecIInv, PTL

\* A caller is refused by nothing but the memory of decisions.
LEMMA OnlyMemoryRefuses ==
  ASSUME IInv, [Next]_vars, NEW x \in Callers, Refuses(x)
  PROVE  RefuseRepeat(x)
  <1>1. ASSUME NEW c \in Callers, Observe(c)
        PROVE  RefuseRepeat(x)
    BY <1>1
       DEF Observe, Arrive, RefuseRepeat, Admit, LookUp, Pay, Drop, PutObservation,
           StoreFails, Return, Refuses, IInv, TypeOK
  <1>2. ASSUME UNCHANGED at
        PROVE  RefuseRepeat(x)
    BY <1>2 DEF Refuses
  <1> QED
    BY <1>1, <1>2
       DEF Next, ObserveMalformed, AdminForgets, AdminAdds, ForgetPeer, AdminFails, Tick, vars

\* sweepLocked, "Evicting only makes us re-decide a domain sooner, never wrong":
\* no observation is refused as a repeat unless the same evidence on the same
\* domain was admitted within the interval.
THEOREM RefusalsAreRepeats == Spec => OnlyRepeatsRefused
  <1> DEFINE Justified == \A c \in Callers : Refuses(c) => AdmittedBefore(call[c])
  <1>1. IInv /\ [Next]_vars => [Justified]_vars
    <2> SUFFICES ASSUME IInv, [Next]_vars, NEW c \in Callers, Refuses(c)
                 PROVE  AdmittedBefore(call[c])
      OBVIOUS
    <2>1. at[c] = "arrived" /\ Repeat(seen, call[c])
      BY OnlyMemoryRefuses DEF RefuseRepeat
    <2>2. call[c] \in Calls
      BY <2>1 DEF IInv, TypeOK
    <2> DEFINE q == call[c]
    <2>3. /\ q.domain \in Domains /\ seen[q.domain] # None
          /\ seen[q.domain] \in Decisions
          /\ seen[q.domain].evidence = q.evidence
          /\ q.now < seen[q.domain].at + Interval
      BY <2>1, <2>2 DEF Calls, Repeat, SameEvidence, IInv, TypeOK
    <2>4. decided[q.domain][q.evidence] = seen[q.domain].at
      BY <2>3 DEF IInv, Remembered
    <2>5. seen[q.domain].at # None
      BY <2>3, NilAssumption, AdmissionAssumption DEF Decisions
    <2> QED
      BY <2>3, <2>4, <2>5 DEF AdmittedBefore
  <1> QED
    BY <1>1, SpecIInv, PTL DEF Spec, OnlyRepeatsRefused

=============================================================================
