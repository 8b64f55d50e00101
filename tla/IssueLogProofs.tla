--------------------------- MODULE IssueLogProofs ----------------------------
(***************************************************************************)
(* Theorems about IssueLog, for any conditions, any length of the history  *)
(* and any width of the counter.                                           *)
(*                                                                         *)
(* The history is a sequence only for the tie between two rows last seen   *)
(* together; everything else is said of the set of its rows.  The lemmas   *)
(* say what each operation makes of that set, and the invariant what a row *)
(* and the absence of one mean.                                            *)
(***************************************************************************)
EXTENDS IssueLog, SequenceTheorems, FiniteSetTheorems, WellFoundedInduction, TLAPS

Rows(log) == {log[i] : i \in DOMAIN log}
NoTwins(log) == \A i, j \in DOMAIN log : log[i].code = log[j].code => i = j

\* A set of naturals that is not empty has a least element.
LEMMA LeastOf ==
  ASSUME NEW T, T \subseteq Nat, T # {}
  PROVE  \E x \in T : \A y \in T : x <= y
  <1> DEFINE R == OpToRel(<, Nat)
  <1>1. IsWellFoundedOn(R, Nat)
    BY NatLessThanWellFounded
  <1> HIDE DEF R
  <1>2. PICK x \in T : \A y \in T : <<y, x>> \notin R
    BY <1>1, WFMin
  <1>3. \A y \in T : y < x => <<y, x>> \in R
    BY <1>2 DEF R, OpToRel
  <1>4. \A y \in T : x \in Nat /\ y \in Nat /\ ~(y < x)
    BY <1>2, <1>3
  <1> QED
    BY <1>2, <1>4

-----------------------------------------------------------------------------
(* What the operations make of the rows.                                   *)

\* Removing a row by its place removes that row and no other.
LEMMA RemoveOne ==
  ASSUME NEW S, NEW log \in Seq(S), NEW k \in 1..Len(log)
  PROVE  /\ RemoveAt(log, k) \in Seq(S)
         /\ Len(RemoveAt(log, k)) = Len(log) - 1
         /\ \A i \in 1..Len(log) - 1 :
                RemoveAt(log, k)[i] = log[IF i < k THEN i ELSE i + 1]
  <1> DEFINE a == SubSeq(log, 1, k - 1)
             b == SubSeq(log, k + 1, Len(log))
             n == Len(log)
  <1>1. n \in Nat /\ k \in 1..n /\ \A i \in 1..n : log[i] \in S
    BY ElementOfSeq, LenProperties
  <1>2. /\ a \in Seq(S) /\ Len(a) = k - 1
        /\ \A i \in 1..k - 1 : a[i] = log[i]
    BY <1>1, SubSeqProperties
  <1>3. /\ b \in Seq(S) /\ Len(b) = n - k
        /\ \A i \in 1..n - k : b[i] = log[k + i]
    <2>1. /\ b \in Seq(S) /\ Len(b) = IF k + 1 <= n THEN n - (k + 1) + 1 ELSE 0
          /\ \A i \in 1..n - (k + 1) + 1 : b[i] = log[(k + 1) + i - 1]
      BY <1>1, SubSeqProperties
    <2> HIDE DEF b
    <2> QED
      BY <1>1, <2>1
  <1>4. RemoveAt(log, k) = a \o b
    BY DEF RemoveAt
  <1> HIDE DEF a, b
  <1>5. /\ a \o b \in Seq(S) /\ Len(a \o b) = n - 1
        /\ \A i \in 1..n - 1 : (a \o b)[i] = IF i <= k - 1 THEN a[i] ELSE b[i - (k - 1)]
    BY <1>1, <1>2, <1>3, ConcatProperties
  <1>6. \A i \in 1..n - 1 : (a \o b)[i] = log[IF i < k THEN i ELSE i + 1]
    BY <1>1, <1>2, <1>3, <1>5
  <1> QED
    BY <1>4, <1>5, <1>6
\* What is left is the other rows, each still the only one of its condition.
LEMMA RemovedRows ==
  ASSUME NEW S, NEW log \in Seq(S), NEW k \in 1..Len(log), NoTwins(log)
  PROVE  /\ NoTwins(RemoveAt(log, k))
         /\ Rows(RemoveAt(log, k)) = Rows(log) \ {log[k]}
  <1> DEFINE out == RemoveAt(log, k)
             n == Len(log)
             from(i) == IF i < k THEN i ELSE i + 1
  <1>1. n \in Nat /\ DOMAIN log = 1..n /\ k \in 1..n
    BY LenProperties
  <1>2. /\ DOMAIN out = 1..n - 1
        /\ \A i \in 1..n - 1 : out[i] = log[from(i)]
    BY <1>1, RemoveOne, LenProperties
  <1> HIDE DEF out
  <1>3. \A i \in 1..n - 1 : from(i) \in 1..n /\ from(i) # k
    BY <1>1
  <1>4. \A i, j \in 1..n - 1 : from(i) = from(j) => i = j
    BY <1>1
  <1>5. \A j \in 1..n : j # k => \E i \in 1..n - 1 : from(i) = j
    <2>1. ASSUME NEW j \in 1..n, j < k
          PROVE  j \in 1..n - 1 /\ from(j) = j
      BY <1>1, <2>1
    <2>2. ASSUME NEW j \in 1..n, k < j
          PROVE  j - 1 \in 1..n - 1 /\ from(j - 1) = j
      BY <1>1, <2>2
    <2>3. \A j \in 1..n : j # k => j < k \/ k < j
      BY <1>1
    <2> HIDE DEF from
    <2> QED
      BY <2>1, <2>2, <2>3
  <1> HIDE DEF from
  <1>6. NoTwins(out)
    BY <1>1, <1>2, <1>3, <1>4 DEF NoTwins
  <1>7. \A j \in 1..n : log[j] = log[k] => j = k
    BY <1>1 DEF NoTwins
  <1>8. Rows(out) = Rows(log) \ {log[k]}
    <2>1. ASSUME NEW r \in Rows(out)
          PROVE  r \in Rows(log) \ {log[k]}
      BY <1>1, <1>2, <1>3, <1>7 DEF Rows
    <2>2. ASSUME NEW r \in Rows(log) \ {log[k]}
          PROVE  r \in Rows(out)
      <3>1. PICK j \in 1..n : r = log[j] /\ j # k
        BY <1>1 DEF Rows
      <3>2. PICK i \in 1..n - 1 : from(i) = j
        BY <1>5, <3>1
      <3> QED
        BY <1>2, <3>1, <3>2 DEF Rows
    <2> QED
      BY <2>1, <2>2
  <1> QED
    BY <1>6, <1>8 DEF out

\* Appending a row of a condition that has none.
LEMMA AppendedRows ==
  ASSUME NEW S, NEW log \in Seq(S), NEW r \in S, NoTwins(log),
         r.code \notin Held(log)
  PROVE  /\ Append(log, r) \in Seq(S) /\ Len(Append(log, r)) = Len(log) + 1
         /\ NoTwins(Append(log, r))
         /\ Rows(Append(log, r)) = Rows(log) \cup {r}
  <1> DEFINE out == Append(log, r)
             n == Len(log)
  <1>1. n \in Nat /\ DOMAIN log = 1..n
    BY LenProperties
  <1>2. /\ out \in Seq(S) /\ Len(out) = n + 1 /\ DOMAIN out = 1..n + 1
        /\ \A i \in 1..n : out[i] = log[i]
        /\ out[n + 1] = r
    BY AppendProperties, LenProperties
  <1> HIDE DEF out
  <1>3. \A i \in 1..n + 1 : i \in 1..n \/ i = n + 1
    BY <1>1
  <1>4. \A i \in 1..n : log[i].code # r.code
    BY <1>1 DEF Held
  <1>5. NoTwins(out)
    BY <1>1, <1>2, <1>3, <1>4 DEF NoTwins
  <1>6. 1..n \subseteq 1..n + 1 /\ n + 1 \in 1..n + 1
    BY <1>1
  <1>7. Rows(out) = Rows(log) \cup {r}
    BY <1>1, <1>2, <1>3, <1>6 DEF Rows
  <1> QED
    BY <1>2, <1>5, <1>7 DEF out

\* The least recent row is a row, and no row is less recent.
LEMMA StalestIsLeast ==
  ASSUME NEW log \in Seq(PeerIssue), log # <<>>
  PROVE  /\ Stalest(log) \in 1..Len(log)
         /\ \A j \in 1..Len(log) :
                \/ log[Stalest(log)].lastSeen < log[j].lastSeen
                \/ log[Stalest(log)].lastSeen = log[j].lastSeen /\ Stalest(log) <= j
  <1> DEFINE n == Len(log)
             at == {log[i].lastSeen : i \in 1..n}
  <1>1. n \in Nat \ {0} /\ DOMAIN log = 1..n
    BY EmptySeq, LenProperties
  <1>2. \A i \in 1..n : log[i].lastSeen \in Nat
    <2>1. \A i \in 1..n : log[i] \in PeerIssue
      BY ElementOfSeq
    <2>2. MaxTime \in Nat
      BY IssueAssumption
    <2> QED
      BY <2>1, <2>2 DEF PeerIssue
  <1>3. at \subseteq Nat /\ at # {}
    <2>1. 1 \in 1..n
      BY <1>1
    <2> QED
      BY <1>2, <2>1
  <1>4. PICK t \in at : \A y \in at : t <= y
    <2> HIDE DEF at
    <2> QED
      BY <1>3, LeastOf
  <1> DEFINE I == {i \in 1..n : log[i].lastSeen = t}
  <1>5. I \subseteq Nat /\ I # {}
    BY <1>1, <1>4
  <1>6. PICK i \in I : \A j \in I : i <= j
    <2> HIDE DEF I
    <2> QED
      BY <1>5, LeastOf
  <1>7. ASSUME NEW j \in 1..n
        PROVE  \/ log[i].lastSeen < log[j].lastSeen
               \/ log[i].lastSeen = log[j].lastSeen /\ i <= j
    <2>1. log[i].lastSeen = t /\ t <= log[j].lastSeen
      BY <1>4, <1>6
    <2>2. CASE log[j].lastSeen = t
      BY <1>6, <2>1, <2>2
    <2>3. CASE log[j].lastSeen # t
      <3>1. t \in Nat /\ log[j].lastSeen \in Nat
        BY <1>2, <1>3, <1>4
      <3> QED
        BY <2>1, <2>3, <3>1
    <2> QED
      BY <2>2, <2>3
  <1> QED
    BY <1>1, <1>6, <1>7 DEF Stalest

\* f copies the rows of log but those of c, up to each place in turn.
Scans(f, log, c, m) ==
    f = [n \in 0..m |->
            IF n = 0 THEN <<>>
            ELSE IF log[n].code = c THEN f[n - 1] ELSE Append(f[n - 1], log[n])]

LEMMA ScanExists ==
  ASSUME NEW log, NEW c, NEW size \in Nat
  PROVE  \E f : Scans(f, log, c, size)
  <1> DEFINE Bad == {m \in Nat : ~ \E f : Scans(f, log, c, m)}
             Next1(f, n) == IF log[n].code = c THEN f[n - 1] ELSE Append(f[n - 1], log[n])
  <1> SUFFICES ASSUME Bad # {} PROVE FALSE
    OBVIOUS
  <1>1. PICK m \in Bad : \A y \in Bad : m <= y
    <2> HIDE DEF Bad
    <2>1. Bad \subseteq Nat
      BY DEF Bad
    <2> QED
      BY <2>1, LeastOf
  <1>2. CASE m = 0
    <2> DEFINE f == [n \in 0..0 |-> <<>>]
    <2>1. 0..0 = {0}
      OBVIOUS
    <2>2. f = [n \in 0..0 |-> IF n = 0 THEN <<>> ELSE Next1(f, n)]
      BY <2>1
    <2>3. Scans(f, log, c, 0)
      BY <2>2 DEF Scans
    <2> QED
      BY <1>1, <1>2, <2>3
  <1>3. CASE m # 0
    <2>1. m \in Nat /\ m - 1 \in Nat /\ m - 1 \notin Bad
      BY <1>1, <1>3
    <2>2. PICK f : Scans(f, log, c, m - 1)
      BY <2>1
    <2> DEFINE g == [n \in 0..m |-> IF n = m THEN Next1(f, m) ELSE f[n]]
    <2>3. \A n \in 0..m - 1 : n \in 0..m /\ n # m
      BY <2>1
    <2>4. ASSUME NEW n \in 0..m
          PROVE  g[n] = IF n = 0 THEN <<>> ELSE Next1(g, n)
      <3>1. CASE n = m
        <4>1. m - 1 \in 0..m - 1 /\ g[m - 1] = f[m - 1]
          BY <2>1, <2>3
        <4> QED
          BY <1>3, <3>1, <4>1
      <3>2. CASE n # m
        <4>1. n \in 0..m - 1
          BY <2>1, <3>2
        <4>2. f[n] = IF n = 0 THEN <<>> ELSE Next1(f, n)
          BY <2>2, <4>1 DEF Scans
        <4>3. n # 0 => n - 1 \in 0..m - 1
          BY <2>1, <4>1
        <4>4. n # 0 => g[n - 1] = f[n - 1]
          BY <2>3, <4>3
        <4> QED
          BY <3>2, <4>2, <4>4
      <3> QED
        BY <3>1, <3>2
    <2>5. g = [n \in 0..m |-> IF n = 0 THEN <<>> ELSE Next1(g, n)]
      <3>1. g = [n \in 0..m |-> g[n]]
        OBVIOUS
      <3> HIDE DEF g
      <3> QED
        BY <2>4, <3>1
    <2> HIDE DEF g
    <2>6. Scans(g, log, c, m)
      BY <2>5 DEF Scans
    <2> QED
      BY <1>1, <2>6
  <1> QED
    BY <1>2, <1>3

\* Clearing a condition removes its row and leaves every other.
LEMMA ClearedRows ==
  ASSUME NEW log \in Seq(PeerIssue), NEW c, NoTwins(log)
  PROVE  /\ ClearIssue(log, c) \in Seq(PeerIssue)
         /\ Len(ClearIssue(log, c)) <= Len(log)
         /\ NoTwins(ClearIssue(log, c))
         /\ Rows(ClearIssue(log, c)) = {r \in Rows(log) : r.code # c}
  <1> DEFINE size == Len(log)
  <1>1. size \in Nat /\ DOMAIN log = 1..size /\ \A i \in 1..size : log[i] \in PeerIssue
    BY LenProperties, ElementOfSeq
  <1>2. PICK f : Scans(f, log, c, size) /\ ClearIssue(log, c) = f[size]
    <2>1. \E f : Scans(f, log, c, size)
      BY <1>1, ScanExists
    <2> DEFINE f == CHOOSE f : Scans(f, log, c, size)
    <2>2. Scans(f, log, c, size)
      BY <2>1
    <2>3. ClearIssue(log, c) = f[size]
      BY DEF ClearIssue, Scans
    <2> QED
      BY <2>2, <2>3
  <1>3. f[0] = <<>>
    BY <1>1, <1>2 DEF Scans
  <1>4. ASSUME NEW n \in 1..size
        PROVE  f[n] = IF log[n].code = c THEN f[n - 1] ELSE Append(f[n - 1], log[n])
    <2>1. n \in 0..size /\ n # 0
      BY <1>1
    <2> QED
      BY <1>2, <2>1 DEF Scans
  <1> DEFINE Exact(s, n) ==
                /\ s \in Seq(PeerIssue) /\ Len(s) <= n /\ NoTwins(s)
                /\ Rows(s) = {r \in {log[i] : i \in 1..n} : r.code # c}
             Bad == {n \in 0..size : ~ Exact(f[n], n)}
  <1>5. Bad = {}
    <2> SUFFICES ASSUME Bad # {} PROVE FALSE
      OBVIOUS
    <2>1. PICK m \in Bad : \A y \in Bad : m <= y
      <3>1. Bad \subseteq Nat
        BY <1>1
      <3> HIDE DEF Bad
      <3> QED
        BY <3>1, LeastOf
    <2>2. CASE m = 0
      <3>1. Rows(<<>>) = {} /\ NoTwins(<<>>) /\ <<>> \in Seq(PeerIssue) /\ Len(<<>>) = 0
        BY EmptySeq DEF Rows, NoTwins
      <3>2. 1..0 = {}
        OBVIOUS
      <3> QED
        BY <1>3, <2>1, <2>2, <3>1, <3>2
    <2>3. CASE m # 0
      <3>1. m \in 1..size /\ m - 1 \in 0..size /\ m - 1 \notin Bad
        <4>1. m \in 0..size
          BY <2>1
        <4> HIDE DEF Exact, Bad
        <4>2. m \in 1..size /\ m - 1 \in 0..size /\ ~(m <= m - 1)
          BY <1>1, <2>3, <4>1
        <4> QED
          BY <2>1, <4>2
      <3>2. Exact(f[m - 1], m - 1)
        BY <3>1
      <3>3. {log[i] : i \in 1..m} = {log[i] : i \in 1..m - 1} \cup {log[m]}
        <4>1. 1..m = (1..m - 1) \cup {m}
          BY <1>1, <3>1
        <4> QED
          BY <4>1
      <3>4. CASE log[m].code = c
        <4>1. f[m] = f[m - 1]
          BY <1>4, <3>1, <3>4
        <4>2. Rows(f[m]) = {r \in {log[i] : i \in 1..m} : r.code # c}
          BY <3>2, <3>3, <3>4, <4>1
        <4>3. Len(f[m]) <= m
          <5>1. Len(f[m]) \in Nat
            BY <3>2, <4>1, LenProperties
          <5> HIDE DEF Exact
          <5> QED
            BY <1>1, <3>1, <3>2, <4>1, <5>1 DEF Exact
        <4> QED
          BY <2>1, <3>2, <4>1, <4>2, <4>3
      <3>5. CASE log[m].code # c
        <4> DEFINE s == f[m - 1]
        <4>1. f[m] = Append(s, log[m])
          BY <1>4, <3>1, <3>5
        <4>2. log[m].code \notin Held(s)
          <5>1. ASSUME NEW j \in DOMAIN s, s[j].code = log[m].code
                PROVE  FALSE
            <6>1. s[j] \in Rows(s)
              BY DEF Rows
            <6>2. PICK i \in 1..m - 1 : s[j] = log[i]
              BY <3>2, <6>1
            <6>3. i \in 1..size /\ m \in 1..size /\ i # m
              BY <1>1, <3>1
            <6> QED
              BY <1>1, <5>1, <6>2, <6>3 DEF NoTwins
          <5> QED
            BY <5>1 DEF Held
        <4>3. s \in Seq(PeerIssue) /\ NoTwins(s) /\ log[m] \in PeerIssue
          BY <1>1, <3>1, <3>2
        <4>4. /\ f[m] \in Seq(PeerIssue) /\ Len(f[m]) = Len(s) + 1 /\ NoTwins(f[m])
              /\ Rows(f[m]) = Rows(s) \cup {log[m]}
          BY <4>1, <4>2, <4>3, AppendedRows
        <4>5. Len(f[m]) <= m
          <5>1. Len(s) \in Nat /\ Len(s) <= m - 1
            BY <3>2, LenProperties
          <5>2. m \in Nat
            BY <1>1, <3>1
          <5> QED
            BY <4>4, <5>1, <5>2
        <4>6. Rows(f[m]) = {r \in {log[i] : i \in 1..m} : r.code # c}
          BY <3>2, <3>3, <3>5, <4>4
        <4> QED
          BY <2>1, <4>4, <4>5, <4>6
      <3> QED
        BY <3>4, <3>5
    <2> QED
      BY <2>2, <2>3
  <1>6. Exact(f[size], size)
    BY <1>1, <1>5
  <1> QED
    BY <1>1, <1>2, <1>6 DEF Rows

\* A row of this condition is counted on; every other row stays as it is.
LEMMA CountedRows ==
  ASSUME NEW log \in Seq(PeerIssue), NEW c \in Held(log), NEW t \in 0..MaxTime, NoTwins(log)
  PROVE  /\ CoalesceIssue(log, c, t) \in Seq(PeerIssue)
         /\ Len(CoalesceIssue(log, c, t)) = Len(log)
         /\ NoTwins(CoalesceIssue(log, c, t))
         /\ Rows(CoalesceIssue(log, c, t)) =
                {IF r.code = c THEN Fold(r, t) ELSE r : r \in Rows(log)}
  <1> DEFINE n == Len(log)
             step(r) == IF r.code = c THEN Fold(r, t) ELSE r
             out == [i \in 1..n |-> step(log[i])]
  <1>1. n \in Nat /\ DOMAIN log = 1..n /\ \A i \in 1..n : log[i] \in PeerIssue
    BY LenProperties, ElementOfSeq
  <1>2. CoalesceIssue(log, c, t) = out
    BY <1>1 DEF CoalesceIssue, RowOf, Held
  <1>3. ASSUME NEW r \in PeerIssue
        PROVE  step(r) \in PeerIssue /\ step(r).code = r.code
    <2>1. (r.count + 1) % CountLimit \in 0..CountLimit - 1
      <3>1. CountLimit \in Nat \ {0} /\ r.count \in Nat
        BY IssueAssumption DEF PeerIssue
      <3> QED
        BY <3>1
    <2> QED
      BY <2>1 DEF Fold, PeerIssue
  <1> HIDE DEF step
  <1>4. \A i \in 1..n : step(log[i]) \in PeerIssue /\ step(log[i]).code = log[i].code
    BY <1>1, <1>3
  <1>5. out \in Seq(PeerIssue) /\ DOMAIN out = 1..n /\ Len(out) = n
    <2>1. out \in [1..n -> PeerIssue]
      BY <1>4
    <2> HIDE DEF out
    <2> QED
      BY <1>1, <2>1
  <1>6. \A i \in 1..n : out[i] = step(log[i])
    OBVIOUS
  <1> HIDE DEF out
  <1>7. NoTwins(out)
    BY <1>1, <1>4, <1>5, <1>6 DEF NoTwins
  <1>8. Rows(out) = {step(r) : r \in Rows(log)}
    BY <1>1, <1>5, <1>6 DEF Rows
  <1> QED
    BY <1>2, <1>5, <1>7, <1>8 DEF step

NewRow(c, t) == [code |-> c, firstSeen |-> t, lastSeen |-> t, count |-> 1 % CountLimit]

\* A first occurrence is added; at the limit the row that gives way is an old
\* one, and no old row is less recent.
LEMMA FirstRows ==
  ASSUME NEW log \in Seq(PeerIssue), NEW c \in Codes, NEW t \in 0..MaxTime, NoTwins(log),
         c \notin Held(log), Len(log) <= MaxPeerIssues,
         \A r \in Rows(log) : r.lastSeen <= t
  PROVE  /\ CoalesceIssue(log, c, t) \in Seq(PeerIssue)
         /\ Len(CoalesceIssue(log, c, t)) <= MaxPeerIssues
         /\ NoTwins(CoalesceIssue(log, c, t))
         /\ \/ Rows(CoalesceIssue(log, c, t)) = Rows(log) \cup {NewRow(c, t)}
            \/ \E s \in Rows(log) :
                /\ \A r \in Rows(log) : s.lastSeen <= r.lastSeen
                /\ Rows(CoalesceIssue(log, c, t)) = (Rows(log) \ {s}) \cup {NewRow(c, t)}
  <1> DEFINE new == NewRow(c, t)
             long == Append(log, new)
             n == Len(log)
             k == Stalest(long)
  <1>1. new \in PeerIssue /\ new.code = c /\ new.lastSeen = t
    <2>1. 1 % CountLimit \in 0..CountLimit - 1
      <3>1. CountLimit \in Nat \ {0}
        BY IssueAssumption
      <3> QED
        BY <3>1
    <2> QED
      BY <2>1 DEF PeerIssue, NewRow
  <1>2. CoalesceIssue(log, c, t) = Evict(long)
    BY DEF CoalesceIssue, RowOf, Held, NewRow
  <1>3. n \in Nat /\ DOMAIN log = 1..n /\ MaxPeerIssues \in Nat \ {0}
    BY LenProperties, IssueAssumption
  <1> HIDE DEF new
  <1>4. /\ long \in Seq(PeerIssue) /\ Len(long) = n + 1 /\ NoTwins(long)
        /\ Rows(long) = Rows(log) \cup {new}
        /\ \A i \in 1..n : long[i] = log[i]
        /\ long[n + 1] = new
    BY <1>1, AppendedRows, AppendProperties
  <1> HIDE DEF long
  <1>5. CASE n + 1 <= MaxPeerIssues
    <2>1. Evict(long) = long
      BY <1>3, <1>4, <1>5 DEF Evict
    <2> QED
      BY <1>2, <1>4, <1>5, <2>1 DEF new
  <1>6. CASE n + 1 > MaxPeerIssues
    <2>1. Evict(long) = RemoveAt(long, k) /\ n = MaxPeerIssues
      BY <1>3, <1>4, <1>6 DEF Evict
    <2>2. long # <<>>
      BY <1>3, <1>4, EmptySeq
    <2>3. /\ k \in 1..n + 1
          /\ \A j \in 1..n + 1 : \/ long[k].lastSeen < long[j].lastSeen
                                 \/ long[k].lastSeen = long[j].lastSeen /\ k <= j
      BY <1>4, <2>2, StalestIsLeast
    <2> HIDE DEF k
    <2>4. \A i \in 1..n : log[i].lastSeen \in Nat /\ log[i].lastSeen <= t /\ t \in Nat
      <3>1. \A i \in 1..n : log[i] \in PeerIssue /\ log[i] \in Rows(log)
        BY <1>3, ElementOfSeq DEF Rows
      <3>2. MaxTime \in Nat
        BY IssueAssumption
      <3> QED
        BY <3>1, <3>2 DEF PeerIssue
    <2>5. k \in 1..n
      <3>1. 1 \in 1..n /\ 1 \in 1..n + 1
        BY <1>3, <2>1
      <3>2. CASE k = n + 1
        <4>1. t < log[1].lastSeen \/ n + 1 <= 1
          BY <1>1, <1>4, <2>3, <3>1, <3>2
        <4> QED
          BY <1>3, <2>1, <2>4, <3>1, <4>1
      <3> QED
        BY <1>3, <2>3, <3>2
    <2> DEFINE s == log[k]
    <2>6. \A r \in Rows(log) : s.lastSeen <= r.lastSeen
      <3>1. ASSUME NEW j \in 1..n
            PROVE  log[k].lastSeen <= log[j].lastSeen
        <4>1. j \in 1..n + 1
          BY <1>3
        <4>2. log[k].lastSeen < log[j].lastSeen \/ log[k].lastSeen = log[j].lastSeen
          BY <1>4, <2>3, <2>5, <4>1
        <4> QED
          BY <2>4, <2>5, <4>2
      <3> QED
        BY <1>3, <3>1 DEF Rows
    <2>7. /\ RemoveAt(long, k) \in Seq(PeerIssue)
          /\ Len(RemoveAt(long, k)) = n
          /\ NoTwins(RemoveAt(long, k))
          /\ Rows(RemoveAt(long, k)) = Rows(long) \ {s}
      <3>1. k \in 1..Len(long) /\ long[k] = s /\ Len(long) - 1 = n
        BY <1>3, <1>4, <2>3, <2>5
      <3>2. long \in Seq(PeerIssue) /\ NoTwins(long)
        BY <1>4
      <3>3. RemoveAt(long, k) \in Seq(PeerIssue) /\ Len(RemoveAt(long, k)) = n
        BY <3>1, <3>2, RemoveOne
      <3>4. NoTwins(RemoveAt(long, k)) /\ Rows(RemoveAt(long, k)) = Rows(long) \ {s}
        BY <3>1, <3>2, RemovedRows
      <3> QED
        BY <3>3, <3>4
    <2>8. s \in Rows(log) /\ s # new
      <3>1. s \in Rows(log) /\ s.code \in Held(log)
        BY <1>3, <2>5 DEF Rows, Held
      <3> QED
        BY <1>1, <3>1
    <2>9. Rows(RemoveAt(long, k)) = (Rows(log) \ {s}) \cup {new}
      BY <1>4, <2>7, <2>8
    <2>10. Len(RemoveAt(long, k)) <= MaxPeerIssues
      BY <1>3, <2>1, <2>7
    <2> HIDE DEF s
    <2> QED
      BY <1>2, <2>1, <2>6, <2>7, <2>8, <2>9, <2>10 DEF new
  <1> QED
    BY <1>3, <1>5, <1>6

-----------------------------------------------------------------------------
(* The invariant.                                                          *)

\* What a row means: its condition occurred, last when the row was last seen, and
\* as often as the row counts, unless the row before it was evicted.
RowsMean ==
    \A r \in Rows(issues) :
        /\ raised[r.code] > 0 /\ r.lastSeen = latest[r.code]
        /\ r.code \notin evicted => r.count = raised[r.code] % CountLimit

\* What the absence of a row means: the condition did not occur, or its row was
\* evicted, and then every row there is was seen since.
AbsenceMeans ==
    \A c \in Codes \ Held(issues) :
        /\ c \in evicted \/ raised[c] = 0
        /\ c \in evicted => \A r \in Rows(issues) : latest[c] <= r.lastSeen

LogInv ==
    /\ TypeOK
    /\ NoTwins(issues)
    /\ RowsMean
    /\ AbsenceMeans
    /\ \A c \in Codes : latest[c] <= now
    /\ FirstOnce

\* Counting wraps: one more than a count is the count of one more.
LEMMA WrappedCount ==
  ASSUME NEW n \in Nat, NEW limit \in Nat \ {0}
  PROVE  ((n % limit) + 1) % limit = (n + 1) % limit
  <1> DEFINE q == n \div limit
             r == n % limit
  <1>1. q \in Nat /\ r \in 0..limit - 1 /\ n = limit * q + r
    OBVIOUS
  <1> HIDE DEF q, r
  <1>2. CASE r + 1 < limit
    <2>1. r + 1 \in 0..limit - 1 /\ n + 1 = limit * q + (r + 1)
      BY <1>1, <1>2
    <2>2. (n + 1) % limit = r + 1
      BY <1>1, <2>1
    <2>3. (r + 1) % limit = r + 1
      BY <2>1
    <2> QED
      BY <2>2, <2>3 DEF r
  <1>3. CASE r + 1 = limit
    <2>1. n + 1 = limit * (q + 1)
      BY <1>1, <1>3
    <2>2. (n + 1) % limit = 0
      BY <1>1, <2>1
    <2>3. (r + 1) % limit = 0
      BY <1>3
    <2> QED
      BY <2>2, <2>3 DEF r
  <1> QED
    BY <1>1, <1>2, <1>3

LEMMA InitLog == Init => LogInv
  <1> SUFFICES ASSUME Init PROVE LogInv
    OBVIOUS
  <1>1. issues = <<>> /\ issues \in Seq(PeerIssue) /\ Len(issues) = 0
    BY EmptySeq DEF Init
  <1>2. Rows(issues) = {} /\ NoTwins(issues) /\ Held(issues) = {}
    BY <1>1 DEF Rows, NoTwins, Held
  <1>3. {MaxRaises, MaxClears, MaxTime, MaxPeerIssues} \subseteq Nat
    BY IssueAssumption
  <1>4. TypeOK
    BY <1>1, <1>3 DEF Init, TypeOK
  <1> QED
    BY <1>2, <1>4 DEF Init, LogInv, RowsMean, AbsenceMeans, FirstOnce

\* What LogInv and a row say of each other.
LEMMA RowFacts ==
  ASSUME LogInv
  PROVE  /\ \A r \in Rows(issues) :
                /\ r \in PeerIssue /\ r.code \in Codes /\ r.code \in Held(issues)
                /\ r.lastSeen \in Nat /\ r.lastSeen <= now
         /\ \A c \in Held(issues) : c \in Codes /\ raised[c] > 0 /\ \E r \in Rows(issues) : r.code = c
         /\ \A c \in Codes : raised[c] > 0 => c \in Held(issues) \/ c \in evicted
  <1>1. \A i \in DOMAIN issues : issues[i] \in PeerIssue
    BY LenProperties, ElementOfSeq DEF LogInv, TypeOK
  <1>2. MaxTime \in Nat
    BY IssueAssumption
  <1>3. \A r \in Rows(issues) : r \in PeerIssue /\ r.code \in Codes /\ r.code \in Held(issues)
    BY <1>1 DEF Rows, Held, PeerIssue
  <1>4. \A r \in Rows(issues) : r.lastSeen \in Nat /\ r.lastSeen <= now
    BY <1>2, <1>3 DEF PeerIssue, LogInv, RowsMean
  <1>5. \A c \in Held(issues) : \E r \in Rows(issues) : r.code = c
    BY DEF Held, Rows
  <1>6. \A c \in Held(issues) : c \in Codes /\ raised[c] > 0
    BY <1>3, <1>5 DEF LogInv, RowsMean
  <1>7. \A c \in Codes : raised[c] \in Nat
    BY IssueAssumption DEF LogInv, TypeOK
  <1>8. \A c \in Codes : raised[c] > 0 => c \in Held(issues) \/ c \in evicted
    BY <1>7 DEF LogInv, AbsenceMeans
  <1> QED
    BY <1>3, <1>4, <1>5, <1>6, <1>8

-----------------------------------------------------------------------------
(* Every step keeps it.                                                    *)

\* What every occurrence changes beside the history.
LEMMA RaiseTypes ==
  ASSUME LogInv, NEW c \in Codes, Raise(c),
         issues' \in Seq(PeerIssue), Len(issues') <= MaxPeerIssues
  PROVE  /\ TypeOK'
         /\ \A d \in Codes : raised'[d] = IF d = c THEN raised[c] + 1 ELSE raised[d]
         /\ \A d \in Codes : latest'[d] = IF d = c THEN now ELSE latest[d]
         /\ \A d \in Codes : latest'[d] <= now'
         /\ raised[c] \in Nat /\ raised[c] + 1 > 0 /\ now \in Nat /\ now' = now
  <1>1. /\ raised \in [Codes -> 0..MaxRaises] /\ latest \in [Codes -> 0..MaxTime]
        /\ pending \in [Codes -> Nat] /\ told \in [Codes -> Nat] /\ now \in 0..MaxTime
        /\ MaxRaises \in Nat /\ MaxTime \in Nat
    BY IssueAssumption DEF LogInv, TypeOK
  <1>2. raised[c] \in Nat /\ raised[c] + 1 > 0 /\ now \in Nat
    BY <1>1
  <1>3. raised[c] + 1 \in 0..MaxRaises
    BY <1>1 DEF Raise
  <1>4. raised' \in [Codes -> 0..MaxRaises] /\ latest' \in [Codes -> 0..MaxTime]
    BY <1>1, <1>3 DEF Raise
  <1>5. pending' \in [Codes -> Nat] /\ told' \in [Codes -> Nat]
    BY <1>1 DEF Raise
  <1>6. evicted' \subseteq Codes
    BY RowFacts DEF Raise, LogInv, TypeOK
  <1>7. /\ \A d \in Codes : raised'[d] = IF d = c THEN raised[c] + 1 ELSE raised[d]
        /\ \A d \in Codes : latest'[d] = IF d = c THEN now ELSE latest[d]
    BY <1>1 DEF Raise
  <1>8. now' = now /\ clears' = clears
    BY DEF Raise
  <1>9. \A d \in Codes : latest'[d] <= now'
    BY <1>2, <1>7, <1>8 DEF LogInv
  <1>10. TypeOK'
    BY <1>4, <1>5, <1>6, <1>8 DEF LogInv, TypeOK
  <1> QED
    BY <1>2, <1>7, <1>8, <1>9, <1>10

\* The conditions held are those of the rows.
LEMMA HeldOfRows ==
  ASSUME NEW log
  PROVE  Held(log) = {r.code : r \in Rows(log)}
  BY DEF Held, Rows

LEMMA RepeatKeeps ==
  ASSUME LogInv, NEW c \in Held(issues), Raise(c)
  PROVE  LogInv'
  <1> DEFINE step(r) == IF r.code = c THEN Fold(r, now) ELSE r
  <1>1. c \in Codes /\ now \in 0..MaxTime /\ issues \in Seq(PeerIssue) /\ NoTwins(issues)
    BY RowFacts DEF LogInv, TypeOK
  <1>2. /\ issues' \in Seq(PeerIssue) /\ Len(issues') = Len(issues) /\ NoTwins(issues')
        /\ Rows(issues') = {step(r) : r \in Rows(issues)}
    BY <1>1, CountedRows DEF Raise
  <1>3. Len(issues') <= MaxPeerIssues
    BY <1>2 DEF LogInv, TypeOK
  <1>4. \A r \in Rows(issues) :
            /\ step(r).code = r.code
            /\ r.code = c => /\ step(r).lastSeen = now
                             /\ step(r).count = (r.count + 1) % CountLimit
            /\ r.code # c => step(r) = r
    BY RowFacts DEF Fold, PeerIssue
  <1> HIDE DEF step
  <1>5. Held(issues') = Held(issues)
    <2>1. Held(issues') = {r.code : r \in Rows(issues')}
      BY HeldOfRows
    <2>2. Held(issues) = {r.code : r \in Rows(issues)}
      BY HeldOfRows
    <2>3. {r.code : r \in Rows(issues')} = {step(r).code : r \in Rows(issues)}
      BY <1>2
    <2> QED
      BY <1>4, <2>1, <2>2, <2>3
  <1>6. evicted' = evicted /\ told' = told
    <2>1. \A d \in Codes : told[d] \in Nat /\ told[d] + 0 = told[d]
      BY DEF LogInv, TypeOK
    <2>2. told' = [told EXCEPT ![c] = told[c]]
      BY <1>1, <2>1 DEF Raise, IsFirst
    <2>3. told \in [Codes -> Nat]
      BY DEF LogInv, TypeOK
    <2>4. told' = told
      BY <1>1, <2>2, <2>3
    <2> QED
      BY <1>5, <2>4 DEF Raise
  <1>7. /\ TypeOK'
        /\ \A d \in Codes : raised'[d] = IF d = c THEN raised[c] + 1 ELSE raised[d]
        /\ \A d \in Codes : latest'[d] = IF d = c THEN now ELSE latest[d]
        /\ \A d \in Codes : latest'[d] <= now'
        /\ raised[c] \in Nat /\ raised[c] + 1 > 0 /\ now \in Nat /\ now' = now
    BY <1>1, <1>2, <1>3, RaiseTypes
  <1>8. RowsMean'
    <2>1. ASSUME NEW r \in Rows(issues)
          PROVE  /\ raised'[step(r).code] > 0 /\ step(r).lastSeen = latest'[step(r).code]
                 /\ step(r).code \notin evicted => step(r).count = raised'[step(r).code] % CountLimit
      <3>1. /\ r.code \in Codes /\ raised[r.code] > 0 /\ r.lastSeen = latest[r.code]
            /\ r.code \notin evicted => r.count = raised[r.code] % CountLimit
        BY RowFacts DEF LogInv, RowsMean
      <3>2. CASE r.code # c
        BY <1>4, <1>7, <3>1, <3>2
      <3>3. CASE r.code = c
        <4>1. ((raised[c] % CountLimit) + 1) % CountLimit = (raised[c] + 1) % CountLimit
          BY <1>7, WrappedCount, IssueAssumption
        <4>2. c \notin evicted => step(r).count = raised'[c] % CountLimit
          BY <1>1, <1>4, <1>7, <3>1, <3>3, <4>1
        <4>3. raised'[c] > 0 /\ step(r).lastSeen = latest'[c]
          BY <1>1, <1>4, <1>7, <3>3
        <4> QED
          BY <1>4, <3>3, <4>2, <4>3
      <3> QED
        BY <3>2, <3>3
    <2> QED
      BY <1>2, <1>6, <2>1 DEF RowsMean
  <1>9. AbsenceMeans'
    <2>1. ASSUME NEW d \in Codes \ Held(issues)
          PROVE  /\ d \in evicted \/ raised'[d] = 0
                 /\ d \in evicted => \A r \in Rows(issues) : latest'[d] <= step(r).lastSeen
      <3>1. /\ d # c /\ raised'[d] = raised[d] /\ latest'[d] = latest[d]
            /\ d \in evicted \/ raised[d] = 0
            /\ d \in evicted => \A r \in Rows(issues) : latest[d] <= r.lastSeen
            /\ latest[d] <= now
        BY <1>7 DEF LogInv, AbsenceMeans
      <3> QED
        BY <1>4, <3>1
    <2> QED
      BY <1>2, <1>5, <1>6, <2>1 DEF AbsenceMeans
  <1>10. FirstOnce'
    <2>1. ASSUME NEW d \in Codes \ evicted
          PROVE  told[d] = IF raised'[d] = 0 THEN 0 ELSE 1
      <3>1. told[d] = IF raised[d] = 0 THEN 0 ELSE 1
        BY DEF LogInv, FirstOnce
      <3>2. d = c => raised[d] > 0
        BY RowFacts
      <3>3. d = c => raised'[d] # 0 /\ raised[d] # 0
        BY <1>7, <3>2
      <3> QED
        BY <1>7, <3>1, <3>3
    <2> QED
      BY <1>6, <2>1 DEF FirstOnce
  <1> QED
    BY <1>2, <1>7, <1>8, <1>9, <1>10 DEF LogInv

LEMMA FirstKeeps ==
  ASSUME LogInv, NEW c \in Codes \ Held(issues), Raise(c)
  PROVE  LogInv'
  <1> DEFINE new == NewRow(c, now)
  <1>1. now \in 0..MaxTime /\ issues \in Seq(PeerIssue) /\ NoTwins(issues)
        /\ Len(issues) <= MaxPeerIssues
    BY DEF LogInv, TypeOK
  <1>2. \A r \in Rows(issues) : r.lastSeen <= now
    BY RowFacts
  <1>3. /\ issues' \in Seq(PeerIssue) /\ Len(issues') <= MaxPeerIssues /\ NoTwins(issues')
        /\ \/ Rows(issues') = Rows(issues) \cup {new}
           \/ \E s \in Rows(issues) :
                /\ \A r \in Rows(issues) : s.lastSeen <= r.lastSeen
                /\ Rows(issues') = (Rows(issues) \ {s}) \cup {new}
    <2>1. issues' = CoalesceIssue(issues, c, now) /\ c \in Codes /\ c \notin Held(issues)
      BY DEF Raise
    <2>2. /\ CoalesceIssue(issues, c, now) \in Seq(PeerIssue)
          /\ Len(CoalesceIssue(issues, c, now)) <= MaxPeerIssues
          /\ NoTwins(CoalesceIssue(issues, c, now))
          /\ \/ Rows(CoalesceIssue(issues, c, now)) = Rows(issues) \cup {new}
             \/ \E s \in Rows(issues) :
                /\ \A r \in Rows(issues) : s.lastSeen <= r.lastSeen
                /\ Rows(CoalesceIssue(issues, c, now)) = (Rows(issues) \ {s}) \cup {new}
      BY <1>1, <1>2, <2>1, FirstRows
    <2> HIDE DEF new
    <2> QED
      BY <2>1, <2>2
  <1>4. /\ TypeOK'
        /\ \A d \in Codes : raised'[d] = IF d = c THEN raised[c] + 1 ELSE raised[d]
        /\ \A d \in Codes : latest'[d] = IF d = c THEN now ELSE latest[d]
        /\ \A d \in Codes : latest'[d] <= now'
        /\ raised[c] \in Nat /\ raised[c] + 1 > 0 /\ now \in Nat /\ now' = now
    BY <1>3, RaiseTypes
  <1>5. /\ new.code = c /\ new.lastSeen = now /\ new.count = 1 % CountLimit
    BY DEF NewRow
  <1> HIDE DEF new
  <1>6. /\ Held(issues') = {r.code : r \in Rows(issues')}
        /\ Held(issues) = {r.code : r \in Rows(issues)}
    BY HeldOfRows
  <1>7. Rows(issues') \subseteq Rows(issues) \cup {new} /\ new \in Rows(issues') /\ c \in Held(issues')
    BY <1>3, <1>5, <1>6
  <1>8. \A d \in Codes \ Held(issues') : d # c /\ raised'[d] = raised[d] /\ latest'[d] = latest[d]
    BY <1>4, <1>7
  <1>9. evicted' = evicted \cup (Held(issues) \ Held(issues'))
    BY DEF Raise
  <1>10. RowsMean'
    <2>1. ASSUME NEW r \in Rows(issues')
          PROVE  /\ raised'[r.code] > 0 /\ r.lastSeen = latest'[r.code]
                 /\ r.code \notin evicted' => r.count = raised'[r.code] % CountLimit
      <3>1. CASE r = new
        <4>1. raised'[c] > 0 /\ r.lastSeen = latest'[c] /\ r.code = c
          BY <1>4, <1>5, <3>1
        <4>2. c \notin evicted' => raised[c] = 0
          BY <1>9 DEF LogInv, AbsenceMeans
        <4>3. c \notin evicted' => r.count = raised'[c] % CountLimit
          BY <1>4, <1>5, <3>1, <4>2
        <4> QED
          BY <4>1, <4>3
      <3>2. CASE r # new
        <4>1. /\ r \in Rows(issues) /\ r.code \in Codes /\ r.code # c
              /\ raised[r.code] > 0 /\ r.lastSeen = latest[r.code]
              /\ r.code \notin evicted => r.count = raised[r.code] % CountLimit
          BY <1>7, <3>2, RowFacts DEF LogInv, RowsMean
        <4> QED
          BY <1>4, <1>9, <4>1
      <3> QED
        BY <3>1, <3>2
    <2> QED
      BY <2>1 DEF RowsMean
  <1>11. AbsenceMeans'
    <2>1. ASSUME NEW d \in Codes \ Held(issues')
          PROVE  /\ d \in evicted' \/ raised'[d] = 0
                 /\ d \in evicted' => \A r \in Rows(issues') : latest'[d] <= r.lastSeen
      <3>1. CASE d \notin Held(issues)
        <4>1. /\ d \in evicted \/ raised[d] = 0
              /\ d \in evicted => \A r \in Rows(issues) : latest[d] <= r.lastSeen
              /\ latest[d] <= now
          BY <3>1 DEF LogInv, AbsenceMeans
        <4>2. d \in evicted' <=> d \in evicted
          BY <1>9, <3>1
        <4> QED
          BY <1>5, <1>7, <1>8, <4>1, <4>2
      <3>2. CASE d \in Held(issues)
        <4>1. PICK r0 \in Rows(issues) : r0.code = d
          BY <3>2, RowFacts
        <4>2. r0 \notin Rows(issues')
          BY <1>6, <4>1
        <4>3. PICK s \in Rows(issues) :
                /\ \A r \in Rows(issues) : s.lastSeen <= r.lastSeen
                /\ Rows(issues') = (Rows(issues) \ {s}) \cup {new}
          BY <1>3, <4>2
        <4>4. s = r0 /\ s.lastSeen = latest[d]
          BY <4>1, <4>2, <4>3 DEF LogInv, RowsMean
        <4>5. \A r \in Rows(issues') : latest[d] <= r.lastSeen
          <5>1. latest[d] <= now
            BY DEF LogInv
          <5> QED
            BY <1>5, <1>7, <4>3, <4>4, <5>1
        <4>6. d \in evicted'
          BY <1>9, <3>2
        <4> QED
          BY <1>8, <4>5, <4>6
      <3> QED
        BY <3>1, <3>2
    <2> QED
      BY <2>1 DEF AbsenceMeans
  <1>12. FirstOnce'
    <2>1. told' = [told EXCEPT ![c] = told[c] + 1] /\ told \in [Codes -> Nat]
      BY DEF Raise, IsFirst, LogInv, TypeOK
    <2>2. ASSUME NEW d \in Codes \ evicted'
          PROVE  told'[d] = IF raised'[d] = 0 THEN 0 ELSE 1
      <3>1. d \notin evicted /\ told[d] = IF raised[d] = 0 THEN 0 ELSE 1
        BY <1>9 DEF LogInv, FirstOnce
      <3>2. CASE d = c
        <4>1. raised[c] = 0
          BY <3>1, <3>2 DEF LogInv, AbsenceMeans
        <4> QED
          BY <1>4, <2>1, <3>1, <3>2, <4>1
      <3>3. CASE d # c
        BY <1>4, <2>1, <3>1, <3>3
      <3> QED
        BY <3>2, <3>3
    <2> QED
      BY <2>2 DEF FirstOnce
  <1> QED
    BY <1>3, <1>4, <1>10, <1>11, <1>12 DEF LogInv

LEMMA ClearKeeps ==
  ASSUME LogInv, NEW c \in Codes, Clear(c)
  PROVE  LogInv'
  <1>1. /\ issues' \in Seq(PeerIssue) /\ Len(issues') <= Len(issues) /\ NoTwins(issues')
        /\ Rows(issues') = {r \in Rows(issues) : r.code # c}
    BY ClearedRows DEF Clear, LogInv, TypeOK
  <1>2. /\ raised \in [Codes -> 0..MaxRaises] /\ latest \in [Codes -> 0..MaxTime]
        /\ told \in [Codes -> Nat] /\ MaxRaises \in Nat /\ MaxTime \in Nat /\ MaxClears \in Nat
        /\ MaxPeerIssues \in Nat /\ clears \in 0..MaxClears /\ now \in 0..MaxTime
    BY IssueAssumption DEF LogInv, TypeOK
  <1>3. /\ \A d \in Codes : raised'[d] = IF d = c THEN 0 ELSE raised[d]
        /\ \A d \in Codes : latest'[d] = IF d = c THEN 0 ELSE latest[d]
        /\ \A d \in Codes : told'[d] = IF d = c THEN 0 ELSE told[d]
        /\ evicted' = evicted \ {c} /\ now' = now /\ pending' = pending
    BY <1>2 DEF Clear
  <1>4. Held(issues') = Held(issues) \ {c}
    <2>1. /\ Held(issues') = {r.code : r \in Rows(issues')}
          /\ Held(issues) = {r.code : r \in Rows(issues)}
      BY HeldOfRows
    <2> QED
      BY <1>1, <2>1
  <1>5. TypeOK'
    <2>1. Len(issues') <= MaxPeerIssues
      <3>1. Len(issues) \in Nat /\ Len(issues') \in Nat /\ Len(issues) <= MaxPeerIssues
        BY <1>1, LenProperties DEF LogInv, TypeOK
      <3> QED
        BY <1>1, <1>2, <3>1
    <2>2. clears' \in 0..MaxClears
      BY <1>2 DEF Clear
    <2>3. /\ raised' \in [Codes -> 0..MaxRaises] /\ latest' \in [Codes -> 0..MaxTime]
          /\ told' \in [Codes -> Nat]
      BY <1>2 DEF Clear
    <2> QED
      BY <1>1, <1>3, <2>1, <2>2, <2>3 DEF LogInv, TypeOK
  <1>6. RowsMean'
    <2>1. ASSUME NEW r \in Rows(issues), r.code # c
          PROVE  /\ raised'[r.code] > 0 /\ r.lastSeen = latest'[r.code]
                 /\ r.code \notin evicted' => r.count = raised'[r.code] % CountLimit
      BY <1>3, <2>1, RowFacts DEF LogInv, RowsMean
    <2> QED
      BY <1>1, <2>1 DEF RowsMean
  <1>7. AbsenceMeans'
    <2>1. ASSUME NEW d \in Codes \ Held(issues')
          PROVE  /\ d \in evicted' \/ raised'[d] = 0
                 /\ d \in evicted' => \A r \in Rows(issues') : latest'[d] <= r.lastSeen
      <3>1. CASE d = c
        BY <1>3, <3>1
      <3>2. CASE d # c
        BY <1>1, <1>3, <1>4, <3>2 DEF LogInv, AbsenceMeans
      <3> QED
        BY <3>1, <3>2
    <2> QED
      BY <2>1 DEF AbsenceMeans
  <1>8. \A d \in Codes : latest'[d] <= now'
    BY <1>2, <1>3 DEF LogInv
  <1>9. FirstOnce'
    <2>1. ASSUME NEW d \in Codes \ evicted'
          PROVE  told'[d] = IF raised'[d] = 0 THEN 0 ELSE 1
      BY <1>3 DEF LogInv, FirstOnce
    <2> QED
      BY <2>1 DEF FirstOnce
  <1> QED
    BY <1>1, <1>5, <1>6, <1>7, <1>8, <1>9 DEF LogInv

LEMMA NextKeepsLog == LogInv /\ [Next]_vars => LogInv'
  <1> SUFFICES ASSUME LogInv, [Next]_vars PROVE LogInv'
    OBVIOUS
  <1>1. CASE Tick
    <2>1. /\ issues' = issues /\ raised' = raised /\ latest' = latest /\ told' = told
          /\ evicted' = evicted /\ pending' = pending /\ clears' = clears
      BY <1>1 DEF Tick
    <2>2. now \in Nat /\ now' \in 0..MaxTime /\ now' = now + 1
      BY <1>1, IssueAssumption DEF Tick, LogInv, TypeOK
    <2>3. ASSUME NEW d \in Codes
          PROVE  latest[d] <= now + 1
      <3>1. latest[d] <= now /\ latest[d] \in Nat
        BY IssueAssumption DEF LogInv, TypeOK
      <3> QED
        BY <2>2, <3>1
    <2>4. \A d \in Codes : latest'[d] <= now'
      BY <2>1, <2>2, <2>3
    <2>5. Rows(issues') = Rows(issues) /\ Held(issues') = Held(issues) /\ NoTwins(issues')
      BY <2>1 DEF LogInv
    <2> QED
      BY <2>1, <2>2, <2>4, <2>5 DEF LogInv, TypeOK, RowsMean, AbsenceMeans, FirstOnce
  <1>2. ASSUME NEW c \in Codes, Raise(c)
        PROVE  LogInv'
    BY <1>2, RepeatKeeps, FirstKeeps
  <1>3. ASSUME NEW c \in Codes, Alert(c)
        PROVE  LogInv'
    <2>1. /\ issues' = issues /\ raised' = raised /\ latest' = latest /\ told' = told
          /\ evicted' = evicted /\ now' = now /\ clears' = clears
      BY <1>3 DEF Alert
    <2>2. pending' \in [Codes -> Nat]
      <3>1. pending \in [Codes -> Nat] /\ pending[c] > 0
        BY <1>3 DEF Alert, LogInv, TypeOK
      <3>2. pending[c] - 1 \in Nat
        BY <3>1
      <3> QED
        BY <1>3, <3>1, <3>2 DEF Alert
    <2>3. Rows(issues') = Rows(issues) /\ Held(issues') = Held(issues) /\ NoTwins(issues')
      BY <2>1 DEF LogInv
    <2> QED
      BY <2>1, <2>2, <2>3 DEF LogInv, TypeOK, RowsMean, AbsenceMeans, FirstOnce
  <1>4. CASE UNCHANGED vars
    <2>1. /\ issues' = issues /\ raised' = raised /\ latest' = latest /\ told' = told
          /\ evicted' = evicted /\ pending' = pending /\ clears' = clears /\ now' = now
      BY <1>4 DEF vars
    <2>2. Rows(issues') = Rows(issues) /\ Held(issues') = Held(issues) /\ NoTwins(issues')
      BY <2>1 DEF LogInv
    <2> QED
      BY <2>1, <2>2 DEF LogInv, TypeOK, RowsMean, AbsenceMeans, FirstOnce
  <1> QED
    BY <1>1, <1>2, <1>3, <1>4, ClearKeeps DEF Next

LEMMA SpecLog == Spec => []LogInv
  BY InitLog, NextKeepsLog, PTL DEF Spec

-----------------------------------------------------------------------------
(* What it says.                                                           *)

\* issues.go MaxPeerIssues: the history is of its type, and never longer than the
\* limit.
THEOREM HistoryStaysBounded == Spec => []TypeOK
  <1>1. LogInv => TypeOK
    BY DEF LogInv
  <1> QED
    BY <1>1, SpecLog, PTL

\* issues.go CoalesceIssue, "Count is every occurrence, not every stored row": there
\* is one row for each condition that occurred since it was last cleared, and its
\* count, modulo the width of the counter, is how often; only an eviction loses any.
THEOREM RowsCountEverything == Spec => []RowsAreExact
  <1>1. ASSUME LogInv
        PROVE  RowsAreExact
    <2>1. ASSUME NEW c \in Codes
          PROVE  Cardinality(RowOf(issues, c)) <= 1
      <3>1. CASE RowOf(issues, c) = {}
        BY <3>1, FS_EmptySet
      <3>2. CASE RowOf(issues, c) # {}
        <4>1. PICK i \in RowOf(issues, c) : TRUE
          BY <3>2
        <4>2. RowOf(issues, c) = {i}
          BY <1>1, <4>1 DEF RowOf, LogInv, NoTwins
        <4>3. Cardinality({i}) = 1
          BY FS_Singleton
        <4> QED
          BY <4>2, <4>3
      <3> QED
        BY <3>1, <3>2
    <2>2. ASSUME NEW c \in Codes, c \notin evicted
          PROVE  /\ RowOf(issues, c) = {} <=> raised[c] = 0
                 /\ \A i \in RowOf(issues, c) : issues[i].count = raised[c] % CountLimit
      <3>1. RowOf(issues, c) = {} <=> c \notin Held(issues)
        BY DEF RowOf, Held
      <3>2. c \in Held(issues) => raised[c] > 0 /\ raised[c] # 0
        BY <1>1, RowFacts
      <3>3. c \notin Held(issues) => raised[c] = 0
        BY <1>1, <2>2 DEF LogInv, AbsenceMeans
      <3>4. \A i \in RowOf(issues, c) : issues[i] \in Rows(issues) /\ issues[i].code = c
        BY DEF RowOf, Rows
      <3> QED
        BY <1>1, <2>2, <3>1, <3>2, <3>3, <3>4 DEF LogInv, RowsMean
    <2> QED
      BY <2>1, <2>2 DEF RowsAreExact
  <1> QED
    BY <1>1, SpecLog, PTL

\* issues.go, "once per domain per condition rather than once per message": between
\* two clears a condition is told of once, unless its row was evicted.
THEOREM ToldOnce == Spec => []FirstOnce
  <1>1. LogInv => FirstOnce
    BY DEF LogInv
  <1> QED
    BY <1>1, SpecLog, PTL

\* issues.go MaxPeerIssues, "it evicts the LEAST RECENT": a condition that lost its
\* row was last seen no later than every row that was kept.
THEOREM EvictionTakesTheOldest == Spec => []LeastRecentEvicted
  <1>1. ASSUME LogInv
        PROVE  LeastRecentEvicted
    <2>1. ASSUME NEW c \in evicted, RowOf(issues, c) = {}, NEW i \in DOMAIN issues
          PROVE  latest[c] <= issues[i].lastSeen
      <3>1. c \in Codes \ Held(issues)
        BY <1>1, <2>1 DEF LogInv, TypeOK, RowOf, Held
      <3>2. issues[i] \in Rows(issues)
        BY DEF Rows
      <3> QED
        BY <1>1, <3>1, <3>2 DEF LogInv, AbsenceMeans
    <2> QED
      BY <2>1 DEF LeastRecentEvicted
  <1> QED
    BY <1>1, SpecLog, PTL


=============================================================================
