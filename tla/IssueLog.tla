------------------------------ MODULE IssueLog ------------------------------
(***************************************************************************)
(* The review history of one peer (issues.go): occurrences of a condition  *)
(* fold into one row, clearing it removes the row, the list is bounded,    *)
(* and the operator is told of a first occurrence.  A row's Detail is left *)
(* out.  The store runs each operation under its lock, so one is one step; *)
(* the alert follows outside the lock, in any order.                       *)
(***************************************************************************)
EXTENDS Naturals, Sequences, FiniteSets, SequencesExt

CONSTANTS
    Codes,          \* the conditions that are raised, see issues.go
    Alerting,       \* IssueCode.Alerts
    MaxPeerIssues,
    CountLimit,     \* PeerIssue.Count wraps here (2^32)
    MaxRaises,      \* bound: occurrences of one condition while it holds
    MaxClears,      \* bound: calls of ClearIssue
    MaxTime         \* bound: ticks of the clock

ASSUME IssueAssumption ==
    /\ Alerting \subseteq Codes
    /\ {MaxPeerIssues, CountLimit} \subseteq Nat \ {0}
    /\ {MaxRaises, MaxClears, MaxTime} \subseteq Nat

VARIABLES
    now,
    issues,     \* Peer.Issues
    pending,    \* [Codes -> alerts decided and not delivered yet]
    clears,     \* calls of ClearIssue
    raised,     \* auxiliary: [Codes -> occurrences since it was last cleared]
    latest,     \* auxiliary: [Codes -> time of the last of these]
    told,       \* auxiliary: [Codes -> how often it was first since then]
    evicted     \* auxiliary: conditions that lost a row since then

vars == <<now, issues, pending, clears, raised, latest, told, evicted>>

PeerIssue == [code : Codes, firstSeen : 0..MaxTime, lastSeen : 0..MaxTime,
              count : 0..CountLimit - 1]

-----------------------------------------------------------------------------

RowOf(log, c) == {i \in DOMAIN log : log[i].code = c}

\* Mutant: the row that was first seen longest ago.
StalestByFirstSeen(log) ==
    CHOOSE i \in DOMAIN log : \A j \in DOMAIN log :
        \/ log[i].firstSeen < log[j].firstSeen
        \/ log[i].firstSeen = log[j].firstSeen /\ i <= j

\* The least recent row, the first of them in the list.
Stalest(log) ==
    CHOOSE i \in DOMAIN log : \A j \in DOMAIN log :
        \/ log[i].lastSeen < log[j].lastSeen
        \/ log[i].lastSeen = log[j].lastSeen /\ i <= j

\* Mutant: one row too many is let stand.
EvictLate(log) == IF Len(log) > MaxPeerIssues + 1 THEN RemoveAt(log, Stalest(log)) ELSE log

Evict(log) == IF Len(log) > MaxPeerIssues THEN RemoveAt(log, Stalest(log)) ELSE log

Fold(row, t) == [row EXCEPT !.count = (@ + 1) % CountLimit, !.lastSeen = t]

\* Mutant: only the newest row is looked at.
CoalesceNewest(log, c, t) ==
    IF log # <<>> /\ Last(log).code = c
    THEN [log EXCEPT ![Len(log)] = Fold(@, t)]
    ELSE Evict(Append(log, [code |-> c, firstSeen |-> t, lastSeen |-> t, count |-> 1 % CountLimit]))

CoalesceIssue(log, c, t) ==
    IF RowOf(log, c) # {}
    THEN [i \in DOMAIN log |-> IF log[i].code = c THEN Fold(log[i], t) ELSE log[i]]
    ELSE Evict(Append(log, [code |-> c, firstSeen |-> t, lastSeen |-> t, count |-> 1 % CountLimit]))

Held(log) == {log[i].code : i \in DOMAIN log}

IsFirst(log, c) == c \notin Held(log)

\* Mutant: the row stays, with its count at zero.
ClearCount(log, c) == [i \in DOMAIN log |-> IF log[i].code = c THEN [log[i] EXCEPT !.count = 0] ELSE log[i]]

ClearIssue(log, c) ==
    LET out[n \in 0..Len(log)] ==
            IF n = 0 THEN <<>>
            ELSE IF log[n].code = c THEN out[n - 1] ELSE Append(out[n - 1], log[n])
    IN  out[Len(log)]

-----------------------------------------------------------------------------

\* RecordIssue, and what raise makes of its answer.
Raise(c) ==
    /\ raised[c] < MaxRaises
    /\ issues' = CoalesceIssue(issues, c, now)
    /\ pending' = [pending EXCEPT ![c] = @ + IF IsFirst(issues, c) /\ c \in Alerting THEN 1 ELSE 0]
    /\ raised' = [raised EXCEPT ![c] = @ + 1]
    /\ latest' = [latest EXCEPT ![c] = now]
    /\ told' = [told EXCEPT ![c] = @ + IF IsFirst(issues, c) THEN 1 ELSE 0]
    /\ evicted' = evicted \cup (Held(issues) \ Held(issues'))
    /\ UNCHANGED <<now, clears>>

\* OnAlert.
Alert(c) ==
    /\ pending[c] > 0
    /\ pending' = [pending EXCEPT ![c] = @ - 1]
    /\ UNCHANGED <<now, issues, clears, raised, latest, told, evicted>>

Clear(c) ==
    /\ clears < MaxClears
    /\ clears' = clears + 1
    /\ issues' = ClearIssue(issues, c)
    /\ raised' = [raised EXCEPT ![c] = 0]
    /\ latest' = [latest EXCEPT ![c] = 0]
    /\ told' = [told EXCEPT ![c] = 0]
    /\ evicted' = evicted \ {c}
    /\ UNCHANGED <<now, pending>>

Tick ==
    /\ now < MaxTime
    /\ now' = now + 1
    /\ UNCHANGED <<issues, pending, clears, raised, latest, told, evicted>>

Init ==
    /\ now = 0
    /\ issues = <<>>
    /\ pending = [c \in Codes |-> 0]
    /\ clears = 0
    /\ raised = [c \in Codes |-> 0]
    /\ latest = [c \in Codes |-> 0]
    /\ told = [c \in Codes |-> 0]
    /\ evicted = {}

Next == Tick \/ \E c \in Codes : Raise(c) \/ Alert(c) \/ Clear(c)

Spec == Init /\ [][Next]_vars

-----------------------------------------------------------------------------

TypeOK ==
    /\ now \in 0..MaxTime
    /\ issues \in Seq(PeerIssue)
    /\ Len(issues) <= MaxPeerIssues
    /\ pending \in [Codes -> Nat]
    /\ clears \in 0..MaxClears
    /\ raised \in [Codes -> 0..MaxRaises]
    /\ latest \in [Codes -> 0..MaxTime]
    /\ told \in [Codes -> Nat]
    /\ evicted \subseteq Codes

\* CoalesceIssue, "Count is every occurrence, not every stored row": there is one row
\* for each condition that occurred since it was last cleared, and it counts those
\* occurrences; only a condition whose row was evicted may have none, or one that
\* counts less.
RowsAreExact ==
    \A c \in Codes :
        /\ Cardinality(RowOf(issues, c)) <= 1
        /\ c \notin evicted =>
            /\ RowOf(issues, c) = {} <=> raised[c] = 0
            /\ \A i \in RowOf(issues, c) : issues[i].count = raised[c] % CountLimit

\* issues.go, "once per domain per condition rather than once per message", and
\* ClearIssue, "Recurrence after a clear alerts again": between two clears a
\* condition is first once, unless its row was evicted meanwhile.
FirstOnce ==
    \A c \in Codes \ evicted : told[c] = IF raised[c] = 0 THEN 0 ELSE 1

\* MaxPeerIssues, "it evicts the LEAST RECENT": a condition that lost its row is at
\* least as old as every row that was kept.
LeastRecentEvicted ==
    \A c \in evicted :
        RowOf(issues, c) = {} => \A i \in DOMAIN issues : latest[c] <= issues[i].lastSeen
=============================================================================
