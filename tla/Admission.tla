------------------------------ MODULE Admission ------------------------------
(***************************************************************************)
(* Which untrusted observations reach the peer book (peer/admission.go and *)
(* the observe path of peer/service.go): repeats are coalesced in memory,  *)
(* and domains without a record are let in at the rate of a token bucket.  *)
(*                                                                         *)
(* Several inbound messages are observed at once.  Each reads the clock    *)
(* when it arrives and takes its steps with that reading.  A token is      *)
(* RefillEach units of budget and a tick of the clock earns one unit;      *)
(* the rounding of the float64 bucket is left out.                         *)
(***************************************************************************)
EXTENDS Naturals, Sequences, FiniteSets

CONSTANTS
    Callers,        \* inbound messages observed at the same time
    Domains,        \* domains they advertise
    Evidence,       \* what they say of one, see Evident
    Interval,       \* Options.ObserveInterval
    Burst,          \* Options.NewPeerBurst
    RefillEach,     \* Options.NewPeerEvery
    MaxTracked,     \* maxTrackedDomains
    MaxTime,        \* bound: ticks of the clock
    None

\* A manifest id and an identity fingerprint, each optional, and the source.
Evident(e) == DOMAIN e = {"source", "id", "fp"} /\ e.source \in {"dns", "header"}

ASSUME AdmissionAssumption ==
    /\ {Interval, Burst, RefillEach, MaxTracked} \subseteq Nat \ {0}
    /\ MaxTime \in Nat
    /\ \A e \in Evidence : Evident(e)
    /\ None \notin Domains

VARIABLES
    now,
    seen,           \* admission.seen: [Domains -> the last decision, or None]
    budget,         \* admission.tokens
    lastRefill,     \* admission.lastRefill
    rows,           \* domains with a peer record
    at,             \* [Callers -> where in observe]
    call,           \* [Callers -> domain, evidence, clock reading; None outside]
    admin,          \* the AddPeer or Forget between its two steps, or None
    decided,        \* auxiliary: [Domains -> [Evidence -> its last admission]]
    births          \* auxiliary: lastRefill at each token that was paid

vars == <<now, seen, budget, lastRefill, rows, at, call, admin,
          decided, births>>

store == <<rows, admin>>
bucket == <<budget, lastRefill>>
history == <<decided, births>>

Places == {"outside", "arrived", "admitted", "new", "putting"}
Calls == [domain : Domains, evidence : Evidence, now : 0..MaxTime]
Decisions == [evidence : Evidence, at : 0..MaxTime]

\* Nothing remembered, no call and no time is none of these.
ASSUME NilAssumption == None \notin Calls \cup Decisions \cup Nat

Return(c) ==
    /\ at' = [at EXCEPT ![c] = "outside"]
    /\ call' = [call EXCEPT ![c] = None]

Tracked(s) == {d \in Domains : s[d] # None}
Without(s, old) == [d \in Domains |-> IF d \in old THEN None ELSE s[d]]

-----------------------------------------------------------------------------
(* The memory of the last decisions.                                       *)

\* Mutant: the fingerprint is not part of the evidence.
SameIdentifier(e, f) == e.source = f.source /\ e.id = f.id

SameEvidence(e, f) == e = f

Repeat(s, c) ==
    /\ s[c.domain] # None
    /\ SameEvidence(s[c.domain].evidence, c.evidence)
    /\ c.now < s[c.domain].at + Interval

\* The decisions nobody would be refused by, when the table is full.
Lapsed(s, t) == {d \in Tracked(s) : t >= s[d].at + Interval}

\* Mutant: the cutoff itself is kept.
OldestButCutoff(s) ==
    LET times == {s[d].at : d \in Tracked(s)}
        first == CHOOSE t \in times : \A u \in times : t <= u
        last == CHOOSE t \in times : \A u \in times : t >= u
    IN  {d \in Tracked(s) : 4 * (s[d].at - first) < last - first}

\* The oldest quarter of the time the table spans.
Oldest(s) ==
    LET times == {s[d].at : d \in Tracked(s)}
        first == CHOOSE t \in times : \A u \in times : t <= u
        last == CHOOSE t \in times : \A u \in times : t >= u
    IN  {d \in Tracked(s) : 4 * (s[d].at - first) <= last - first}

Full(s) == Cardinality(Tracked(s)) >= MaxTracked

Sweep(s, t) ==
    LET fresh == Without(s, Lapsed(s, t))
    IN  CASE ~Full(s) -> s
          [] Full(s) /\ ~Full(fresh) -> fresh
          [] OTHER -> Without(fresh, Oldest(fresh))

-----------------------------------------------------------------------------
(* observe: decide, read, pay for a stranger, write.                       *)

Arrive(c, d, e) ==
    /\ at[c] = "outside"
    /\ call' = [call EXCEPT ![c] = [domain |-> d, evidence |-> e, now |-> now]]
    /\ at' = [at EXCEPT ![c] = "arrived"]
    /\ UNCHANGED <<now, seen, bucket, store, history>>

RefuseRepeat(c) ==
    /\ at[c] = "arrived"
    /\ Repeat(seen, call[c])
    /\ Return(c)
    /\ UNCHANGED <<now, seen, bucket, store, history>>

Admit(c) ==
    LET q == call[c] IN
    /\ at[c] = "arrived"
    /\ ~Repeat(seen, q)
    /\ seen' = [Sweep(seen, q.now) EXCEPT ![q.domain] =
                    [evidence |-> q.evidence, at |-> q.now]]
    /\ at' = [at EXCEPT ![c] = "admitted"]
    /\ decided' = [decided EXCEPT ![q.domain][q.evidence] = q.now]
    /\ UNCHANGED <<now, bucket, store, call, births>>

LookUp(c) ==
    /\ at[c] = "admitted"
    /\ at' = [at EXCEPT ![c] = IF call[c].domain \in rows THEN "putting" ELSE "new"]
    /\ UNCHANGED <<now, seen, bucket, store, call, history>>

Least(m, n) == IF m <= n THEN m ELSE n

\* Time that runs backwards earns nothing.
Refilled(t) ==
    IF t > lastRefill THEN Least(budget + (t - lastRefill), Burst * RefillEach) ELSE budget

\* Mutant: the bucket's clock follows every caller's.
ClockOfCaller(t) == t

Clock(t) == IF t > lastRefill THEN t ELSE lastRefill

\* Mutant: the bucket is not asked whether it holds a token.
PayUnasked(c) ==
    LET t == call[c].now IN
    /\ at[c] = "new"
    /\ budget' = Refilled(t) - RefillEach
    /\ lastRefill' = Clock(t)
    /\ births' = Append(births, Clock(t))
    /\ at' = [at EXCEPT ![c] = "putting"]
    /\ UNCHANGED <<now, seen, store, call, decided>>

Pay(c) ==
    LET t == call[c].now IN
    /\ at[c] = "new"
    /\ Refilled(t) >= RefillEach
    /\ budget' = Refilled(t) - RefillEach
    /\ lastRefill' = Clock(t)
    /\ births' = Append(births, Clock(t))
    /\ at' = [at EXCEPT ![c] = "putting"]
    /\ UNCHANGED <<now, seen, store, call, decided>>

Drop(c) ==
    LET t == call[c].now IN
    /\ at[c] = "new"
    /\ Refilled(t) < RefillEach
    /\ budget' = Refilled(t)
    /\ lastRefill' = Clock(t)
    /\ Return(c)
    /\ UNCHANGED <<now, seen, store, history>>

PutObservation(c) ==
    /\ at[c] = "putting"
    /\ rows' = rows \cup {call[c].domain}
    /\ Return(c)
    /\ UNCHANGED <<now, seen, bucket, admin, history>>

StoreFails(c) ==
    /\ at[c] \in {"admitted", "putting"}
    /\ Return(c)
    /\ UNCHANGED <<now, seen, bucket, store, history>>

-----------------------------------------------------------------------------
(* The other ways in.                                                      *)

\* ObserveDNS on records none of which can be used: straight to the store.
ObserveMalformed(d) ==
    /\ d \notin rows    \* one that exists only changes its last observation
    /\ rows' = rows \cup {d}
    /\ UNCHANGED <<now, seen, bucket, at, call, admin, history>>

\* AddPeer and Forget: what admission remembers goes first, the record changes
\* afterwards.
AdminForgets(op, d) ==
    /\ admin = None
    /\ seen' = Without(seen, {d})
    /\ admin' = [op |-> op, domain |-> d]
    /\ UNCHANGED <<now, bucket, rows, at, call, history>>

AdminAdds ==
    /\ admin # None /\ admin.op = "add"
    /\ rows' = rows \cup {admin.domain}
    /\ admin' = None
    /\ UNCHANGED <<now, seen, bucket, at, call, history>>

ForgetPeer ==
    /\ admin # None /\ admin.op = "forget"
    /\ rows' = rows \ {admin.domain}
    /\ admin' = None
    /\ UNCHANGED <<now, seen, bucket, at, call, history>>

AdminFails ==
    /\ admin # None
    /\ admin' = None
    /\ UNCHANGED <<now, seen, bucket, rows, at, call, history>>

Tick ==
    /\ now < MaxTime
    /\ now' = now + 1
    /\ UNCHANGED <<seen, bucket, store, at, call, history>>

-----------------------------------------------------------------------------

\* newAdmission: a full bucket and nothing seen.
Init ==
    /\ now = 0
    /\ seen = [d \in Domains |-> None]
    /\ budget = Burst * RefillEach
    /\ lastRefill = 0
    /\ rows = {}
    /\ at = [c \in Callers |-> "outside"]
    /\ call = [c \in Callers |-> None]
    /\ admin = None
    /\ decided = [d \in Domains |-> [e \in Evidence |-> None]]
    /\ births = <<>>

Observe(c) ==
    \/ \E d \in Domains, e \in Evidence : Arrive(c, d, e)
    \/ RefuseRepeat(c) \/ Admit(c) \/ LookUp(c) \/ Pay(c) \/ Drop(c)
    \/ PutObservation(c) \/ StoreFails(c)

Next ==
    \/ \E c \in Callers : Observe(c)
    \/ \E d \in Domains : ObserveMalformed(d) \/ \E op \in {"add", "forget"} : AdminForgets(op, d)
    \/ AdminAdds \/ ForgetPeer \/ AdminFails
    \/ Tick

Spec == Init /\ [][Next]_vars

-----------------------------------------------------------------------------

TypeOK ==
    /\ now \in 0..MaxTime
    /\ seen \in [Domains -> Decisions \cup {None}]
    /\ budget \in 0..Burst * RefillEach
    /\ lastRefill \in 0..now
    /\ rows \subseteq Domains
    /\ at \in [Callers -> Places]
    /\ call \in [Callers -> Calls \cup {None}]
    /\ \A c \in Callers : call[c] = None <=> at[c] = "outside"
    /\ admin \in [op : {"add", "forget"}, domain : Domains] \cup {None}
    /\ decided \in [Domains -> [Evidence -> 0..MaxTime \cup {None}]]
    /\ births \in Seq(0..now)

\* admission.go, "the tracking map is itself bounded state, so it is swept and
\* hard-capped": however fresh the decisions in it are, and whatever order the
\* callers' clock readings arrive in.
TableIsBounded == Cardinality(Tracked(seen)) <= MaxTracked

\* admission.go, "the worst case is a known number of rows per hour instead of one
\* per message": over any stretch of the bucket's clock, observations are let in
\* for unknown domains at most as often as burst and refill allow, also when the
\* callers' readings of the clock run backwards.  (Unusable DNS records are not
\* counted: ObserveMalformed asks for no token.)
RowsAreBounded ==
    \A i, j \in 1..Len(births) :
        i <= j => (j - i + 1) * RefillEach <= Burst * RefillEach + (births[j] - births[i])

\* sweepLocked, "Evicting only makes us re-decide a domain sooner, never wrong",
\* and "a ROTATION still gets through immediately": an observation is refused as
\* a repeat only if that evidence on that domain was admitted within the interval.
Refuses(c) == at[c] = "arrived" /\ at'[c] = "outside"
AdmittedBefore(q) ==
    /\ decided[q.domain][q.evidence] # None
    /\ q.now < decided[q.domain][q.evidence] + Interval
OnlyRepeatsRefused == [][\A c \in Callers : Refuses(c) => AdmittedBefore(call[c])]_vars

=============================================================================
