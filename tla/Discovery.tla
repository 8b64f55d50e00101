------------------------------ MODULE Discovery ------------------------------
(***************************************************************************)
(* From what DNS or a header says about a domain to a background resolution *)
(* (peer/service.go ObserveDNS, ObserveHeader, observe, scheduleIfBehind,  *)
(* and the worker's resolve), over the queue of BackgroundQueue.  The      *)
(* write, the read that decides whether the cache is behind, and the       *)
(* trigger are separate steps of an observer.                              *)
(*                                                                         *)
(* A record is what NeedsRefresh reads of it, and what DNS said.  The clock *)
(* stands still: a manifest once cached is refreshed because of what was   *)
(* heard, never of its age.  An observation that admission refuses changes *)
(* nothing (Admission), and a resolution's answer is judged and stored in  *)
(* one step (PeerService has its steps apart).                             *)
(***************************************************************************)
EXTENDS BackgroundQueue

CONSTANTS
    Manifests,
    Fingerprints,
    Delegates,
    Malformed,      \* a record that does not parse
    Hears,          \* [Observers -> what this goroutine may hear], see Sighting
    Served          \* [Domains -> the manifests its authority may answer with]

\* parseParams refuses a record that carries neither an id nor a fingerprint.
Advertisement ==
    {a \in [id : Manifests \cup {None}, fp : Fingerprints \cup {None},
            authority : Delegates \cup {None}] : {a.id, a.fp} # {None}}

\* A header is one advertisement; one that does not parse is not observed.
Sighting ==
    [domain : Domains, source : {"dns"}, records : Seq(Advertisement \cup {Malformed})]
        \cup [domain : Domains, source : {"header"}, records : {<<a>> : a \in Advertisement}]

ASSUME SightingAssumption ==
    /\ Hears \in [Observers -> SUBSET Sighting]
    /\ Malformed \notin Advertisement
    /\ None \notin Manifests \cup Fingerprints \cup Delegates
    /\ Served \in [Domains -> SUBSET Manifests]

VARIABLES
    record,         \* [Domains -> the store's record, or None]
    task,           \* [Observers -> [at, domain]]: where in observe
    fetching,       \* workers that read their domain as due, past resolve's shortcut
    owed,           \* auxiliary: domains an observation left due, and nobody has
                    \* looked since or reported that nobody will
    heard           \* auxiliary: [Domains -> the TXT records the DNS row was made of]

queueVars == <<pending, queue, offering, full, worker, stopped, closer, unanswered>>
dvars == <<queueVars, record, task, fetching, owed, heard>>

-----------------------------------------------------------------------------
(* What a set of records says.                                             *)

\* ParseDNS: one broken record does not hide a good one.  Those that parse keep
\* the places they had.
Usable(records) == [i \in {j \in DOMAIN records : records[j] # Malformed} |-> records[i]]

Said(ads, field) == {ads[i][field] : i \in DOMAIN ads}

\* singleID, singleFingerprint, singleAuthority: the value they all give, if any.
Agreed(S) == IF Cardinality(S) = 1 THEN CHOOSE x \in S : TRUE ELSE None

\* Mutant: the first record that has a value gives it.
CombineFirst(ads) ==
    LET lowest(I) == CHOOSE i \in I : \A j \in I : i <= j
        first(field) ==
            LET I == {i \in DOMAIN ads : ads[i][field] # None}
            IN  IF I = {} THEN None ELSE ads[lowest(I)][field]
    IN  [id |-> first("id"), fp |-> first("fp"),
         authority |-> ads[lowest(DOMAIN ads)].authority,
         status |-> IF \E f \in {"id", "fp"} : Cardinality(Said(ads, f) \ {None}) > 1
                    THEN "inconsistent" ELSE "pending"]

\* An absent id or fingerprint is no disagreement; an absent authority is one.
Combine(ads) ==
    [id |-> Agreed(Said(ads, "id") \ {None}),
     fp |-> Agreed(Said(ads, "fp") \ {None}),
     authority |-> Agreed(Said(ads, "authority")),
     status |-> IF \E f \in {"id", "fp"} : Cardinality(Said(ads, f) \ {None}) > 1
                THEN "inconsistent" ELSE "pending"]

-----------------------------------------------------------------------------
(* The record.                                                             *)

Row == [id : Manifests \cup {None}, fp : Fingerprints \cup {None},
        authority : Delegates \cup {None},
        status : {"pending", "confirmed", "stale", "malformed", "inconsistent"}]

\* effective: the cached manifest.  dns, header: the row of each source.
\* opinion: IdentityState.DNSFingerprint.
Record == [effective : Manifests \cup {None}, dns : Row \cup {None},
           header : Row \cup {None}, opinion : Fingerprints \cup {None}]

Upsert(p) ==
    IF p = None THEN [effective |-> None, dns |-> None, header |-> None, opinion |-> None]
    ELSE p

Classify(p, o) ==
    IF o.status \in {"malformed", "inconsistent"} THEN o
    ELSE [o EXCEPT !.status = IF None \in {o.id, p.effective} THEN "pending"
                              ELSE IF o.id = p.effective THEN "confirmed" ELSE "stale"]

Reconcile(p) ==
    [p EXCEPT !.dns = IF @ = None THEN None ELSE Classify(p, @),
              !.header = IF @ = None THEN None ELSE Classify(p, @)]

\* Store.PutObservation: the row of its source is replaced, an agreed fingerprint
\* becomes the DNS opinion, and silence or disagreement erases none.
PutObservation(p, source, o) ==
    LET q == Upsert(p)
    IN  [[q EXCEPT ![source] = Classify(q, o)] EXCEPT
            !.opinion = IF source = "dns" /\ o.fp # None THEN o.fp ELSE @]

Install(p, m) == Reconcile([Upsert(p) EXCEPT !.effective = m])

NeedsRefresh(p) ==
    \/ p = None
    \/ p # None /\ p.effective = None
    \/ /\ p # None
       /\ \E s \in {"dns", "header"} : p[s] # None /\ p[s].id \notin {None, p.effective}

\* Domains that scheduleIfBehind would schedule.
DueIn(records) == {d \in Domains : NeedsRefresh(records[d])}
Due == DueIn(record)

-----------------------------------------------------------------------------
(* Observers.                                                              *)

NoTask == [at |-> "idle", domain |-> None]

\* The fingerprint of a header is not kept.
RowOf(s) ==
    IF s.source = "dns" THEN Combine(Usable(s.records))
    ELSE [Combine(s.records) EXCEPT !.fp = None]

Put(s, o) ==
    /\ record' = [record EXCEPT ![s.domain] = PutObservation(@, s.source, o)]
    /\ heard' = IF s.source = "dns" THEN [heard EXCEPT ![s.domain] = s.records] ELSE heard

Begins(o, s) ==
    /\ task[o] = NoTask /\ offering[o] = None
    /\ DOMAIN Usable(s.records) # {}
    /\ Put(s, RowOf(s))
    /\ owed' = IF s.domain \in DueIn(record') THEN owed \cup {s.domain} ELSE owed
    /\ UNCHANGED <<queueVars, fetching>>

\* Mutant: whether the cache is behind is read before the write.
ObserveAfterLooking(o, s) ==
    /\ Begins(o, s)
    /\ task' = [task EXCEPT ![o] = IF s.domain \in Due
                                   THEN [at |-> "due", domain |-> s.domain] ELSE NoTask]

Observe(o, s) ==
    /\ Begins(o, s)
    /\ task' = [task EXCEPT ![o] = [at |-> "written", domain |-> s.domain]]

\* Nothing usable, and something malformed: recorded, and nothing scheduled.
ObserveUnusable(s) ==
    /\ s.source = "dns"
    /\ DOMAIN Usable(s.records) = {} /\ s.records # <<>>
    /\ Put(s, [id |-> None, fp |-> None, authority |-> None, status |-> "malformed"])
    /\ UNCHANGED <<queueVars, task, fetching, owed>>

\* scheduleIfBehind.
Lookup(o) ==
    /\ task[o].at = "written"
    /\ task' = [task EXCEPT ![o] = IF @.domain \in Due THEN [@ EXCEPT !.at = "due"] ELSE NoTask]
    /\ owed' = IF task[o].domain \in Due THEN owed ELSE owed \ {task[o].domain}
    /\ UNCHANGED <<queueVars, record, fetching, heard>>

\* The read fails, and the caller is told.
LookupFails(o) ==
    /\ task[o].at = "written"
    /\ task' = [task EXCEPT ![o] = NoTask]
    /\ owed' = owed \ {task[o].domain}
    /\ UNCHANGED <<queueVars, record, fetching, heard>>

Trigger(o) ==
    /\ task[o].at = "due"
    /\ Coalesce(o, task[o].domain) \/ Mark(o, task[o].domain)
    /\ task' = [task EXCEPT ![o] = NoTask]
    /\ UNCHANGED <<record, fetching, owed, heard>>

Deliver(o) ==
    /\ \/ (Enqueue(o) \/ FindFull(o)) /\ UNCHANGED owed
       \/ Shed(o) /\ owed' = owed \ {offering[o]}
    /\ UNCHANGED <<record, task, fetching, heard>>

-----------------------------------------------------------------------------
(* Workers: resolve.                                                       *)

Turn(w) ==
    /\ Take(w) \/ Exit(w) \/ Unmark(w)
    /\ UNCHANGED <<record, task, fetching, owed, heard>>

\* It reads the record, which another resolution may have made current.
ReadRecord(w) ==
    /\ StartResolving(w)
    /\ fetching' = IF worker[w].domain \in Due THEN fetching \cup {w} ELSE fetching
    /\ owed' = owed \ {worker[w].domain}
    /\ UNCHANGED <<record, task, heard>>

ResolveNothing(w) ==
    /\ w \notin fetching
    /\ FinishResolving(w)
    /\ UNCHANGED <<record, task, fetching, owed, heard>>

\* The fetch ended; m is what it installs, or None when it fails or is refused
\* (the error is reported, and a record exists from then on).
ResolveEnds(w, m) ==
    /\ w \in fetching
    /\ m \in Served[worker[w].domain] \cup {None}
    /\ FinishResolving(w)
    /\ fetching' = fetching \ {w}
    /\ record' = [record EXCEPT ![worker[w].domain] =
                    IF m = None THEN Reconcile(Upsert(@)) ELSE Install(@, m)]
    /\ UNCHANGED <<task, owed, heard>>

-----------------------------------------------------------------------------

Ending(x) ==
    /\ Close(x) \/ Return(x)
    /\ UNCHANGED <<record, task, fetching, owed, heard>>

DInit ==
    /\ Init
    /\ record = [d \in Domains |-> None]
    /\ task = [o \in Observers |-> NoTask]
    /\ fetching = {} /\ owed = {}
    /\ heard = [d \in Domains |-> <<>>]

Attend(o) == Lookup(o) \/ LookupFails(o) \/ Trigger(o) \/ Deliver(o)
Resolve(w) ==
    \/ Turn(w) \/ ReadRecord(w) \/ ResolveNothing(w)
    \/ \E m \in Manifests \cup {None} : ResolveEnds(w, m)

DNext ==
    \/ \E o \in Observers : Attend(o) \/ \E s \in Hears[o] : Observe(o, s) \/ ObserveUnusable(s)
    \/ \E w \in Workers : Resolve(w)
    \/ \E x \in Closers : Ending(x)

\* As in BackgroundQueue: goroutines run, a fetch is bounded by its context,
\* and select is fair.  Nothing is assumed of what is heard or of Close.
DFairness ==
    /\ \A o \in Observers : WF_dvars(Attend(o))
    /\ \A w \in Workers : WF_dvars(Resolve(w)) /\ SF_dvars(Exit(w) /\ Turn(w))
    /\ \A x \in Closers : WF_dvars(Return(x) /\ Ending(x))

DSpec == DInit /\ [][DNext]_dvars /\ DFairness

-----------------------------------------------------------------------------

DTypeOK ==
    /\ TypeOK
    /\ record \in [Domains -> Record \cup {None}]
    /\ task \in [Observers -> [at : {"written", "due"}, domain : Domains] \cup {NoTask}]
    /\ fetching \subseteq Workers /\ owed \subseteq Domains
    /\ heard \in [Domains -> Seq(Advertisement \cup {Malformed})]

\* service.go ObserveDNS, "schedules resolution if the observations suggest the
\* cache is behind": as long as nobody has looked at the authority since, or
\* reported that nobody will, someone is on the way to it.
OnTheWay(d) ==
    \/ \E o \in Observers : task[o].domain = d
    \/ d \in pending
    \/ \E w \in Workers : worker[w] = [at |-> "unmarked", domain |-> d]
BehindIsPursued == \A d \in owed : stopped \/ OnTheWay(d)

\* discovery.go ParseDNS, "there is no rule by which one unauthenticated record
\* beats another", and service.go ObserveDNS, "recorded as inconsistent": the DNS
\* row holds what all the records it was made of say, their disagreement stays on
\* it whatever is installed later, and only an agreed fingerprint is an opinion.
Disagree(ads) ==
    \E i, j \in DOMAIN ads, f \in {"id", "fp"} :
        None \notin {ads[i][f], ads[j][f]} /\ ads[i][f] # ads[j][f]
NoRecordWins ==
    \A d \in Domains : record[d] # None =>
        LET row == record[d].dns
            ads == Usable(heard[d])
        IN  /\ row # None =>
                /\ \A i \in DOMAIN ads :
                    /\ row.id # None => ads[i].id \in {None, row.id}
                    /\ row.fp # None => ads[i].fp \in {None, row.fp}
                    /\ row.authority # None => ads[i].authority = row.authority
                /\ row.status = "inconsistent" <=> Disagree(ads)
            /\ record[d].opinion # None =>
                \E s \in UNION {Hears[o] : o \in Observers} :
                    /\ s.domain = d /\ s.source = "dns"
                    /\ Said(Usable(s.records), "fp") \ {None} = {record[d].opinion}
=============================================================================
