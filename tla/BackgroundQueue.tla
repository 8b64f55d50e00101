--------------------------- MODULE BackgroundQueue ---------------------------
(***************************************************************************)
(* The background half of the service (peer/service.go schedule, worker,   *)
(* Close): observers hand domains to a bounded queue, workers resolve them, *)
(* and a mark per domain coalesces what is already waiting.  The marks and  *)
(* the queue are guarded separately, so every step between them counts.    *)
(***************************************************************************)
EXTENDS Naturals, Sequences, FiniteSets

CONSTANTS
    Domains,
    Observers,      \* goroutines that schedule
    Workers,        \* Options.Workers goroutines
    Closers,        \* callers of Close
    QueueSize,      \* Options.QueueSize
    None

ASSUME QueueAssumption ==
    /\ QueueSize \in Nat \ {0}
    /\ None \notin Domains

VARIABLES
    pending,        \* Service.pending, under pmu
    queue,          \* the channel
    offering,       \* [Observers -> the domain this goroutine marked, or None]
    full,           \* observers that found the channel full
    worker,         \* [Workers -> [at, domain]]
    stopped,        \* the closed channel
    closer,         \* [Closers -> where in Close]
    unanswered      \* auxiliary: domains triggered since they were last
                    \* resolved or reported as dropped

vars == <<pending, queue, offering, full, worker, stopped, closer, unanswered>>

Idle == [at |-> "idle", domain |-> None]

-----------------------------------------------------------------------------
(* schedule.                                                               *)

Observing == UNCHANGED <<worker, stopped, closer>>

\* A domain that is already waiting is not queued again.
Coalesce(o, d) ==
    /\ offering[o] = None
    /\ d \in pending
    /\ unanswered' = unanswered \cup {d}
    /\ UNCHANGED <<pending, queue, offering, full>> /\ Observing

Mark(o, d) ==
    /\ offering[o] = None
    /\ d \notin pending
    /\ pending' = pending \cup {d}
    /\ offering' = [offering EXCEPT ![o] = d]
    /\ unanswered' = unanswered \cup {d}
    /\ UNCHANGED <<queue, full>> /\ Observing

\* Mutant: the channel has no bound.
EnqueueUnbounded(o) ==
    /\ offering[o] # None /\ o \notin full
    /\ queue' = Append(queue, offering[o])
    /\ offering' = [offering EXCEPT ![o] = None]
    /\ UNCHANGED <<pending, full, unanswered>> /\ Observing

\* The send that never blocks: it goes through, or the queue is full.
Enqueue(o) ==
    /\ offering[o] # None /\ o \notin full
    /\ Len(queue) < QueueSize
    /\ queue' = Append(queue, offering[o])
    /\ offering' = [offering EXCEPT ![o] = None]
    /\ UNCHANGED <<pending, full, unanswered>> /\ Observing

FindFull(o) ==
    /\ offering[o] # None /\ o \notin full
    /\ Len(queue) = QueueSize
    /\ full' = full \cup {o}
    /\ UNCHANGED <<pending, queue, offering, unanswered>> /\ Observing

\* Mutant: load is shed, and the mark stays behind.
ShedKeepsMark(o) ==
    /\ o \in full
    /\ full' = full \ {o}
    /\ offering' = [offering EXCEPT ![o] = None]
    /\ unanswered' = unanswered \ {offering[o]}
    /\ UNCHANGED <<pending, queue>> /\ Observing

\* The trigger is dropped, for everyone who coalesced with it, and reported.
Shed(o) ==
    /\ o \in full
    /\ full' = full \ {o}
    /\ pending' = pending \ {offering[o]}
    /\ offering' = [offering EXCEPT ![o] = None]
    /\ unanswered' = unanswered \ {offering[o]}
    /\ UNCHANGED queue /\ Observing

-----------------------------------------------------------------------------
(* worker.                                                                 *)

Working == UNCHANGED <<offering, full, stopped, closer>>

\* select picks either branch when both are ready.
Take(w) ==
    /\ worker[w].at = "idle"
    /\ queue # <<>>
    /\ worker' = [worker EXCEPT ![w] = [at |-> "taken", domain |-> Head(queue)]]
    /\ queue' = Tail(queue)
    /\ UNCHANGED <<pending, unanswered>> /\ Working

\* Mutant: the queue is drained before the stop is seen.
ExitWhenDrained(w) ==
    /\ worker[w].at = "idle"
    /\ stopped /\ queue = <<>>
    /\ worker' = [worker EXCEPT ![w].at = "exited"]
    /\ UNCHANGED <<pending, queue, unanswered>> /\ Working

Exit(w) ==
    /\ worker[w].at = "idle"
    /\ stopped
    /\ worker' = [worker EXCEPT ![w].at = "exited"]
    /\ UNCHANGED <<pending, queue, unanswered>> /\ Working

\* Mutant: the mark is never taken down.
UnmarkForgotten(w) ==
    /\ worker[w].at = "taken"
    /\ worker' = [worker EXCEPT ![w].at = "unmarked"]
    /\ UNCHANGED <<pending, queue, unanswered>> /\ Working

\* The mark goes before the resolution starts.
Unmark(w) ==
    /\ worker[w].at = "taken"
    /\ pending' = pending \ {worker[w].domain}
    /\ worker' = [worker EXCEPT ![w].at = "unmarked"]
    /\ UNCHANGED <<queue, unanswered>> /\ Working

StartResolving(w) ==
    /\ worker[w].at = "unmarked"
    /\ worker' = [worker EXCEPT ![w].at = "resolving"]
    /\ unanswered' = unanswered \ {worker[w].domain}
    /\ UNCHANGED <<pending, queue>> /\ Working

\* Bounded by the worker's own timeout.
FinishResolving(w) ==
    /\ worker[w].at = "resolving"
    /\ worker' = [worker EXCEPT ![w] = Idle]
    /\ UNCHANGED <<pending, queue, unanswered>> /\ Working

-----------------------------------------------------------------------------
(* Close.  sync.Once: the first caller runs it, the others wait for that.  *)

Closing == UNCHANGED <<pending, queue, offering, full, worker, unanswered>>

Close(x) ==
    /\ closer[x] = "outside"
    /\ stopped' = TRUE
    /\ closer' = [closer EXCEPT ![x] = IF stopped THEN "behind" ELSE "first"]
    /\ Closing

AllExited == \A w \in Workers : worker[w].at = "exited"

CloseDone(x) ==
    /\ closer[x] = "first"
    /\ AllExited
    /\ closer' = [closer EXCEPT ![x] = "returned"]
    /\ Closing /\ UNCHANGED stopped

\* Mutant: a later Close finds a flag and returns.
CloseBehindAtOnce(x) ==
    /\ closer[x] = "behind"
    /\ closer' = [closer EXCEPT ![x] = "returned"]
    /\ Closing /\ UNCHANGED stopped

CloseBehind(x) ==
    /\ closer[x] = "behind"
    /\ \E y \in Closers : y # x /\ closer[y] = "returned"
    /\ closer' = [closer EXCEPT ![x] = "returned"]
    /\ Closing /\ UNCHANGED stopped

-----------------------------------------------------------------------------

Init ==
    /\ pending = {} /\ queue = <<>> /\ unanswered = {}
    /\ offering = [o \in Observers |-> None] /\ full = {}
    /\ worker = [w \in Workers |-> Idle]
    /\ stopped = FALSE /\ closer = [x \in Closers |-> "outside"]

Offer(o) == Enqueue(o) \/ FindFull(o) \/ Shed(o)
Work(w) == Take(w) \/ Exit(w) \/ Unmark(w) \/ StartResolving(w) \/ FinishResolving(w)
Return(x) == CloseDone(x) \/ CloseBehind(x)

Next ==
    \/ \E o \in Observers : Offer(o) \/ \E d \in Domains : Coalesce(o, d) \/ Mark(o, d)
    \/ \E w \in Workers : Work(w)
    \/ \E x \in Closers : Close(x) \/ Return(x)

\* Goroutines run, a resolution times out, and a select with both branches
\* ready for ever takes each of them sometimes.
Fairness ==
    /\ \A o \in Observers : WF_vars(Offer(o))
    /\ \A w \in Workers : WF_vars(Work(w)) /\ SF_vars(Exit(w))
    /\ \A x \in Closers : WF_vars(Return(x))

Spec == Init /\ [][Next]_vars /\ Fairness

-----------------------------------------------------------------------------

TypeOK ==
    /\ pending \subseteq Domains /\ unanswered \subseteq Domains
    /\ queue \in Seq(Domains) /\ Len(queue) <= QueueSize
    /\ offering \in [Observers -> Domains \cup {None}]
    /\ full \subseteq Observers
    /\ worker \in [Workers -> [at : {"idle", "taken", "unmarked", "resolving", "exited"},
                               domain : Domains \cup {None}]]
    /\ stopped \in BOOLEAN
    /\ closer \in [Closers -> {"outside", "first", "behind", "returned"}]

\* service.go pending, "coalescing duplicates": a domain is marked exactly while
\* one goroutine offers it, one queue slot holds it or one worker has just
\* taken it, so no domain waits twice and no mark outlives what it stands for.
Queued == {queue[i] : i \in DOMAIN queue}
Offered == {offering[o] : o \in Observers} \ {None}
Taken == {worker[w].domain : w \in {v \in Workers : worker[v].at = "taken"}}
Once ==
    /\ \A i, j \in DOMAIN queue : i # j => queue[i] # queue[j]
    /\ \A o, p \in Observers : o # p /\ offering[o] # None => offering[o] # offering[p]
    /\ \A v, w \in Workers :
          v # w /\ worker[v].at = "taken" /\ worker[w].at = "taken"
             => worker[v].domain # worker[w].domain
MarksMatchWork ==
    /\ pending = Queued \cup Offered \cup Taken
    /\ Queued \cap Offered = {} /\ Queued \cap Taken = {} /\ Offered \cap Taken = {}
    /\ Once

\* service.go Close, "stops the background workers and waits for in-flight
\* work": when any Close has returned, no worker resolves anything any more.
QuietAfterClose == (\E x \in Closers : closer[x] = "returned") => AllExited

\* service.go schedule: a trigger, coalesced or not, is followed by a
\* resolution that starts after it, or a drop that is reported, or Close.
EveryTriggerAnswered ==
    \A d \in Domains : d \in unanswered ~> d \notin unanswered \/ stopped

\* Close returns, whatever is still in the queue and however much arrives.
CloseReturns == \A x \in Closers : closer[x] # "outside" ~> closer[x] = "returned"

=============================================================================
