--------------------------- MODULE DiscoveryProofs ---------------------------
(***************************************************************************)
(* The marks of the background queue match the work, for every number of   *)
(* observers, workers, closers and domains and every queue size; Discovery *)
(* implements the safety part of the queue, so the same holds of it; and   *)
(* what an observation leaves behind is pursued.                           *)
(***************************************************************************)
EXTENDS Discovery, SequenceTheorems, FiniteSetTheorems, TLAPS

-----------------------------------------------------------------------------
(* BackgroundQueue.                                                        *)

Inv ==
    /\ TypeOK
    /\ MarksMatchWork
    /\ \A o \in full : offering[o] # None
    /\ \A w \in Workers : worker[w].at = "taken" => worker[w].domain \in Domains
    /\ QuietAfterClose

\* Appending to a queue adds one element to what it holds.
LEMMA AppendHolds ==
  ASSUME NEW S, NEW s \in Seq(S), NEW x \in S
  PROVE  /\ Append(s, x) \in Seq(S) /\ Len(Append(s, x)) = Len(s) + 1
         /\ {Append(s, x)[i] : i \in DOMAIN Append(s, x)} = {s[i] : i \in DOMAIN s} \cup {x}
         /\ (x \notin {s[i] : i \in DOMAIN s} /\ \A i, j \in DOMAIN s : i # j => s[i] # s[j])
               => \A i, j \in DOMAIN Append(s, x) : i # j => Append(s, x)[i] # Append(s, x)[j]
  <1> DEFINE t == Append(s, x)
  <1>1. /\ DOMAIN s = 1..Len(s) /\ Len(s) \in Nat
        /\ t \in Seq(S) /\ Len(t) = Len(s) + 1 /\ DOMAIN t = 1..(Len(s) + 1)
        /\ \A i \in 1..Len(s) : t[i] = s[i]
        /\ t[Len(s) + 1] = x
    BY LenProperties
  <1> HIDE DEF t
  <1>2. {t[i] : i \in DOMAIN t} = {s[i] : i \in DOMAIN s} \cup {x}
    BY <1>1
  <1>3. ASSUME x \notin {s[i] : i \in DOMAIN s}, \A i, j \in DOMAIN s : i # j => s[i] # s[j],
               NEW i \in DOMAIN t, NEW j \in DOMAIN t, i # j
        PROVE  t[i] # t[j]
    BY <1>1, <1>3
  <1> QED
    BY <1>1, <1>2, <1>3 DEF t

\* Taking the head of a queue without repetitions removes it from the queue.
LEMMA TailHolds ==
  ASSUME NEW S, NEW s \in Seq(S), s # <<>>,
         \A i, j \in DOMAIN s : i # j => s[i] # s[j]
  PROVE  /\ Tail(s) \in Seq(S) /\ Len(Tail(s)) = Len(s) - 1
         /\ Head(s) \in S /\ Head(s) \in {s[i] : i \in DOMAIN s}
         /\ {Tail(s)[i] : i \in DOMAIN Tail(s)} = {s[i] : i \in DOMAIN s} \ {Head(s)}
         /\ \A i, j \in DOMAIN Tail(s) : i # j => Tail(s)[i] # Tail(s)[j]
  <1> DEFINE t == Tail(s)
  <1>1. /\ DOMAIN s = 1..Len(s) /\ Len(s) \in Nat \ {0}
        /\ t \in Seq(S) /\ Len(t) = Len(s) - 1 /\ DOMAIN t = 1..(Len(s) - 1)
        /\ \A i \in 1..(Len(s) - 1) : t[i] = s[i + 1]
        /\ Head(s) = s[1] /\ Head(s) \in S
    BY LenProperties, HeadTailProperties, EmptySeq
  <1> HIDE DEF t
  <1>2. {t[i] : i \in DOMAIN t} \subseteq {s[i] : i \in DOMAIN s} \ {Head(s)}
    <2>1. ASSUME NEW i \in DOMAIN t
          PROVE  t[i] \in {s[j] : j \in DOMAIN s} \ {Head(s)}
      <3>1. i + 1 \in DOMAIN s /\ 1 \in DOMAIN s /\ i + 1 # 1
        BY <1>1
      <3>2. t[i] = s[i + 1] /\ Head(s) = s[1]
        BY <1>1
      <3> QED
        BY <3>1, <3>2
    <2> QED
      BY <2>1
  <1>3. ASSUME NEW i \in DOMAIN s, s[i] # Head(s)
        PROVE  s[i] \in {t[j] : j \in DOMAIN t}
    <2>1. i - 1 \in DOMAIN t /\ t[i - 1] = s[i]
      BY <1>1, <1>3
    <2> QED
      BY <2>1
  <1>4. ASSUME NEW i \in DOMAIN t, NEW j \in DOMAIN t, i # j
        PROVE  t[i] # t[j]
    <2>1. i + 1 \in DOMAIN s /\ j + 1 \in DOMAIN s /\ i + 1 # j + 1
      BY <1>1, <1>4
    <2>2. t[i] = s[i + 1] /\ t[j] = s[j + 1]
      BY <1>1, <1>4
    <2> QED
      BY <2>1, <2>2
  <1>5. Head(s) \in {s[i] : i \in DOMAIN s}
    BY <1>1
  <1> QED
    BY <1>1, <1>2, <1>3, <1>4, <1>5 DEF t

-----------------------------------------------------------------------------

\* A step that touches neither marks nor work.
LEMMA MarksStay ==
  ASSUME MarksMatchWork, UNCHANGED <<pending, queue, offering>>, Taken' = Taken,
         \A w \in Workers : worker'[w].at = "taken" => worker'[w] = worker[w]
  PROVE  MarksMatchWork'
  <1>1. pending' = pending /\ Queued' = Queued /\ Offered' = Offered
    BY DEF Queued, Offered
  <1>2. Once'
    BY DEF MarksMatchWork, Once
  <1> QED
    BY <1>1, <1>2 DEF MarksMatchWork

LEMMA ObserverKeepsInv ==
  ASSUME Inv, NEW o \in Observers,
         \/ Offer(o)
         \/ \E d \in Domains : Coalesce(o, d) \/ Mark(o, d)
  PROVE  Inv'
  <1> USE DEF Inv
  <1>0. /\ queue \in Seq(Domains)
        /\ offering \in [Observers -> Domains \cup {None}]
        /\ Len(queue) \in Nat
    BY LenProperties DEF TypeOK
  <1>1. ASSUME NEW d \in Domains, Coalesce(o, d)
        PROVE  Inv'
    <2>1. UNCHANGED <<pending, queue, offering, full, worker, stopped, closer>>
          /\ unanswered' \subseteq Domains
      BY <1>1 DEF Coalesce, Observing, TypeOK
    <2>2. TypeOK'
      BY <2>1 DEF TypeOK
    <2>3. MarksMatchWork'
      BY <2>1, MarksStay DEF Taken
    <2> QED
      BY <2>1, <2>2, <2>3 DEF QuietAfterClose, AllExited
  <1>2. ASSUME NEW d \in Domains, Mark(o, d)
        PROVE  Inv'
    <2>1. /\ offering' = [offering EXCEPT ![o] = d] /\ offering[o] = None
          /\ d # None /\ d \notin pending /\ pending' = pending \cup {d}
          /\ UNCHANGED <<queue, full, worker, stopped, closer>>
          /\ unanswered' \subseteq Domains
      BY <1>2, QueueAssumption DEF Mark, Observing, TypeOK
    <2>2. TypeOK'
      BY <2>1 DEF TypeOK
    <2>3. Offered' = Offered \cup {d}
      BY <1>0, <2>1 DEF Offered
    <2>4. Queued' = Queued /\ Taken' = Taken
      BY <2>1 DEF Queued, Taken
    <2>5. d \notin Offered /\ d \notin Queued /\ d \notin Taken
      BY <2>1 DEF MarksMatchWork
    <2>6. Once'
      BY <1>0, <2>1, <2>5 DEF MarksMatchWork, Once, Offered
    <2> QED
      BY <1>0, <2>1, <2>2, <2>3, <2>4, <2>5, <2>6 DEF MarksMatchWork, QuietAfterClose, AllExited
  <1>3. CASE Enqueue(o)
    <2> DEFINE d == offering[o]
    <2>1. /\ d \in Domains /\ d # None /\ Len(queue) < QueueSize
          /\ queue' = Append(queue, d)
          /\ offering' = [offering EXCEPT ![o] = None]
          /\ UNCHANGED <<pending, full, worker, stopped, closer, unanswered>>
          /\ o \notin full
      BY <1>0, <1>3 DEF Enqueue, Observing
    <2>2. d \in Offered /\ d \notin Queued /\ d \notin Taken
      BY <1>0, <2>1 DEF Offered, MarksMatchWork
    <2>3. /\ queue' \in Seq(Domains) /\ Len(queue') = Len(queue) + 1
          /\ Queued' = Queued \cup {d}
          /\ \A i, j \in DOMAIN queue' : i # j => queue'[i] # queue'[j]
      BY <1>0, <2>1, <2>2, AppendHolds DEF Queued, MarksMatchWork, Once
    <2>4. TypeOK'
      BY <1>0, <2>1, <2>3, QueueAssumption DEF TypeOK
    <2>5. Offered' = Offered \ {d}
      BY <1>0, <2>1 DEF Offered, MarksMatchWork, Once
    <2>6. Taken' = Taken
      BY <2>1 DEF Taken
    <2>7. Once'
      BY <1>0, <2>1, <2>3 DEF MarksMatchWork, Once
    <2> QED
      BY <1>0, <2>1, <2>2, <2>3, <2>4, <2>5, <2>6, <2>7
         DEF MarksMatchWork, QuietAfterClose, AllExited
  <1>4. CASE FindFull(o)
    <2>1. /\ UNCHANGED <<pending, queue, offering, worker, stopped, closer, unanswered>>
          /\ full' = full \cup {o} /\ offering[o] # None
      BY <1>4 DEF FindFull, Observing
    <2>2. TypeOK'
      BY <2>1 DEF TypeOK
    <2>3. MarksMatchWork'
      BY <2>1, MarksStay DEF Taken
    <2> QED
      BY <2>1, <2>2, <2>3 DEF QuietAfterClose, AllExited
  <1>5. CASE Shed(o)
    <2> DEFINE d == offering[o]
    <2>1. /\ o \in full /\ full' = full \ {o}
          /\ pending' = pending \ {d}
          /\ offering' = [offering EXCEPT ![o] = None]
          /\ unanswered' \subseteq Domains
          /\ UNCHANGED <<queue, worker, stopped, closer>>
          /\ d # None
      BY <1>5 DEF Shed, Observing, TypeOK
    <2>2. TypeOK'
      BY <2>1 DEF TypeOK
    <2>3. d \in Offered /\ d \notin Queued /\ d \notin Taken
      BY <1>0, <2>1 DEF Offered, MarksMatchWork
    <2>4. Offered' = Offered \ {d}
      BY <1>0, <2>1 DEF Offered, MarksMatchWork, Once
    <2>5. Queued' = Queued /\ Taken' = Taken
      BY <2>1 DEF Queued, Taken
    <2>6. Once'
      BY <1>0, <2>1 DEF MarksMatchWork, Once
    <2>7. \A p \in full' : offering'[p] # None
      BY <1>0, <2>1
    <2> QED
      BY <2>1, <2>2, <2>3, <2>4, <2>5, <2>6, <2>7 DEF MarksMatchWork, QuietAfterClose, AllExited
  <1> QED
    BY <1>1, <1>2, <1>3, <1>4, <1>5 DEF Offer

LEMMA WorkerKeepsInv ==
  ASSUME Inv, NEW w \in Workers, Work(w)
  PROVE  Inv'
  <1> USE DEF Inv
  <1> DEFINE States == {"idle", "taken", "unmarked", "resolving", "exited"}
  <1>0. /\ queue \in Seq(Domains) /\ Len(queue) \in Nat
        /\ worker \in [Workers -> [at : States, domain : Domains \cup {None}]]
    BY LenProperties DEF TypeOK
  <1>1. AllExited => worker[w].at = "exited"
    BY DEF AllExited
  <1>2. worker[w].at # "exited"
    BY DEF Work, Take, Exit, Unmark, StartResolving, FinishResolving
  <1>3. ~AllExited /\ UNCHANGED closer
    BY <1>1, <1>2 DEF Work, Take, Exit, Unmark, StartResolving, FinishResolving, Working
  <1>4. QuietAfterClose'
    BY <1>3 DEF QuietAfterClose
  <1>5. UNCHANGED <<offering, full, stopped, closer>>
    BY DEF Work, Take, Exit, Unmark, StartResolving, FinishResolving, Working
  <1>6. CASE Take(w)
    <2> DEFINE d == Head(queue)
               k == [at |-> "taken", domain |-> d]
    <2>1. /\ worker[w].at = "idle" /\ queue # <<>>
          /\ worker' = [worker EXCEPT ![w] = k] /\ queue' = Tail(queue)
          /\ UNCHANGED <<pending, unanswered>>
      BY <1>6 DEF Take
    <2>2. /\ queue' \in Seq(Domains) /\ Len(queue') = Len(queue) - 1
          /\ d \in Domains /\ d \in Queued
          /\ Queued' = Queued \ {d}
          /\ \A i, j \in DOMAIN queue' : i # j => queue'[i] # queue'[j]
      <3>1. \A i, j \in DOMAIN queue : i # j => queue[i] # queue[j]
        BY DEF MarksMatchWork, Once
      <3>2. /\ Tail(queue) \in Seq(Domains) /\ Len(Tail(queue)) = Len(queue) - 1
            /\ d \in Domains /\ d \in {queue[i] : i \in DOMAIN queue}
            /\ {Tail(queue)[i] : i \in DOMAIN Tail(queue)}
                  = {queue[i] : i \in DOMAIN queue} \ {d}
            /\ \A i, j \in DOMAIN Tail(queue) : i # j => Tail(queue)[i] # Tail(queue)[j]
        BY <1>0, <2>1, <3>1, TailHolds
      <3>3. queue' = Tail(queue)
        BY <2>1
      <3> HIDE DEF d
      <3> QED
        BY <3>2, <3>3 DEF Queued
    <2>3. TypeOK'
      BY <1>0, <1>5, <2>1, <2>2, QueueAssumption DEF TypeOK
    <2>4. Taken' = Taken \cup {d}
      BY <1>0, <2>1 DEF Taken
    <2>5. d \notin Offered /\ d \notin Taken
      BY <2>2 DEF MarksMatchWork
    <2>6. Offered' = Offered
      BY <1>5 DEF Offered
    <2>7. Once'
      BY <1>0, <1>5, <2>1, <2>2, <2>5 DEF MarksMatchWork, Once, Taken
    <2>8. MarksMatchWork'
      BY <2>1, <2>2, <2>4, <2>5, <2>6, <2>7 DEF MarksMatchWork
    <2>9. \A v \in Workers : worker'[v].at = "taken" => worker'[v].domain \in Domains
      BY <1>0, <2>1, <2>2
    <2> QED
      BY <1>4, <1>5, <2>3, <2>8, <2>9
  <1>7. CASE Unmark(w)
    <2> DEFINE d == worker[w].domain
    <2>1. /\ worker[w].at = "taken" /\ d \in Domains
          /\ pending' = pending \ {d}
          /\ worker' = [worker EXCEPT ![w].at = "unmarked"]
          /\ UNCHANGED <<queue, unanswered>>
      BY <1>7 DEF Unmark
    <2>2. TypeOK'
      BY <1>0, <1>5, <2>1 DEF TypeOK
    <2>3. d \in Taken /\ d \notin Queued /\ d \notin Offered
      BY <2>1 DEF Taken, MarksMatchWork
    <2>4. Taken' = Taken \ {d}
      BY <1>0, <2>1 DEF Taken, MarksMatchWork, Once
    <2>5. Queued' = Queued /\ Offered' = Offered
      BY <1>5, <2>1 DEF Queued, Offered
    <2>6. Once'
      BY <1>0, <1>5, <2>1 DEF MarksMatchWork, Once
    <2>7. MarksMatchWork'
      BY <2>1, <2>3, <2>4, <2>5, <2>6 DEF MarksMatchWork
    <2>8. \A v \in Workers : worker'[v].at = "taken" => worker'[v].domain \in Domains
      BY <1>0, <2>1
    <2> QED
      BY <1>4, <1>5, <2>2, <2>7, <2>8
  <1>8. ASSUME Exit(w) \/ StartResolving(w) \/ FinishResolving(w)
        PROVE  Inv'
    <2>1. PICK k \in [at : States \ {"taken"}, domain : Domains \cup {None}] :
             worker' = [worker EXCEPT ![w] = k]
      <3>1. CASE Exit(w)
        <4>1. worker' = [worker EXCEPT ![w] = [worker[w] EXCEPT !.at = "exited"]]
          BY <3>1 DEF Exit
        <4>2. [worker[w] EXCEPT !.at = "exited"] \in [at : States \ {"taken"}, domain : Domains \cup {None}]
          BY <1>0
        <4> QED
          BY <4>1, <4>2
      <3>2. CASE StartResolving(w)
        <4>1. worker' = [worker EXCEPT ![w] = [worker[w] EXCEPT !.at = "resolving"]]
          BY <3>2 DEF StartResolving
        <4>2. [worker[w] EXCEPT !.at = "resolving"] \in [at : States \ {"taken"}, domain : Domains \cup {None}]
          BY <1>0
        <4> QED
          BY <4>1, <4>2
      <3>3. CASE FinishResolving(w)
        BY <3>3 DEF FinishResolving, Idle
      <3> QED
        BY <1>8, <3>1, <3>2, <3>3
    <2>2. /\ worker[w].at # "taken" /\ unanswered' \subseteq Domains
          /\ UNCHANGED <<pending, queue>>
      BY <1>8 DEF Exit, StartResolving, FinishResolving, TypeOK
    <2>3. TypeOK'
      BY <1>0, <1>5, <2>1, <2>2 DEF TypeOK
    <2>4. /\ Taken' = Taken
          /\ \A v \in Workers : worker'[v].at = "taken" => worker'[v] = worker[v]
      BY <1>0, <2>1, <2>2 DEF Taken
    <2>5. MarksMatchWork'
      BY <1>5, <2>2, <2>4, MarksStay
    <2>6. \A v \in Workers : worker'[v].at = "taken" => worker'[v].domain \in Domains
      BY <2>4
    <2> QED
      BY <1>4, <1>5, <2>3, <2>5, <2>6
  <1> QED
    BY <1>6, <1>7, <1>8 DEF Work

LEMMA CloserKeepsInv ==
  ASSUME Inv, NEW x \in Closers, Close(x) \/ Return(x)
  PROVE  Inv'
  <1> USE DEF Inv
  <1>1. /\ UNCHANGED <<pending, queue, offering, full, worker, unanswered>>
        /\ stopped' \in BOOLEAN
    BY DEF Close, Return, CloseDone, CloseBehind, Closing, TypeOK
  <1>2. closer' \in [Closers -> {"outside", "first", "behind", "returned"}]
    BY DEF Close, Return, CloseDone, CloseBehind, TypeOK
  <1>3. TypeOK'
    BY <1>1, <1>2 DEF TypeOK
  <1>4. MarksMatchWork'
    BY <1>1, MarksStay DEF Taken
  <1>5. QuietAfterClose'
    <2>1. CASE Close(x)
      BY <1>1, <2>1 DEF Close, QuietAfterClose, AllExited, TypeOK
    <2>2. CASE Return(x)
      BY <1>1, <2>2 DEF Return, CloseDone, CloseBehind, QuietAfterClose, AllExited, TypeOK
    <2> QED
      BY <2>1, <2>2
  <1> QED
    BY <1>1, <1>3, <1>4, <1>5

LEMMA InitInv == Init => Inv
  <1> SUFFICES ASSUME Init PROVE Inv
    OBVIOUS
  <1>1. queue = <<>> /\ <<>> \in Seq(Domains) /\ Len(<<>>) = 0 /\ DOMAIN <<>> = {}
    BY DEF Init
  <1>2. TypeOK
    <2>1. queue \in Seq(Domains) /\ Len(queue) <= QueueSize
      BY <1>1, QueueAssumption
    <2>2. /\ offering \in [Observers -> Domains \cup {None}]
          /\ worker \in [Workers -> [at : {"idle", "taken", "unmarked", "resolving", "exited"},
                                     domain : Domains \cup {None}]]
          /\ closer \in [Closers -> {"outside", "first", "behind", "returned"}]
      BY DEF Init, Idle
    <2> QED
      BY <2>1, <2>2 DEF Init, TypeOK
  <1>3. Queued = {}
    BY <1>1 DEF Queued
  <1>4. Offered = {} /\ Taken = {}
    BY DEF Init, Offered, Taken, Idle
  <1>5. Once
    BY <1>1 DEF Init, Once, Idle
  <1>6. MarksMatchWork
    BY <1>3, <1>4, <1>5 DEF MarksMatchWork, Init
  <1>7. QuietAfterClose
    BY DEF Init, QuietAfterClose
  <1> QED
    BY <1>2, <1>6, <1>7 DEF Inv, Init, Idle

LEMMA NextInv == Inv /\ [Next]_vars => Inv'
  <1> SUFFICES ASSUME Inv, [Next]_vars PROVE Inv'
    OBVIOUS
  <1>1. CASE Next
    BY <1>1, ObserverKeepsInv, WorkerKeepsInv, CloserKeepsInv DEF Next
  <1>2. CASE UNCHANGED vars
    <2>1. UNCHANGED <<pending, queue, offering, full, worker, stopped, closer, unanswered>>
      BY <1>2 DEF vars
    <2>2. MarksMatchWork'
      BY <2>1, MarksStay DEF Inv, Taken
    <2>3. TypeOK' /\ QuietAfterClose'
      BY <2>1 DEF Inv, TypeOK, QuietAfterClose, AllExited
    <2> QED
      BY <2>1, <2>2, <2>3 DEF Inv
  <1> QED
    BY <1>1, <1>2

LEMMA SpecInv == Spec => []Inv
  BY InitInv, NextInv, PTL DEF Spec

\* service.go schedule and worker: a domain is marked pending exactly while it
\* is offered, queued or just taken, and is in one of those places only.
THEOREM CoalescingIsExact == Spec => []MarksMatchWork
  <1>1. Inv => MarksMatchWork
    BY DEF Inv
  <1> QED
    BY <1>1, SpecInv, PTL

\* service.go Close: when a call of Close returns, every worker has exited.
THEOREM CloseIsQuiet == Spec => []QuietAfterClose
  <1>1. Inv => QuietAfterClose
    BY DEF Inv
  <1> QED
    BY <1>1, SpecInv, PTL

-----------------------------------------------------------------------------
(* Discovery, over the queue.                                              *)

Places == {"written", "due"}
TaskOK == task \in [Observers -> [at : Places, domain : Domains] \cup {NoTask}]
DInv == Inv /\ TaskOK /\ owed \subseteq Domains /\ BehindIsPursued

-----------------------------------------------------------------------------
(* Every step is a step of the queue, or none.                             *)

\* An observer's step: the queue sees schedule and nothing else.
LEMMA AttendIsQueueStep ==
  ASSUME TaskOK, NEW o \in Observers, Attend(o)
  PROVE  [Next]_vars
  <1>1. CASE Lookup(o) \/ LookupFails(o)
    BY <1>1 DEF Lookup, LookupFails, queueVars, vars
  <1>2. CASE Trigger(o)
    <2>1. task[o].domain \in Domains
      BY <1>2 DEF Trigger, TaskOK, NoTask
    <2> QED
      BY <1>2, <2>1 DEF Trigger, Next
  <1>3. CASE Deliver(o)
    BY <1>3 DEF Deliver, Next, Offer
  <1> QED
    BY <1>1, <1>2, <1>3 DEF Attend

\* A worker's step: resolve reads and writes the record, which the queue ignores.
LEMMA ResolveIsQueueStep ==
  ASSUME NEW w \in Workers, Resolve(w)
  PROVE  Next
  <1>1. Work(w)
    BY DEF Resolve, Turn, ReadRecord, ResolveNothing, ResolveEnds, Work
  <1> QED
    BY <1>1 DEF Next

\* What is heard reaches the queue only through Trigger.
LEMMA HearingIsNoQueueStep ==
  ASSUME NEW o, NEW s, Observe(o, s) \/ ObserveUnusable(s)
  PROVE  UNCHANGED vars
  BY DEF Observe, Begins, ObserveUnusable, queueVars, vars

LEMMA StepIsQueueStep == TaskOK /\ [DNext]_dvars => [Next]_vars
  <1> SUFFICES ASSUME TaskOK, [DNext]_dvars PROVE [Next]_vars
    OBVIOUS
  <1>1. ASSUME NEW o \in Observers, Attend(o) PROVE [Next]_vars
    BY <1>1, AttendIsQueueStep
  <1>2. ASSUME NEW o \in Observers, NEW s \in Hears[o], Observe(o, s) \/ ObserveUnusable(s)
        PROVE  [Next]_vars
    BY <1>2, HearingIsNoQueueStep
  <1>3. ASSUME NEW w \in Workers, Resolve(w) PROVE [Next]_vars
    BY <1>3, ResolveIsQueueStep
  <1>4. ASSUME NEW x \in Closers, Ending(x) PROVE [Next]_vars
    BY <1>4 DEF Ending, Next
  <1>5. CASE UNCHANGED dvars
    BY <1>5 DEF dvars, queueVars, vars
  <1> QED
    BY <1>1, <1>2, <1>3, <1>4, <1>5 DEF DNext

-----------------------------------------------------------------------------
(* What an observation left behind is pursued.                             *)

\* What BehindIsPursued rests on: a domain of an observer, a mark or a worker that
\* is about to look stays one, unless it is no longer owed.
LEMMA PursuitStays ==
  ASSUME BehindIsPursued, owed' \subseteq owed, stopped => stopped',
         \A d \in owed' : OnTheWay(d) => OnTheWay(d)'
  PROVE  BehindIsPursued'
  BY DEF BehindIsPursued

\* An observer's step hands its domain from its task to the queue's mark.
LEMMA AttendKeepsPursuit ==
  ASSUME DInv, NEW o \in Observers, Attend(o)
  PROVE  TaskOK' /\ owed' \subseteq Domains /\ BehindIsPursued'
  <1> USE DEF DInv
  <1>0. owed \subseteq Domains /\ None \notin Domains
    BY QueueAssumption
  <1>1. CASE Lookup(o)
    <2>1. \/ task' = [task EXCEPT ![o] = [task[o] EXCEPT !.at = "due"]] /\ owed' = owed
          \/ task' = [task EXCEPT ![o] = NoTask] /\ owed' = owed \ {task[o].domain}
      BY <1>1 DEF Lookup
    <2>2. TaskOK' /\ owed' \subseteq owed
      BY <1>1, <2>1 DEF Lookup, TaskOK, Places, NoTask
    <2>3. ASSUME NEW d \in owed', OnTheWay(d) PROVE OnTheWay(d)'
      <3>1. UNCHANGED <<pending, worker>>
        BY <1>1 DEF Lookup, queueVars
      <3>2. CASE \E p \in Observers : task[p].domain = d
        BY <1>0, <2>1, <2>2, <2>3, <3>2 DEF OnTheWay, TaskOK, NoTask
      <3> QED
        BY <2>3, <3>1, <3>2 DEF OnTheWay
    <2> QED
      BY <1>0, <1>1, <2>2, <2>3, PursuitStays DEF Lookup, queueVars
  <1>2. CASE LookupFails(o)
    <2>1. TaskOK' /\ owed' \subseteq owed
      BY <1>2 DEF LookupFails, TaskOK, NoTask
    <2>2. ASSUME NEW d \in owed', OnTheWay(d) PROVE OnTheWay(d)'
      BY <1>0, <1>2, <2>1, <2>2 DEF LookupFails, queueVars, OnTheWay, TaskOK, NoTask
    <2> QED
      BY <1>0, <1>2, <2>1, <2>2, PursuitStays DEF LookupFails, queueVars
  <1>3. CASE Trigger(o)
    <2>1. TaskOK' /\ owed' = owed /\ stopped' = stopped
      BY <1>3 DEF Trigger, TaskOK, NoTask, Coalesce, Mark, Observing
    <2>2. task[o].domain \in pending' /\ pending \subseteq pending' /\ worker' = worker
      BY <1>3 DEF Trigger, Coalesce, Mark, Observing
    <2>3. ASSUME NEW d \in owed', OnTheWay(d) PROVE OnTheWay(d)'
      <3>1. CASE \E p \in Observers : task[p].domain = d
        BY <1>3, <2>2, <3>1 DEF Trigger, OnTheWay, TaskOK
      <3> QED
        BY <2>2, <2>3, <3>1 DEF OnTheWay
    <2> QED
      BY <1>0, <2>1, <2>3, PursuitStays
  <1>4. CASE Deliver(o)
    <2>1. UNCHANGED <<task, worker, stopped>> /\ TaskOK' /\ owed' \subseteq owed
      BY <1>4 DEF Deliver, Enqueue, FindFull, Shed, Observing, TaskOK
    <2>2. \A d \in owed' : d \in pending => d \in pending'
      BY <1>4 DEF Deliver, Enqueue, FindFull, Shed
    <2>3. ASSUME NEW d \in owed', OnTheWay(d) PROVE OnTheWay(d)'
      BY <2>1, <2>2, <2>3 DEF OnTheWay
    <2> QED
      BY <1>0, <2>1, <2>3, PursuitStays
  <1> QED
    BY <1>1, <1>2, <1>3, <1>4 DEF Attend

\* A worker's step takes the mark down only to look, and looks only to settle.
LEMMA ResolveKeepsPursuit ==
  ASSUME DInv, NEW w \in Workers, Resolve(w)
  PROVE  TaskOK' /\ owed' \subseteq Domains /\ BehindIsPursued'
  <1> USE DEF DInv
  <1> DEFINE Ats == {"idle", "taken", "unmarked", "resolving", "exited"}
  <1>0. /\ owed \subseteq Domains
        /\ worker \in [Workers -> [at : Ats, domain : Domains \cup {None}]]
    BY DEF Inv, TypeOK
  <1>1. UNCHANGED task /\ TaskOK' /\ stopped' = stopped
    BY DEF Resolve, Turn, ReadRecord, ResolveNothing, ResolveEnds, Take, Exit, Unmark,
           StartResolving, FinishResolving, Working, TaskOK
  <1>2. owed' \subseteq owed
    BY DEF Resolve, Turn, ReadRecord, ResolveNothing, ResolveEnds
  <1>3. CASE Turn(w)
    <2>1. ASSUME NEW d \in owed', OnTheWay(d) PROVE OnTheWay(d)'
      <3>1. CASE Unmark(w)
        <4>1. worker'[w] = [at |-> "unmarked", domain |-> worker[w].domain]
          BY <1>0, <3>1 DEF Unmark
        <4>2. \A v \in Workers : v # w => worker'[v] = worker[v]
          BY <1>0, <3>1 DEF Unmark
        <4>3. worker[w].at = "taken" /\ pending' = pending \ {worker[w].domain}
          BY <3>1 DEF Unmark
        <4>4. CASE d = worker[w].domain
          BY <4>1, <4>4 DEF OnTheWay
        <4>5. CASE d # worker[w].domain
          BY <1>1, <2>1, <4>2, <4>3, <4>5 DEF OnTheWay
        <4> QED
          BY <4>4, <4>5
      <3>2. CASE Take(w) \/ Exit(w)
        <4>1. pending' = pending /\ worker[w].at = "idle"
          BY <3>2 DEF Take, Exit
        <4>2. \A v \in Workers : v # w => worker'[v] = worker[v]
          BY <1>0, <3>2 DEF Take, Exit
        <4> QED
          BY <1>1, <2>1, <4>1, <4>2 DEF OnTheWay
      <3> QED
        BY <1>3, <3>1, <3>2 DEF Turn
    <2> QED
      BY <1>0, <1>1, <1>2, <2>1, PursuitStays
  <1>4. CASE ReadRecord(w)
    <2>1. /\ pending' = pending /\ worker[w].at = "unmarked"
          /\ owed' = owed \ {worker[w].domain}
      BY <1>4 DEF ReadRecord, StartResolving
    <2>2. \A v \in Workers : v # w => worker'[v] = worker[v]
      BY <1>0, <1>4 DEF ReadRecord, StartResolving
    <2>3. ASSUME NEW d \in owed', OnTheWay(d) PROVE OnTheWay(d)'
      BY <1>1, <2>1, <2>2, <2>3 DEF OnTheWay
    <2> QED
      BY <1>0, <1>1, <1>2, <2>3, PursuitStays
  <1>5. CASE ResolveNothing(w) \/ \E m \in Manifests \cup {None} : ResolveEnds(w, m)
    <2>1. pending' = pending /\ worker[w].at = "resolving"
      BY <1>5 DEF ResolveNothing, ResolveEnds, FinishResolving
    <2>2. \A v \in Workers : v # w => worker'[v] = worker[v]
      BY <1>0, <1>5 DEF ResolveNothing, ResolveEnds, FinishResolving
    <2>3. ASSUME NEW d \in owed', OnTheWay(d) PROVE OnTheWay(d)'
      BY <1>1, <2>1, <2>2, <2>3 DEF OnTheWay
    <2> QED
      BY <1>0, <1>1, <1>2, <2>3, PursuitStays
  <1> QED
    BY <1>3, <1>4, <1>5 DEF Resolve

\* An observation that is written owes its domain, and its task is at it.
LEMMA ObserveKeepsPursuit ==
  ASSUME DInv, NEW o \in Observers, NEW s \in Hears[o], Observe(o, s) \/ ObserveUnusable(s)
  PROVE  TaskOK' /\ owed' \subseteq Domains /\ BehindIsPursued'
  <1> USE DEF DInv
  <1>0. owed \subseteq Domains /\ None \notin Domains /\ s.domain \in Domains
    BY QueueAssumption, SightingAssumption DEF Sighting
  <1>1. UNCHANGED <<pending, worker, stopped>>
    BY HearingIsNoQueueStep DEF vars
  <1>2. CASE Observe(o, s)
    <2>1. task[o] = NoTask /\ task' = [task EXCEPT ![o] = [at |-> "written", domain |-> s.domain]]
      BY <1>2 DEF Observe, Begins
    <2>2. TaskOK' /\ task'[o].domain = s.domain /\ owed' \subseteq owed \cup {s.domain}
      BY <1>0, <1>2, <2>1 DEF Observe, Begins, TaskOK, Places
    <2>3. ASSUME NEW d \in owed', d # s.domain PROVE stopped' \/ OnTheWay(d)'
      <3>1. d \in owed /\ (stopped \/ OnTheWay(d))
        BY <2>2, <2>3 DEF BehindIsPursued
      <3>2. CASE \E p \in Observers : task[p].domain = d
        BY <1>0, <2>1, <3>1, <3>2 DEF OnTheWay, TaskOK, NoTask
      <3> QED
        BY <1>1, <3>1, <3>2 DEF OnTheWay
    <2>4. OnTheWay(s.domain)'
      BY <2>2 DEF OnTheWay
    <2> QED
      BY <1>0, <2>2, <2>3, <2>4 DEF BehindIsPursued
  <1>3. CASE ObserveUnusable(s)
    <2>1. UNCHANGED <<task, owed>>
      BY <1>3 DEF ObserveUnusable
    <2>2. \A d : OnTheWay(d) => OnTheWay(d)'
      BY <1>1, <2>1 DEF OnTheWay
    <2> QED
      BY <1>0, <1>1, <2>1, <2>2, PursuitStays DEF TaskOK
  <1> QED
    BY <1>2, <1>3

-----------------------------------------------------------------------------
(* No record wins over another.                                            *)

\* A row says what all the records it was made of say.
Voices(row, ads) ==
    /\ \A i \in DOMAIN ads :
        /\ row.id # None => ads[i].id \in {None, row.id}
        /\ row.fp # None => ads[i].fp \in {None, row.fp}
        /\ row.authority # None => ads[i].authority = row.authority
    /\ row.status = "inconsistent" <=> Disagree(ads)

\* Some goroutine may hear d's records agree on this fingerprint.
Agreeable(fp, d) ==
    \E s \in UNION {Hears[o] : o \in Observers} :
        /\ s.domain = d /\ s.source = "dns"
        /\ Said(Usable(s.records), "fp") \ {None} = {fp}

\* A value they all give is the only one given, and disagreement is two values.
LEMMA AgreedMeans ==
  ASSUME NEW S, IsFiniteSet(S)
  PROVE  /\ Agreed(S) # None => S = {Agreed(S)}
         /\ Cardinality(S) > 1 <=> \E x, y \in S : x # y
  <1>1. Cardinality(S) \in Nat
    BY FS_CardinalityType
  <1>2. Cardinality(S) = 0 <=> S = {}
    BY FS_EmptySet
  <1>3. Cardinality(S) = 1 <=> \E x : S = {x}
    BY FS_Singleton
  <1>4. Agreed(S) # None => S = {Agreed(S)}
    BY <1>3 DEF Agreed
  <1>5. Cardinality(S) > 1 <=> Cardinality(S) # 0 /\ Cardinality(S) # 1
    BY <1>1
  <1>6. (\E x, y \in S : x # y) <=> S # {} /\ ~ \E x : S = {x}
    OBVIOUS
  <1> QED
    BY <1>2, <1>3, <1>4, <1>5, <1>6

\* Finitely many records say finitely many things.
LEMMA SaidIsFinite ==
  ASSUME NEW ads, IsFiniteSet(DOMAIN ads), NEW field
  PROVE  IsFiniteSet(Said(ads, field) \ {None})  /\ IsFiniteSet(Said(ads, field))
  <1> DEFINE f == [i \in DOMAIN ads |-> ads[i][field]]
  <1>1. f \in Surjection(DOMAIN ads, Said(ads, field))
    BY DEF Surjection, Said
  <1>2. IsFiniteSet(Said(ads, field))
    BY <1>1, FS_Surjection
  <1> QED
    BY <1>2, FS_Subset

LEMMA UsableRecords ==
  ASSUME NEW records \in Seq(Advertisement \cup {Malformed})
  PROVE  /\ IsFiniteSet(DOMAIN Usable(records))
         /\ \A i \in DOMAIN Usable(records) : Usable(records)[i] \in Advertisement
  <1>1. DOMAIN records = 1..Len(records) /\ Len(records) \in Nat
        /\ \A i \in DOMAIN records : records[i] \in Advertisement \cup {Malformed}
    BY LenProperties
  <1>2. DOMAIN Usable(records) \subseteq 1..Len(records)
    BY <1>1 DEF Usable
  <1>3. IsFiniteSet(DOMAIN Usable(records))
    <2>1. IsFiniteSet(1..Len(records))
      BY <1>1, FS_Interval
    <2> QED
      BY <1>2, <2>1, FS_Subset
  <1> QED
    BY <1>1, <1>3 DEF Usable

\* combine: what one row is made of.
LEMMA CombineMeans ==
  ASSUME NEW ads, IsFiniteSet(DOMAIN ads), \A i \in DOMAIN ads : ads[i] \in Advertisement
  PROVE  /\ Combine(ads) \in Row /\ [Combine(ads) EXCEPT !.fp = None] \in Row
         /\ Voices(Combine(ads), ads)
         /\ Combine(ads).fp # None => Said(ads, "fp") \ {None} = {Combine(ads).fp}
  <1> DEFINE ids == Said(ads, "id") \ {None}
             fps == Said(ads, "fp") \ {None}
             all == Said(ads, "authority")
             row == Combine(ads)
  <1>1. /\ IsFiniteSet(ids) /\ IsFiniteSet(fps) /\ IsFiniteSet(all)
    BY SaidIsFinite
  <1>2. /\ \A i \in DOMAIN ads : /\ ads[i].id \in Manifests \cup {None}
                                 /\ ads[i].fp \in Fingerprints \cup {None}
                                 /\ ads[i].authority \in Delegates \cup {None}
    BY DEF Advertisement
  <1>3. ids \subseteq Manifests /\ fps \subseteq Fingerprints /\ all \subseteq Delegates \cup {None}
    BY <1>2 DEF Said
  <1>4. /\ \A i \in DOMAIN ads : ads[i].id \in ids \cup {None}
        /\ \A i \in DOMAIN ads : ads[i].fp \in fps \cup {None}
        /\ \A i \in DOMAIN ads : ads[i].authority \in all
    BY DEF Said
  <1>5. /\ row.id = Agreed(ids) /\ row.fp = Agreed(fps) /\ row.authority = Agreed(all)
        /\ row = [id |-> row.id, fp |-> row.fp, authority |-> row.authority, status |-> row.status]
        /\ row.status = IF \E f \in {"id", "fp"} : Cardinality(Said(ads, f) \ {None}) > 1
                        THEN "inconsistent" ELSE "pending"
    BY DEF Combine
  <1> HIDE DEF row
  <1>6. \A i, j \in DOMAIN ads : /\ ads[i]["id"] = ads[i].id /\ ads[i]["fp"] = ads[i].fp
    OBVIOUS
  <1>7. /\ (\E x, y \in ids : x # y) <=>
             \E i, j \in DOMAIN ads : None \notin {ads[i].id, ads[j].id} /\ ads[i].id # ads[j].id
        /\ (\E x, y \in fps : x # y) <=>
             \E i, j \in DOMAIN ads : None \notin {ads[i].fp, ads[j].fp} /\ ads[i].fp # ads[j].fp
    BY DEF Said
  <1>8. Disagree(ads) <=> (\E x, y \in ids : x # y) \/ (\E x, y \in fps : x # y)
    BY <1>7 DEF Disagree
  <1>9. Disagree(ads) <=> Cardinality(ids) > 1 \/ Cardinality(fps) > 1
    BY <1>1, <1>8, AgreedMeans
  <1>10. row.status = "inconsistent" <=> Disagree(ads)
    BY <1>5, <1>9
  <1>11. /\ row.id # None => ids = {row.id}
         /\ row.fp # None => fps = {row.fp}
         /\ row.authority # None => all = {row.authority}
    BY <1>1, <1>5, AgreedMeans
  <1>12. Voices(row, ads)
    BY <1>4, <1>10, <1>11 DEF Voices
  <1>13. /\ row.id \in Manifests \cup {None} /\ row.fp \in Fingerprints \cup {None}
         /\ row.authority \in Delegates \cup {None}
    BY <1>3, <1>11
  <1>14. row.status \in {"inconsistent", "pending"}
    BY <1>5
  <1>15. row \in Row /\ [row EXCEPT !.fp = None] \in Row
    <2> DEFINE i0 == row.id
               f0 == row.fp
               a0 == row.authority
               s0 == row.status
    <2>1. row = [id |-> i0, fp |-> f0, authority |-> a0, status |-> s0]
      BY <1>5
    <2>2. /\ i0 \in Manifests \cup {None} /\ f0 \in Fingerprints \cup {None}
          /\ a0 \in Delegates \cup {None} /\ s0 \in {"inconsistent", "pending"}
      BY <1>13, <1>14
    <2> HIDE DEF i0, f0, a0, s0
    <2> QED
      BY <2>1, <2>2 DEF Row
  <1> QED
    BY <1>11, <1>12, <1>15 DEF row

\* classify tells how an observation stands, and changes nothing it says.
LEMMA ClassifyMeans ==
  ASSUME NEW p, NEW o \in Row
  PROVE  /\ Classify(p, o) \in Row
         /\ \A ads : Voices(o, ads) => Voices(Classify(p, o), ads)
         /\ Classify(p, o).fp = o.fp
  <1>1. \/ Classify(p, o) = o
        \/ /\ o.status # "inconsistent"
           /\ \E st \in {"pending", "confirmed", "stale"} : Classify(p, o) = [o EXCEPT !.status = st]
    BY DEF Classify
  <1> QED
    BY <1>1 DEF Row, Voices

\* Putting an observation of a source replaces its row and leaves the other.
LEMMA PutMeans ==
  ASSUME NEW p \in Record \cup {None}, NEW source \in {"dns", "header"}, NEW o \in Row
  PROVE  LET q == PutObservation(p, source, o)
         IN  /\ q \in Record
             /\ source = "dns" => /\ q.dns = Classify(Upsert(p), o)
                                  /\ q.opinion = IF o.fp # None THEN o.fp ELSE Upsert(p).opinion
             /\ source = "header" => q.dns = Upsert(p).dns /\ q.opinion = Upsert(p).opinion
  <1> DEFINE q == Upsert(p)
             row == Classify(q, o)
  <1>1. q \in Record
    BY DEF Upsert, Record
  <1>2. row \in Row /\ o.fp \in Fingerprints \cup {None}
    BY ClassifyMeans DEF Row
  <1> HIDE DEF q, row
  <1>3. PutObservation(p, source, o) =
          [[q EXCEPT ![source] = row] EXCEPT
              !.opinion = IF source = "dns" /\ o.fp # None THEN o.fp ELSE @]
    BY DEF PutObservation, q, row
  <1>4. CASE source = "dns"
    <2>1. PutObservation(p, source, o) =
            [effective |-> q.effective, dns |-> row, header |-> q.header,
             opinion |-> IF o.fp # None THEN o.fp ELSE q.opinion]
      BY <1>1, <1>3, <1>4 DEF Record
    <2> QED
      BY <1>1, <1>2, <1>4, <2>1 DEF Record, q, row
  <1>5. CASE source = "header"
    <2>1. PutObservation(p, source, o) =
            [effective |-> q.effective, dns |-> q.dns, header |-> row, opinion |-> q.opinion]
      BY <1>1, <1>3, <1>5 DEF Record
    <2> QED
      BY <1>1, <1>2, <1>5, <2>1 DEF Record, q
  <1> QED
    BY <1>4, <1>5

\* Installing a manifest, or none, tells anew how the rows stand, and leaves what
\* they say.
LEMMA InstallMeans ==
  ASSUME NEW p \in Record \cup {None}, NEW m \in Manifests \cup {None}
  PROVE  LET q == IF m = None THEN Reconcile(Upsert(p)) ELSE Install(p, m)
         IN  /\ q \in Record /\ q.opinion = Upsert(p).opinion
             /\ q.dns # None => /\ Upsert(p).dns # None
                                /\ \A ads : Voices(Upsert(p).dns, ads) => Voices(q.dns, ads)
  <1> DEFINE u == Upsert(p)
             v == IF m = None THEN u ELSE [u EXCEPT !.effective = m]
             told(r) == IF r = None THEN None ELSE Classify(v, r)
  <1>1. u \in Record
    BY DEF Upsert, Record
  <1> HIDE DEF u
  <1>2. v \in Record /\ v.dns = u.dns /\ v.header = u.header /\ v.opinion = u.opinion
    BY <1>1 DEF Record
  <1> HIDE DEF v
  <1>3. (IF m = None THEN Reconcile(u) ELSE Install(p, m)) = Reconcile(v)
    BY DEF Install, u, v
  <1>4. ASSUME NEW r \in Row \cup {None}
        PROVE  /\ told(r) \in Row \cup {None}
               /\ told(r) # None => r # None /\ \A ads : Voices(r, ads) => Voices(told(r), ads)
    BY ClassifyMeans
  <1>5. Reconcile(v) = [effective |-> v.effective, dns |-> told(v.dns),
                        header |-> told(v.header), opinion |-> v.opinion]
    <2>1. Reconcile(v) = [v EXCEPT !.dns = told(v.dns), !.header = told(v.header)]
      BY DEF Reconcile
    <2> HIDE DEF told
    <2>2. v = [effective |-> v.effective, dns |-> v.dns, header |-> v.header,
               opinion |-> v.opinion]
      BY <1>2 DEF Record
    <2> QED
      BY <2>1, <2>2
  <1>6. v.dns \in Row \cup {None} /\ v.header \in Row \cup {None}
    BY <1>2 DEF Record
  <1> HIDE DEF told
  <1>7. Reconcile(v) \in Record
    BY <1>2, <1>4, <1>5, <1>6 DEF Record
  <1> QED
    BY <1>2, <1>3, <1>4, <1>5, <1>6, <1>7 DEF u

-----------------------------------------------------------------------------
(* The invariant.                                                          *)

RecordsOK ==
    /\ record \in [Domains -> Record \cup {None}]
    /\ fetching \subseteq Workers
    /\ heard \in [Domains -> Seq(Advertisement \cup {Malformed})]

\* What the record of one domain and what was heard of it say of each other.
Faithful(d, p, records) ==
    p # None =>
        /\ p.dns # None => Voices(p.dns, Usable(records))
        /\ p.opinion # None => Agreeable(p.opinion, d)

RecordInv == RecordsOK /\ \A d \in Domains : Faithful(d, record[d], heard[d])

\* A write that is faithful to what was heard keeps every record so.
LEMMA WriteKeeps ==
  ASSUME RecordInv, NEW d \in Domains, NEW q, NEW records,
         q \in Record, records \in Seq(Advertisement \cup {Malformed}),
         Faithful(d, q, records),
         record' = [record EXCEPT ![d] = q], heard' = [heard EXCEPT ![d] = records],
         fetching' \subseteq Workers
  PROVE  RecordInv'
  <1>1. /\ record \in [Domains -> Record \cup {None}]
        /\ heard \in [Domains -> Seq(Advertisement \cup {Malformed})]
    BY DEF RecordInv, RecordsOK
  <1>2. RecordsOK'
    BY <1>1 DEF RecordsOK
  <1>3. \A e \in Domains : /\ record'[e] = IF e = d THEN q ELSE record[e]
                           /\ heard'[e] = IF e = d THEN records ELSE heard[e]
    BY <1>1
  <1>4. \A e \in Domains : Faithful(e, record'[e], heard'[e])
    BY <1>3 DEF RecordInv
  <1> QED
    BY <1>2, <1>4 DEF RecordInv

LEMMA InitDInv == DInit => DInv
  <1> SUFFICES ASSUME DInit PROVE DInv
    OBVIOUS
  <1>1. Inv
    BY InitInv DEF DInit
  <1>2. TaskOK /\ owed = {}
    BY DEF DInit, TaskOK
  <1> QED
    BY <1>1, <1>2 DEF DInv, BehindIsPursued

LEMMA NextDInv == DInv /\ [DNext]_dvars => DInv'
  <1> SUFFICES ASSUME DInv, [DNext]_dvars PROVE DInv'
    OBVIOUS
  <1>1. Inv'
    BY StepIsQueueStep, NextInv DEF DInv
  <1>2. CASE \E o \in Observers : Attend(o) \/ \E s \in Hears[o] : Observe(o, s) \/ ObserveUnusable(s)
    BY <1>1, <1>2, AttendKeepsPursuit, ObserveKeepsPursuit DEF DInv
  <1>3. CASE \E w \in Workers : Resolve(w)
    BY <1>1, <1>3, ResolveKeepsPursuit DEF DInv
  <1>4. CASE \E x \in Closers : Ending(x)
    <2>1. UNCHANGED <<task, owed, pending, worker>> /\ (stopped => stopped')
      BY <1>4 DEF Ending, Close, Return, CloseDone, CloseBehind, Closing
    <2>2. \A d : OnTheWay(d) => OnTheWay(d)'
      BY <2>1 DEF OnTheWay
    <2> QED
      BY <1>1, <2>1, <2>2, PursuitStays DEF DInv, TaskOK
  <1>5. CASE UNCHANGED dvars
    <2>1. UNCHANGED <<task, owed, pending, worker, stopped>>
      BY <1>5 DEF dvars, queueVars
    <2>2. \A d : OnTheWay(d) => OnTheWay(d)'
      BY <2>1 DEF OnTheWay
    <2> QED
      BY <1>1, <2>1, <2>2, PursuitStays DEF DInv, TaskOK
  <1> QED
    BY <1>2, <1>3, <1>4, <1>5 DEF DNext

LEMMA DSpecInv == DSpec => []DInv
  BY InitDInv, NextDInv, PTL DEF DSpec

\* What is observed of a domain, from either source.
LEMMA SightingKeeps ==
  ASSUME RecordInv, NEW o \in Observers, NEW s \in Hears[o], NEW row \in Row,
         Put(s, row), fetching' = fetching,
         s.source = "dns" => /\ Voices(row, Usable(s.records))
                             /\ row.fp # None => Said(Usable(s.records), "fp") \ {None} = {row.fp}
  PROVE  RecordInv'
  <1> DEFINE d == s.domain
             p == record[d]
             q == PutObservation(p, s.source, row)
             records == IF s.source = "dns" THEN s.records ELSE heard[d]
  <1>1. /\ s \in Sighting /\ d \in Domains /\ s.source \in {"dns", "header"}
        /\ s.source = "dns" => s.records \in Seq(Advertisement \cup {Malformed})
    BY SightingAssumption DEF Sighting
  <1>2. /\ p \in Record \cup {None} /\ heard \in [Domains -> Seq(Advertisement \cup {Malformed})]
        /\ Faithful(d, p, heard[d])
    BY <1>1 DEF RecordInv, RecordsOK
  <1>3. record' = [record EXCEPT ![d] = q] /\ heard' = [heard EXCEPT ![d] = records]
    <2>1. record' = [record EXCEPT ![d] = q]
      BY DEF Put
    <2>2. heard' = [heard EXCEPT ![d] = records]
      BY <1>1, <1>2 DEF Put
    <2> QED
      BY <2>1, <2>2
  <1>4. /\ q \in Record
        /\ s.source = "dns" => /\ q.dns = Classify(Upsert(p), row)
                               /\ q.opinion = IF row.fp # None THEN row.fp ELSE Upsert(p).opinion
        /\ s.source = "header" => q.dns = Upsert(p).dns /\ q.opinion = Upsert(p).opinion
    BY <1>1, <1>2, PutMeans
  <1>5. /\ Upsert(p).dns # None => p # None /\ Upsert(p).dns = p.dns
        /\ Upsert(p).opinion # None => p # None /\ Upsert(p).opinion = p.opinion
    BY DEF Upsert
  <1> HIDE DEF q
  <1>6. Faithful(d, q, records)
    <2>1. CASE s.source = "dns"
      <3>1. Voices(q.dns, Usable(s.records))
        BY <1>4, <2>1, ClassifyMeans
      <3>2. row.fp # None => Agreeable(row.fp, d)
        BY <2>1 DEF Agreeable
      <3>3. q.opinion # None => Agreeable(q.opinion, d)
        BY <1>2, <1>4, <1>5, <2>1, <3>2 DEF Faithful
      <3> QED
        BY <2>1, <3>1, <3>3 DEF Faithful
    <2>2. CASE s.source = "header"
      BY <1>2, <1>4, <1>5, <2>2 DEF Faithful
    <2> QED
      BY <1>1, <2>1, <2>2
  <1>7. records \in Seq(Advertisement \cup {Malformed}) /\ fetching' \subseteq Workers
    BY <1>1, <1>2 DEF RecordInv, RecordsOK
  <1> HIDE DEF d, p, records
  <1>8. d \in Domains
    BY <1>1 DEF d
  <1> QED
    BY <1>3, <1>4, <1>6, <1>7, <1>8, WriteKeeps

LEMMA HearingKeeps ==
  ASSUME RecordInv, NEW o \in Observers, NEW s \in Hears[o], Observe(o, s) \/ ObserveUnusable(s)
  PROVE  RecordInv'
  <1>1. s \in Sighting
    BY SightingAssumption
  <1>2. CASE Observe(o, s)
    <2>1. Put(s, RowOf(s)) /\ fetching' = fetching
      BY <1>2 DEF Observe, Begins
    <2>2. CASE s.source = "dns"
      <3>1. RowOf(s) = Combine(Usable(s.records)) /\ s.records \in Seq(Advertisement \cup {Malformed})
        BY <1>1, <2>2 DEF RowOf, Sighting
      <3>2. /\ RowOf(s) \in Row /\ Voices(RowOf(s), Usable(s.records))
            /\ RowOf(s).fp # None => Said(Usable(s.records), "fp") \ {None} = {RowOf(s).fp}
        BY <3>1, UsableRecords, CombineMeans
      <3> QED
        BY <2>1, <3>2, SightingKeeps
    <2>3. CASE s.source = "header"
      <3>1. PICK a \in Advertisement : s.records = <<a>>
        BY <1>1, <2>3 DEF Sighting
      <3>2. DOMAIN <<a>> = {1} /\ <<a>>[1] = a
        OBVIOUS
      <3>3. IsFiniteSet({1})
        BY FS_Singleton
      <3>4. [Combine(<<a>>) EXCEPT !.fp = None] \in Row
        <4>1. IsFiniteSet(DOMAIN <<a>>)
          BY <3>2, <3>3
        <4>2. \A i \in DOMAIN <<a>> : <<a>>[i] \in Advertisement
          BY <3>2
        <4> QED
          BY <4>1, <4>2, CombineMeans
      <3>5. RowOf(s) \in Row
        BY <2>3, <3>1, <3>4 DEF RowOf
      <3> QED
        BY <2>1, <2>3, <3>5, SightingKeeps
    <2> QED
      BY <1>1, <2>2, <2>3 DEF Sighting
  <1>3. CASE ObserveUnusable(s)
    <2> DEFINE row == [id |-> None, fp |-> None, authority |-> None, status |-> "malformed"]
    <2>1. row \in Row
      BY DEF Row
    <2>2. Voices(row, Usable(s.records))
      <3>1. DOMAIN Usable(s.records) = {}
        BY <1>3 DEF ObserveUnusable
      <3> QED
        BY <3>1 DEF Voices, Disagree
    <2>3. Put(s, row) /\ fetching' = fetching /\ row.fp = None
      BY <1>3 DEF ObserveUnusable
    <2> HIDE DEF row
    <2> QED
      BY <2>1, <2>2, <2>3, SightingKeeps
  <1> QED
    BY <1>2, <1>3

LEMMA ResolvingKeeps ==
  ASSUME RecordInv, TypeOK, NEW w \in Workers, Resolve(w)
  PROVE  RecordInv'
  <1>1. CASE Turn(w) \/ ReadRecord(w) \/ ResolveNothing(w)
    <2>1. record' = record /\ heard' = heard /\ fetching' \subseteq Workers
      BY <1>1 DEF Turn, ReadRecord, ResolveNothing, RecordInv, RecordsOK
    <2> QED
      BY <2>1 DEF RecordInv, RecordsOK
  <1>2. ASSUME NEW m \in Manifests \cup {None}, ResolveEnds(w, m)
        PROVE  RecordInv'
    <2> DEFINE d == worker[w].domain
               p == record[d]
               q == IF m = None THEN Reconcile(Upsert(p)) ELSE Install(p, m)
    <2>1. /\ record' = [record EXCEPT ![d] = q] /\ heard' = heard
          /\ fetching' = fetching \ {w}
      BY <1>2 DEF ResolveEnds
    <2>2. CASE d \in Domains
      <3>1. /\ p \in Record \cup {None} /\ heard[d] \in Seq(Advertisement \cup {Malformed})
            /\ Faithful(d, p, heard[d]) /\ heard \in [Domains -> Seq(Advertisement \cup {Malformed})]
            /\ fetching' \subseteq Workers
        BY <2>1, <2>2 DEF RecordInv, RecordsOK
      <3>2. /\ q \in Record /\ q.opinion = Upsert(p).opinion
            /\ q.dns # None => /\ Upsert(p).dns # None
                               /\ \A ads : Voices(Upsert(p).dns, ads) => Voices(q.dns, ads)
        BY <3>1, InstallMeans
      <3>3. /\ Upsert(p).dns # None => p # None /\ Upsert(p).dns = p.dns
            /\ Upsert(p).opinion # None => p # None /\ Upsert(p).opinion = p.opinion
        BY DEF Upsert
      <3> HIDE DEF q
      <3>4. Faithful(d, q, heard[d])
        BY <3>1, <3>2, <3>3 DEF Faithful
      <3>5. heard' = [heard EXCEPT ![d] = heard[d]]
        BY <2>1, <2>2, <3>1
      <3> HIDE DEF d, p
      <3> QED
        BY <2>1, <2>2, <3>1, <3>2, <3>4, <3>5, WriteKeeps
    <2>3. CASE d \notin Domains
      <3>1. record \in [Domains -> Record \cup {None}]
        BY DEF RecordInv, RecordsOK
      <3> HIDE DEF q, d
      <3>2. record' = record
        BY <2>1, <2>3, <3>1
      <3> QED
        BY <2>1, <3>2 DEF RecordInv, RecordsOK
    <2> QED
      BY <2>2, <2>3
  <1> QED
    BY <1>1, <1>2 DEF Resolve

LEMMA InitRecords == DInit => RecordInv
  <1> SUFFICES ASSUME DInit PROVE RecordInv
    OBVIOUS
  <1>1. RecordsOK
    BY EmptySeq DEF DInit, RecordsOK
  <1>2. \A d \in Domains : record[d] = None
    BY DEF DInit
  <1> QED
    BY <1>1, <1>2 DEF RecordInv, Faithful

LEMMA NextRecords == DInv /\ RecordInv /\ [DNext]_dvars => RecordInv'
  <1> SUFFICES ASSUME DInv, RecordInv, [DNext]_dvars PROVE RecordInv'
    OBVIOUS
  <1>1. TypeOK
    BY DEF DInv, Inv
  <1>2. ASSUME NEW o \in Observers, Attend(o)
        PROVE  RecordInv'
    <2>1. record' = record /\ heard' = heard /\ fetching' = fetching
      BY <1>2 DEF Attend, Lookup, LookupFails, Trigger, Deliver
    <2> QED
      BY <2>1 DEF RecordInv, RecordsOK
  <1>3. ASSUME NEW o \in Observers, NEW s \in Hears[o], Observe(o, s) \/ ObserveUnusable(s)
        PROVE  RecordInv'
    BY <1>3, HearingKeeps
  <1>4. ASSUME NEW w \in Workers, Resolve(w)
        PROVE  RecordInv'
    BY <1>1, <1>4, ResolvingKeeps
  <1>5. ASSUME NEW x \in Closers, Ending(x)
        PROVE  RecordInv'
    <2>1. record' = record /\ heard' = heard /\ fetching' = fetching
      BY <1>5 DEF Ending
    <2> QED
      BY <2>1 DEF RecordInv, RecordsOK
  <1>6. CASE UNCHANGED dvars
    <2>1. record' = record /\ heard' = heard /\ fetching' = fetching
      BY <1>6 DEF dvars
    <2> QED
      BY <2>1 DEF RecordInv, RecordsOK
  <1> QED
    BY <1>2, <1>3, <1>4, <1>5, <1>6 DEF DNext

LEMMA DSpecRecords == DSpec => []RecordInv
  BY InitRecords, NextRecords, DSpecInv, PTL DEF DSpec

-----------------------------------------------------------------------------
(* What holds of every execution.                                          *)

\* service.go ObserveDNS to worker: whatever is heard and however the store
\* answers, what observers and workers do together is what schedule, worker and
\* Close do alone.
THEOREM ImplementsQueue == DSpec => Init /\ [][Next]_vars
  <1>1. DInit => Init
    BY DEF DInit
  <1>2. DInv /\ [DNext]_dvars => [Next]_vars
    BY StepIsQueueStep DEF DInv
  <1> QED
    BY <1>1, <1>2, DSpecInv, PTL DEF DSpec

\* service.go pending: marks match the work whatever the observers read and write
\* before they schedule.
THEOREM DiscoveryCoalesces == DSpec => []MarksMatchWork
  <1>1. DInv => MarksMatchWork
    BY DEF DInv, Inv
  <1> QED
    BY <1>1, DSpecInv, PTL

\* service.go Close: no resolution outlives it, whatever observations are under way.
THEOREM DiscoveryCloseIsQuiet == DSpec => []QuietAfterClose
  <1>1. DInv => QuietAfterClose
    BY DEF DInv, Inv
  <1> QED
    BY <1>1, DSpecInv, PTL

\* service.go ObserveDNS, "schedules resolution if the observations suggest the
\* cache is behind": nothing an observation left due is lost between the write, the
\* read and the trigger, for any number of goroutines, domains and any queue size.
THEOREM NothingBehindIsLost == DSpec => []BehindIsPursued
  <1>1. DInv => BehindIsPursued
    BY DEF DInv
  <1> QED
    BY <1>1, DSpecInv, PTL

\* Every record, row and opinion is of its type, whatever is heard (service.go
\* ObserveDNS and observe, memstore.go PutObservation).
THEOREM DiscoveryTyped == DSpec => []DTypeOK
  <1>1. DInv /\ RecordInv => DTypeOK
    BY DEF DInv, Inv, TaskOK, Places, RecordInv, RecordsOK, DTypeOK
  <1> QED
    BY <1>1, DSpecInv, DSpecRecords, PTL

\* discovery.go ParseDNS, "there is no rule by which one unauthenticated record
\* beats another": for any records in any number, the row says what all of them say,
\* their disagreement outlives every manifest installed, and only a fingerprint they
\* agree on becomes the opinion that the identity decision reads.
THEOREM OneRecordNeverWins == DSpec => []NoRecordWins
  <1>1. ASSUME RecordInv
        PROVE  NoRecordWins
    <2>1. ASSUME NEW d \in Domains, record[d] # None
          PROVE  /\ record[d].dns # None => Voices(record[d].dns, Usable(heard[d]))
                 /\ record[d].opinion # None => Agreeable(record[d].opinion, d)
      BY <1>1, <2>1 DEF RecordInv, Faithful
    <2> QED
      BY <2>1 DEF NoRecordWins, Voices, Agreeable
  <1> QED
    BY <1>1, DSpecRecords, PTL

=============================================================================
