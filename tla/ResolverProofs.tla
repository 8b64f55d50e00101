---------------------------- MODULE ResolverProofs ----------------------------
(***************************************************************************)
(* The resolver's table, its slots and its answers are right for any       *)
(* number of requests, domains, authorities and slots.                     *)
(***************************************************************************)
EXTENDS Resolver, FiniteSetTheorems, TLAPS

Typed ==
    /\ at \in [Requests -> Places]
    /\ ask \in [Requests -> Asks]
    /\ inflight \in [Keys -> Requests \cup {None}]
    /\ joined \in [Requests -> Requests \cup {None}]
    /\ slots \in Nat
    /\ ended \subseteq Requests
    /\ got \in [Requests -> Requests \cup {None, Failed}]

\* A request that waits has joined one that leads, or led, a call for its key.
Joined(r) ==
    /\ joined[r] \in Requests
    /\ at[joined[r]] \in {"slot", "fetching", "fetched", "retired", "returned"}
    /\ Key(ask[joined[r]]) = Key(ask[r])

\* An answer was fetched by a request that asked for the same key.
Answered(r) ==
    \/ got[r] = Failed
    \/ /\ got[r] \in Requests
       /\ at[got[r]] # "outside"
       /\ Key(ask[got[r]]) = Key(ask[r])

Inv ==
    /\ Typed
    /\ TableIsExact
    /\ SlotsAreHeld
    /\ slots <= MaxConcurrent
    /\ \A r \in Requests : at[r] = "waiting" => Joined(r)
    /\ \A r \in Requests : at[r] \in {"fetched", "retired", "returned"} => Answered(r)

\* The key of a question is one of the table's.
LEMMA KeyType == \A q \in Asks : Key(q) \in Keys
  BY DEF Asks, Key, Keys, Route

LEMMA InitInv == Init => Inv
<1>. SUFFICES ASSUME Init PROVE Inv
  OBVIOUS
<1>1. Typed
  <2>1. PICK d \in Domains : TRUE
    BY ResolverAssumption
  <2>2. [domain |-> d, authority |-> None] \in Asks
    BY DEF Asks
  <2>3. (CHOOSE q \in Asks : TRUE) \in Asks
    BY <2>2
  <2>. QED  BY <2>3 DEF Init, Typed, Places
<1>2. TableIsExact
  BY ResolverAssumption DEF Init, TableIsExact, Leading
<1>3. SlotsAreHeld
  <2>1. Transfers = {}
    BY DEF Init, Transfers
  <2>. QED  BY <2>1, FS_EmptySet DEF Init, SlotsAreHeld
<1>. QED  BY <1>1, <1>2, <1>3, ResolverAssumption DEF Inv, Init

-----------------------------------------------------------------------------
(* The slots, whatever else a step does.                                   *)

LEMMA SlotsKept ==
  ASSUME SlotsAreHeld, slots <= MaxConcurrent, UNCHANGED slots, Transfers' = Transfers
  PROVE  SlotsAreHeld' /\ slots' <= MaxConcurrent
  BY DEF SlotsAreHeld

LEMMA SlotTaken ==
  ASSUME NEW r \in Requests, r \notin Transfers, Transfers' = Transfers \cup {r},
         SlotsAreHeld, slots \in Nat, slots < MaxConcurrent, slots' = slots + 1
  PROVE  SlotsAreHeld' /\ slots' <= MaxConcurrent /\ slots' \in Nat
<1>1. IsFiniteSet(Transfers)
  BY ResolverAssumption, FS_Subset DEF Transfers
<1>2. Cardinality(Transfers \cup {r}) = Cardinality(Transfers) + 1
  BY <1>1, FS_AddElement
<1>. QED  BY <1>2, ResolverAssumption DEF SlotsAreHeld

LEMMA SlotReturned ==
  ASSUME NEW r \in Requests, r \in Transfers, Transfers' = Transfers \ {r},
         SlotsAreHeld, slots \in Nat, slots <= MaxConcurrent, slots' = slots - 1
  PROVE  SlotsAreHeld' /\ slots' <= MaxConcurrent /\ slots' \in Nat
<1>1. IsFiniteSet(Transfers)
  BY ResolverAssumption, FS_Subset DEF Transfers
<1>2. Cardinality(Transfers \ {r}) = Cardinality(Transfers) - 1
  BY <1>1, FS_RemoveElement
<1>3. Cardinality(Transfers \ {r}) \in Nat
  BY <1>1, FS_RemoveElement, FS_CardinalityType
<1>. QED  BY <1>2, <1>3, ResolverAssumption DEF SlotsAreHeld

-----------------------------------------------------------------------------
(* One lemma per action.                                                   *)

LEMMA RefuseInv ==
  ASSUME Inv, NEW r \in Requests, Refuse(r)
  PROVE  Inv'
<1>. USE DEF Inv, Refuse, Move, Ends
<1>1. Typed'
  BY DEF Typed, Places
<1>2. TableIsExact'
  BY DEF Typed, TableIsExact, Leading
<1>3. SlotsAreHeld' /\ slots' <= MaxConcurrent
  <2>1. Transfers' = Transfers
    BY DEF Typed, Transfers
  <2>. QED  BY <2>1, SlotsKept
<1>4. \A s \in Requests : at[s]' = "waiting" => Joined(s)'
  BY DEF Typed, Joined
<1>5. \A s \in Requests : at[s]' \in {"fetched", "retired", "returned"} => Answered(s)'
  BY ResolverAssumption DEF Typed, Answered
<1>. QED  BY <1>1, <1>2, <1>3, <1>4, <1>5

LEMMA LeadInv ==
  ASSUME Inv, NEW r \in Requests, NEW q \in Asks, Lead(r, q)
  PROVE  Inv'
<1>. USE DEF Inv, Lead, Move, Ends
<1>1. Typed'
  BY KeyType DEF Typed, Places
<1>2. TableIsExact'
  BY KeyType, ResolverAssumption DEF Typed, TableIsExact, Leading
<1>3. SlotsAreHeld' /\ slots' <= MaxConcurrent
  <2>1. Transfers' = Transfers
    BY DEF Typed, Transfers
  <2>. QED  BY <2>1, SlotsKept
<1>4. \A s \in Requests : at[s]' = "waiting" => Joined(s)'
  BY DEF Typed, Joined
<1>5. \A s \in Requests : at[s]' \in {"fetched", "retired", "returned"} => Answered(s)'
  BY ResolverAssumption DEF Typed, Answered
<1>. QED  BY <1>1, <1>2, <1>3, <1>4, <1>5

LEMMA JoinInv ==
  ASSUME Inv, NEW r \in Requests, NEW q \in Asks, Join(r, q)
  PROVE  Inv'
<1>. USE DEF Inv, Join, Move, Ends
<1>1. Typed'
  BY KeyType DEF Typed, Places
<1>2. TableIsExact'
  BY DEF Typed, TableIsExact, Leading
<1>3. SlotsAreHeld' /\ slots' <= MaxConcurrent
  <2>1. Transfers' = Transfers
    BY DEF Typed, Transfers
  <2>. QED  BY <2>1, SlotsKept
<1>4. \A s \in Requests : at[s]' = "waiting" => Joined(s)'
  BY KeyType DEF Typed, Joined, TableIsExact, Leading
<1>5. \A s \in Requests : at[s]' \in {"fetched", "retired", "returned"} => Answered(s)'
  BY ResolverAssumption DEF Typed, Answered
<1>. QED  BY <1>1, <1>2, <1>3, <1>4, <1>5

LEMMA ShareInv ==
  ASSUME Inv, NEW r \in Requests, Share(r)
  PROVE  Inv'
<1>. USE DEF Inv, Share, Move, Ends
<1>1. Typed'
  BY DEF Typed, Places, Joined
<1>2. TableIsExact'
  BY DEF Typed, TableIsExact, Leading
<1>3. SlotsAreHeld' /\ slots' <= MaxConcurrent
  <2>1. Transfers' = Transfers
    BY DEF Typed, Transfers
  <2>. QED  BY <2>1, SlotsKept
<1>4. \A s \in Requests : at[s]' = "waiting" => Joined(s)'
  BY DEF Typed, Joined
<1>5. \A s \in Requests : at[s]' \in {"fetched", "retired", "returned"} => Answered(s)'
  BY ResolverAssumption DEF Typed, Answered, Joined
<1>. QED  BY <1>1, <1>2, <1>3, <1>4, <1>5

LEMMA StopWaitingInv ==
  ASSUME Inv, NEW r \in Requests, StopWaiting(r)
  PROVE  Inv'
<1>. USE DEF Inv, StopWaiting, Move, Ends
<1>1. Typed'
  BY DEF Typed, Places
<1>2. TableIsExact'
  BY DEF Typed, TableIsExact, Leading
<1>3. SlotsAreHeld' /\ slots' <= MaxConcurrent
  <2>1. Transfers' = Transfers
    BY DEF Typed, Transfers
  <2>. QED  BY <2>1, SlotsKept
<1>4. \A s \in Requests : at[s]' = "waiting" => Joined(s)'
  BY DEF Typed, Joined
<1>5. \A s \in Requests : at[s]' \in {"fetched", "retired", "returned"} => Answered(s)'
  BY ResolverAssumption DEF Typed, Answered
<1>. QED  BY <1>1, <1>2, <1>3, <1>4, <1>5

LEMMA TakeSlotInv ==
  ASSUME Inv, NEW r \in Requests, TakeSlot(r)
  PROVE  Inv'
<1>. USE DEF Inv, TakeSlot, Move, Ends
<1>1. Typed'
  <2>1. r \notin Transfers /\ Transfers' = Transfers \cup {r}
    BY DEF Typed, Transfers
  <2>2. slots' \in Nat
    BY <2>1, SlotTaken DEF Typed
  <2>. QED  BY <2>2 DEF Typed, Places
<1>2. TableIsExact'
  BY DEF Typed, TableIsExact, Leading
<1>3. SlotsAreHeld' /\ slots' <= MaxConcurrent
  <2>1. r \notin Transfers /\ Transfers' = Transfers \cup {r}
    BY DEF Typed, Transfers
  <2>. QED  BY <2>1, SlotTaken DEF Typed
<1>4. \A s \in Requests : at[s]' = "waiting" => Joined(s)'
  BY DEF Typed, Joined
<1>5. \A s \in Requests : at[s]' \in {"fetched", "retired", "returned"} => Answered(s)'
  BY ResolverAssumption DEF Typed, Answered
<1>. QED  BY <1>1, <1>2, <1>3, <1>4, <1>5

LEMMA GiveUpSlotInv ==
  ASSUME Inv, NEW r \in Requests, GiveUpSlot(r)
  PROVE  Inv'
<1>. USE DEF Inv, GiveUpSlot, Move, Ends
<1>1. Typed'
  BY DEF Typed, Places
<1>2. TableIsExact'
  BY DEF Typed, TableIsExact, Leading
<1>3. SlotsAreHeld' /\ slots' <= MaxConcurrent
  <2>1. Transfers' = Transfers
    BY DEF Typed, Transfers
  <2>. QED  BY <2>1, SlotsKept
<1>4. \A s \in Requests : at[s]' = "waiting" => Joined(s)'
  BY DEF Typed, Joined
<1>5. \A s \in Requests : at[s]' \in {"fetched", "retired", "returned"} => Answered(s)'
  BY ResolverAssumption DEF Typed, Answered
<1>. QED  BY <1>1, <1>2, <1>3, <1>4, <1>5

LEMMA FetchedInv ==
  ASSUME Inv, NEW r \in Requests, Fetched(r)
  PROVE  Inv'
<1>. USE DEF Inv, Fetched, Move, Ends
<1>1. Typed'
  <2>1. r \in Transfers /\ Transfers' = Transfers \ {r}
    BY DEF Typed, Transfers
  <2>2. slots' \in Nat
    BY <2>1, SlotReturned DEF Typed
  <2>. QED  BY <2>2 DEF Typed, Places
<1>2. TableIsExact'
  BY DEF Typed, TableIsExact, Leading
<1>3. SlotsAreHeld' /\ slots' <= MaxConcurrent
  <2>1. r \in Transfers /\ Transfers' = Transfers \ {r}
    BY DEF Typed, Transfers
  <2>. QED  BY <2>1, SlotReturned DEF Typed
<1>4. \A s \in Requests : at[s]' = "waiting" => Joined(s)'
  BY DEF Typed, Joined
<1>5. \A s \in Requests : at[s]' \in {"fetched", "retired", "returned"} => Answered(s)'
  BY ResolverAssumption DEF Typed, Answered
<1>. QED  BY <1>1, <1>2, <1>3, <1>4, <1>5

LEMMA RetireInv ==
  ASSUME Inv, NEW r \in Requests, Retire(r)
  PROVE  Inv'
<1>. USE DEF Inv, Retire, Move, Ends
<1>1. Typed'
  BY DEF Typed, Places
<1>2. TableIsExact'
  BY KeyType, ResolverAssumption DEF Typed, TableIsExact, Leading
<1>3. SlotsAreHeld' /\ slots' <= MaxConcurrent
  <2>1. Transfers' = Transfers
    BY DEF Typed, Transfers
  <2>. QED  BY <2>1, SlotsKept
<1>4. \A s \in Requests : at[s]' = "waiting" => Joined(s)'
  BY DEF Typed, Joined
<1>5. \A s \in Requests : at[s]' \in {"fetched", "retired", "returned"} => Answered(s)'
  BY ResolverAssumption DEF Typed, Answered
<1>. QED  BY <1>1, <1>2, <1>3, <1>4, <1>5

LEMMA WakeInv ==
  ASSUME Inv, NEW r \in Requests, Wake(r)
  PROVE  Inv'
<1>. USE DEF Inv, Wake, Move, Ends
<1>1. Typed'
  BY DEF Typed, Places
<1>2. TableIsExact'
  BY DEF Typed, TableIsExact, Leading
<1>3. SlotsAreHeld' /\ slots' <= MaxConcurrent
  <2>1. Transfers' = Transfers
    BY DEF Typed, Transfers
  <2>. QED  BY <2>1, SlotsKept
<1>4. \A s \in Requests : at[s]' = "waiting" => Joined(s)'
  BY DEF Typed, Joined
<1>5. \A s \in Requests : at[s]' \in {"fetched", "retired", "returned"} => Answered(s)'
  BY ResolverAssumption DEF Typed, Answered
<1>. QED  BY <1>1, <1>2, <1>3, <1>4, <1>5

LEMMA StartChainInv ==
  ASSUME Inv, NEW r \in Requests, NEW q \in Asks, StartChain(r, q)
  PROVE  Inv'
<1>. USE DEF Inv, StartChain, Move, Ends
<1>1. Typed'
  BY DEF Typed, Places
<1>2. TableIsExact'
  BY DEF Typed, TableIsExact, Leading
<1>3. SlotsAreHeld' /\ slots' <= MaxConcurrent
  <2>1. Transfers' = Transfers
    BY DEF Typed, Transfers
  <2>. QED  BY <2>1, SlotsKept
<1>4. \A s \in Requests : at[s]' = "waiting" => Joined(s)'
  BY DEF Typed, Joined
<1>5. \A s \in Requests : at[s]' \in {"fetched", "retired", "returned"} => Answered(s)'
  BY ResolverAssumption DEF Typed, Answered
<1>. QED  BY <1>1, <1>2, <1>3, <1>4, <1>5

LEMMA ChainGivesUpInv ==
  ASSUME Inv, NEW r \in Requests, ChainGivesUp(r)
  PROVE  Inv'
<1>. USE DEF Inv, ChainGivesUp, Move, Ends
<1>1. Typed'
  BY DEF Typed, Places
<1>2. TableIsExact'
  BY DEF Typed, TableIsExact, Leading
<1>3. SlotsAreHeld' /\ slots' <= MaxConcurrent
  <2>1. Transfers' = Transfers
    BY DEF Typed, Transfers
  <2>. QED  BY <2>1, SlotsKept
<1>4. \A s \in Requests : at[s]' = "waiting" => Joined(s)'
  BY DEF Typed, Joined
<1>5. \A s \in Requests : at[s]' \in {"fetched", "retired", "returned"} => Answered(s)'
  BY ResolverAssumption DEF Typed, Answered
<1>. QED  BY <1>1, <1>2, <1>3, <1>4, <1>5

LEMMA ChainFetchedInv ==
  ASSUME Inv, NEW r \in Requests, ChainFetched(r)
  PROVE  Inv'
<1>. USE DEF Inv, ChainFetched, Move, Ends
<1>1. Typed'
  <2>1. r \in Transfers /\ Transfers' = Transfers \ {r}
    BY DEF Typed, Transfers
  <2>2. slots' \in Nat
    BY <2>1, SlotReturned DEF Typed
  <2>. QED  BY <2>2 DEF Typed, Places
<1>2. TableIsExact'
  BY DEF Typed, TableIsExact, Leading
<1>3. SlotsAreHeld' /\ slots' <= MaxConcurrent
  <2>1. r \in Transfers /\ Transfers' = Transfers \ {r}
    BY DEF Typed, Transfers
  <2>. QED  BY <2>1, SlotReturned DEF Typed
<1>4. \A s \in Requests : at[s]' = "waiting" => Joined(s)'
  BY DEF Typed, Joined
<1>5. \A s \in Requests : at[s]' \in {"fetched", "retired", "returned"} => Answered(s)'
  BY ResolverAssumption DEF Typed, Answered
<1>. QED  BY <1>1, <1>2, <1>3, <1>4, <1>5

LEMMA EndContextInv ==
  ASSUME Inv, NEW r \in Requests, EndContext(r)
  PROVE  Inv'
<1>. USE DEF Inv, EndContext, Move, Ends
<1>1. Typed'
  BY DEF Typed, Places
<1>2. TableIsExact'
  BY DEF Typed, TableIsExact, Leading
<1>3. SlotsAreHeld' /\ slots' <= MaxConcurrent
  <2>1. Transfers' = Transfers
    BY DEF Typed, Transfers
  <2>. QED  BY <2>1, SlotsKept
<1>4. \A s \in Requests : at[s]' = "waiting" => Joined(s)'
  BY DEF Typed, Joined
<1>5. \A s \in Requests : at[s]' \in {"fetched", "retired", "returned"} => Answered(s)'
  BY ResolverAssumption DEF Typed, Answered
<1>. QED  BY <1>1, <1>2, <1>3, <1>4, <1>5

-----------------------------------------------------------------------------

LEMMA NextInv == Inv /\ [Next]_vars => Inv'
<1>. SUFFICES ASSUME Inv, [Next]_vars PROVE Inv'
  OBVIOUS
<1>1. CASE UNCHANGED vars
  BY <1>1 DEF vars, Inv, Typed, TableIsExact, Leading, SlotsAreHeld, Transfers, Joined, Answered
<1>2. ASSUME NEW r \in Requests, Begin(r) PROVE Inv'
  BY <1>2, RefuseInv, LeadInv, JoinInv, StartChainInv DEF Begin
<1>3. ASSUME NEW r \in Requests, Proceed(r) PROVE Inv'
  BY <1>3, ShareInv, StopWaitingInv, TakeSlotInv, GiveUpSlotInv, FetchedInv, RetireInv,
     WakeInv, ChainGivesUpInv, ChainFetchedInv DEF Proceed
<1>4. ASSUME NEW r \in Requests, EndContext(r) PROVE Inv'
  BY <1>4, EndContextInv
<1>. QED  BY <1>1, <1>2, <1>3, <1>4 DEF Next

\* The inductive invariant holds of every behaviour; the theorems below are its parts.
THEOREM Invariance == Spec => []Inv
  BY InitInv, NextInv, PTL DEF Spec

\* Resolve: the in-flight table holds exactly the calls that are not yet retired.
THEOREM TableExact == Spec => []TableIsExact
<1>1. Inv => TableIsExact
  BY DEF Inv
<1>. QED  BY <1>1, Invariance, PTL

\* fetch and ResolveIdentityChain: a slot for each transfer, and for nothing else.
THEOREM SlotsHeld == Spec => []SlotsAreHeld
<1>1. Inv => SlotsAreHeld
  BY DEF Inv
<1>. QED  BY <1>1, Invariance, PTL

\* Every variable is of its type, and len(sem) stays within its capacity.
THEOREM TypeCorrect == Spec => []TypeOK
<1>1. Inv => TypeOK
  BY ResolverAssumption DEF Inv, Typed, TypeOK
<1>. QED  BY <1>1, Invariance, PTL

\* Resolve: a request returns what was fetched for its own domain and route.
THEOREM AnswerIsOwn == Spec => []AnswersItsQuestion
<1>1. Inv => AnswersItsQuestion
  BY DEF Inv, Answered, AnswersItsQuestion, Key
<1>. QED  BY <1>1, Invariance, PTL
=============================================================================
