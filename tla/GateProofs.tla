----------------------------- MODULE GateProofs -----------------------------
(***************************************************************************)
(* Proofs about Gate, for every set of requests, every MaxSessions and     *)
(* every MaxQueue.  The inductive invariant is GateInv; it adds one fact   *)
(* to the invariants the runs check, about the value a request carries     *)
(* from its load to its compare-and-exchange.                              *)
(***************************************************************************)
EXTENDS Gate, SequenceLemmas

-----------------------------------------------------------------------------
(* A request about to exchange read a counter value below the limit.  This *)
(* is what keeps the counter within the limit when the exchange succeeds:  *)
(* the value compared is the value that was checked.                       *)
CasFits == \A r \in Requests : pc[r] = "cas" => current[r] < MaxQueue

GateInv == /\ TypeOK
           /\ SlotConservation
           /\ QueueAccounting
           /\ NoIdleSlot
           /\ WaitListOK
           /\ CasFits

LEMMA FiniteSets ==
    ASSUME TypeOK
    PROVE  /\ Holding \subseteq Requests /\ IsFiniteSet(Holding)
           /\ Slotted \subseteq Requests /\ IsFiniteSet(Slotted)
<1>1. Holding \subseteq Requests /\ Slotted \subseteq Requests
  BY DEF Holding, Slotted, TypeOK
<1> QED
  BY <1>1, GateAssumption, FS_Subset

(* What returning a permit does to the semaphore: either it goes to the    *)
(* pool and nobody waits, or it goes to one request of the waiting list.   *)
LEMMA ReturnPermitEffect ==
    ASSUME GateInv, NEW rest \in SUBSET assigned, ReturnPermit(rest)
    PROVE  /\ permits' \in Nat
           /\ waiters' \in Seq(Requests)
           /\ assigned' \subseteq Requests
           /\ NoIdleSlot'
           /\ IsInjective(waiters')
           /\ Range(waiters') \cap assigned' = {}
           /\ assigned' \cup Range(waiters') = rest \cup Range(waiters)
           /\ \/ permits' = permits + 1 /\ assigned' = rest
              \/ /\ permits' = permits
                 /\ \E w \in Range(waiters) \cap Requests :
                       assigned' = rest \cup {w}
<1> USE DEF GateInv, TypeOK, NoIdleSlot, WaitListOK
<1>1. CASE waiters = <<>> /\ permits' = permits + 1 /\ assigned' = rest
           /\ UNCHANGED waiters
  BY <1>1
<1>2. CASE waiters # <<>> /\ assigned' = rest \cup {Head(waiters)}
           /\ waiters' = Tail(waiters) /\ UNCHANGED permits
  <2>1. /\ Head(waiters) \in Requests
        /\ Head(waiters) \in Range(waiters)
        /\ Tail(waiters) \in Seq(Requests)
        /\ IsInjective(Tail(waiters))
        /\ Range(Tail(waiters)) = Range(waiters) \ {Head(waiters)}
    BY <1>2, TailDistinct
  <2> HIDE DEF NoIdleSlot
  <2>2. NoIdleSlot'
    BY <1>2 DEF NoIdleSlot
  <2> QED
    BY <1>2, <2>1, <2>2
<1> QED
  BY <1>1, <1>2 DEF ReturnPermit

-----------------------------------------------------------------------------
(* The initial state.                                                      *)
LEMMA InitInv == Init => GateInv
<1> SUFFICES ASSUME Init PROVE GateInv
  OBVIOUS
<1> USE DEF Init
<1>1. TypeOK
  BY GateAssumption, EmptySeq DEF TypeOK, PC
<1>2. Holding = {} /\ Slotted = {}
  BY DEF Holding, Slotted
<1>3. SlotConservation
  BY <1>2, FS_EmptySet, GateAssumption DEF SlotConservation
<1>4. QueueAccounting
  BY <1>2, FS_EmptySet, GateAssumption DEF QueueAccounting
<1>5. NoIdleSlot
  BY DEF NoIdleSlot
<1>6. WaitListOK
  <2>1. DOMAIN waiters = {}
    OBVIOUS
  <2> QED
    BY <2>1 DEF WaitListOK, IsInjective, Range
<1>7. CasFits
  BY DEF CasFits
<1> QED
  BY <1>1, <1>3, <1>4, <1>5, <1>6, <1>7 DEF GateInv

(* One lemma per action.                                                   *)
LEMMA TryAcquireInv ==
    ASSUME GateInv, NEW r \in Requests, TryAcquire(r)
    PROVE  GateInv'
<1> USE DEF GateInv, TryAcquire, Goto
<1>1. TypeOK'
  <2>1. permits' \in Nat
    BY DEF TypeOK
  <2>2. pc' \in [Requests -> PC]
    BY DEF TypeOK, PC
  <2> QED
    BY <2>1, <2>2 DEF TypeOK
<1>2. SlotConservation'
  <2>1. CASE permits > 0 /\ permits' = permits - 1 /\ Goto(r, "held")
    <3>1. r \notin Holding
      BY DEF Holding, WaitListOK, TypeOK
    <3>2. Holding' = Holding \cup {r}
      BY <2>1 DEF Holding, TypeOK
    <3> QED
      BY <3>1, <3>2, <2>1, FiniteSets, TakeCount DEF TypeOK, SlotConservation
  <2>2. CASE permits = 0 /\ UNCHANGED permits /\ Goto(r, "load")
    <3>1. Holding' = Holding
      BY <2>2 DEF Holding, TypeOK
    <3> QED
      BY <3>1, <2>2 DEF SlotConservation
  <2> QED
    BY <2>1, <2>2
<1>3. QueueAccounting'
  <2>1. Slotted' = Slotted
    BY DEF Slotted, TypeOK
  <2> QED
    BY <2>1 DEF QueueAccounting
<1>4. NoIdleSlot'
  BY DEF NoIdleSlot, TypeOK
<1>5. WaitListOK'
  BY DEF WaitListOK, TypeOK
<1>6. CasFits'
  BY DEF CasFits, TypeOK
<1> QED
  BY <1>1, <1>2, <1>3, <1>4, <1>5, <1>6

LEMMA CheckRoomInv ==
    ASSUME GateInv, NEW r \in Requests, pc[r] \in {"load", "cas"},
           CheckRoom(r), UNCHANGED <<semaphore, queued, outcome, shutdown>>
    PROVE  GateInv'
<1>1. TypeOK'
  <2>1. /\ current \in [Requests -> Nat] /\ queued \in Nat
        /\ pc \in [Requests -> PC]
    BY DEF GateInv, TypeOK
  <2>2. \/ current' = [current EXCEPT ![r] = 0]
        \/ current' = [current EXCEPT ![r] = queued]
    BY DEF CheckRoom
  <2>3. current' \in [Requests -> Nat]
    BY <2>1, <2>2
  <2>4. pc' = [pc EXCEPT ![r] = "idle"] \/ pc' = [pc EXCEPT ![r] = "cas"]
    BY DEF CheckRoom, Goto
  <2>5. pc' \in [Requests -> PC]
    BY <2>1, <2>4 DEF PC
  <2> QED
    BY <2>3, <2>5 DEF GateInv, TypeOK, semaphore
<1> USE DEF GateInv, CheckRoom, Goto, semaphore
<1>2. Holding' = Holding /\ Slotted' = Slotted
  BY DEF Holding, Slotted, TypeOK
<1>3. SlotConservation' /\ QueueAccounting'
  BY <1>2 DEF SlotConservation, QueueAccounting
<1>4. NoIdleSlot'
  BY DEF NoIdleSlot
<1>5. WaitListOK'
  BY DEF WaitListOK, TypeOK
<1>6. CasFits'
  BY DEF CasFits, TypeOK
<1> QED
  BY <1>1, <1>3, <1>4, <1>5, <1>6

LEMMA CompareExchangeInv ==
    ASSUME GateInv, NEW r \in Requests, CompareExchange(r)
    PROVE  GateInv'
<1>1. CASE queued # current[r] /\ CheckRoom(r) /\ UNCHANGED queued
  BY <1>1, CheckRoomInv DEF CompareExchange
<1>2. CASE /\ queued = current[r]
           /\ queued' = queued + 1
           /\ current' = [current EXCEPT ![r] = 0]
           /\ Goto(r, "select")
  <2> USE <1>2 DEF GateInv, CompareExchange, Goto, semaphore
  <2>1. TypeOK'
    BY DEF TypeOK, PC
  <2>2. SlotConservation'
    <3>1. Holding' = Holding
      BY DEF Holding, TypeOK
    <3> QED
      BY <3>1 DEF SlotConservation
  <2>3. QueueAccounting'
    <3>1. r \notin Slotted
      BY DEF Slotted, TypeOK
    <3>2. Slotted' = Slotted \cup {r}
      BY DEF Slotted, TypeOK
    <3>3. Cardinality(Slotted') = Cardinality(Slotted) + 1
      BY <3>1, <3>2, FiniteSets, FS_AddElement
    <3>4. queued < MaxQueue
      BY DEF CasFits
    <3>5. queued \in Nat /\ queued = Cardinality(Slotted) /\ queued' = queued + 1
      BY DEF QueueAccounting, TypeOK
    <3> QED
      BY <3>3, <3>4, <3>5, GateAssumption DEF QueueAccounting
  <2>4. NoIdleSlot'
    BY DEF NoIdleSlot
  <2>5. WaitListOK'
    BY DEF WaitListOK, TypeOK
  <2>6. CasFits'
    BY DEF CasFits, TypeOK
  <2> QED
    BY <2>1, <2>2, <2>3, <2>4, <2>5, <2>6
<1> QED
  BY <1>1, <1>2 DEF CompareExchange

LEMMA FirstPollInv ==
    ASSUME GateInv, NEW r \in Requests, FirstPoll(r)
    PROVE  GateInv'
<1> USE DEF GateInv, Goto, semaphore
<1>1. /\ pc[r] = "select" /\ outcome[r] = "none" /\ r \notin assigned
      /\ r \notin Range(waiters) /\ r \notin Holding
      /\ UNCHANGED <<queued, current, shutdown>>
  BY DEF FirstPoll, WaitListOK, Holding, TypeOK
<1>2. CASE /\ permits > 0
           /\ permits' = permits - 1
           /\ outcome' = [outcome EXCEPT ![r] = "permit"]
           /\ Goto(r, "unslot")
           /\ UNCHANGED <<waiters, assigned>>
  <2> USE <1>1, <1>2
  <2>1. TypeOK'
    BY DEF TypeOK, PC
  <2>2. Holding' = Holding \cup {r}
    BY DEF Holding, TypeOK
  <2>3. SlotConservation'
    BY <2>2, FiniteSets, TakeCount DEF TypeOK, SlotConservation
  <2>4. Slotted' = Slotted
    BY DEF Slotted, TypeOK
  <2>5. QueueAccounting' /\ NoIdleSlot' /\ CasFits'
    BY <2>4 DEF QueueAccounting, NoIdleSlot, CasFits, TypeOK
  <2>6. WaitListOK'
    BY DEF WaitListOK, TypeOK
  <2> QED
    BY <2>1, <2>3, <2>5, <2>6
<1>3. CASE /\ permits = 0
           /\ waiters' = Append(waiters, r)
           /\ Goto(r, "waiting")
           /\ UNCHANGED <<permits, assigned, outcome>>
  <2>1. /\ waiters' \in Seq(Requests) /\ IsInjective(waiters')
        /\ Range(waiters') = Range(waiters) \cup {r}
    BY <1>1, <1>3, AppendDistinct DEF WaitListOK, TypeOK
  <2>2. TypeOK'
    BY <1>1, <1>3, <2>1 DEF TypeOK, PC
  <2>3. Holding' = Holding /\ Slotted' = Slotted
    BY <1>1, <1>3 DEF Holding, Slotted, TypeOK
  <2>4. SlotConservation' /\ QueueAccounting' /\ NoIdleSlot' /\ CasFits'
    BY <1>1, <1>3, <2>3
       DEF SlotConservation, QueueAccounting, NoIdleSlot, CasFits, TypeOK
  <2>5. WaitListOK'
    BY <1>1, <1>3, <2>1 DEF WaitListOK, TypeOK
  <2> QED
    BY <2>2, <2>4, <2>5
<1>4. CASE /\ shutdown
           /\ outcome' = [outcome EXCEPT ![r] = "ShuttingDown"]
           /\ Goto(r, "unslot")
           /\ UNCHANGED semaphore
  <2> USE <1>1, <1>4
  <2>1. TypeOK'
    BY DEF TypeOK, PC, Errors
  <2>2. Holding' = Holding /\ Slotted' = Slotted
    BY DEF Holding, Slotted, TypeOK
  <2>3. SlotConservation' /\ QueueAccounting' /\ NoIdleSlot' /\ CasFits'
    BY <2>2 DEF SlotConservation, QueueAccounting, NoIdleSlot, CasFits, TypeOK
  <2>4. WaitListOK'
    BY DEF WaitListOK, TypeOK
  <2> QED
    BY <2>1, <2>3, <2>4
<1> QED
  BY <1>2, <1>3, <1>4 DEF FirstPoll

LEMMA TakePermitInv ==
    ASSUME GateInv, NEW r \in Requests, TakePermit(r)
    PROVE  GateInv'
<1> USE DEF GateInv, TakePermit, Goto
<1>1. TypeOK'
  BY DEF TypeOK, PC
<1>2. Holding' = Holding /\ Slotted' = Slotted
  BY DEF Holding, Slotted, TypeOK
<1>3. SlotConservation' /\ QueueAccounting' /\ NoIdleSlot' /\ CasFits'
  BY <1>2 DEF SlotConservation, QueueAccounting, NoIdleSlot, CasFits, TypeOK
<1>4. WaitListOK'
  BY DEF WaitListOK, TypeOK
<1> QED
  BY <1>1, <1>3, <1>4

LEMMA AbandonInv ==
    ASSUME GateInv, NEW r \in Requests, NEW error \in Errors, Abandon(r, error)
    PROVE  GateInv'
<1> USE DEF GateInv, Goto
<1>1. /\ pc[r] = "waiting"
      /\ outcome' = [outcome EXCEPT ![r] = error]
      /\ pc' = [pc EXCEPT ![r] = "unslot"]
      /\ UNCHANGED <<queued, current, shutdown>>
  BY DEF Abandon
<1>2. error # "permit" /\ error # "none" /\ outcome[r] = "none"
  BY <1>1 DEF Errors, WaitListOK, TypeOK
<1>3. /\ pc' \in [Requests -> PC]
      /\ outcome' \in [Requests -> Errors \cup {"none", "permit"}]
  BY <1>1 DEF TypeOK, PC
<1>4. Slotted' = Slotted
  BY <1>1 DEF Slotted, TypeOK
<1>5. QueueAccounting' /\ CasFits'
  BY <1>1, <1>4 DEF QueueAccounting, CasFits, TypeOK
<1>6. \A x \in Requests : outcome'[x] # "none" <=> pc'[x] = "unslot"
  BY <1>1, <1>2 DEF WaitListOK, TypeOK
<1>7. CASE r \in assigned /\ ReturnPermit(assigned \ {r})
  <2>1. /\ permits' \in Nat /\ waiters' \in Seq(Requests)
        /\ assigned' \subseteq Requests /\ NoIdleSlot'
        /\ IsInjective(waiters') /\ Range(waiters') \cap assigned' = {}
        /\ assigned' \cup Range(waiters') = (assigned \ {r}) \cup Range(waiters)
        /\ \/ permits' = permits + 1 /\ assigned' = assigned \ {r}
           \/ /\ permits' = permits
              /\ \E w \in Range(waiters) \cap Requests :
                    assigned' = (assigned \ {r}) \cup {w}
    BY <1>7, ReturnPermitEffect
  <2>2. TypeOK'
    BY <1>1, <1>3, <2>1 DEF TypeOK
  <2>3. r \in Holding /\ r \notin Range(waiters)
    BY <1>7 DEF Holding, WaitListOK
  <2>4. SlotConservation'
    <3>1. CASE permits' = permits + 1 /\ assigned' = assigned \ {r}
      <4>1. Holding' = Holding \ {r}
        BY <1>1, <1>2, <3>1 DEF Holding, TypeOK
      <4> QED
        BY <2>3, <3>1, <4>1, FiniteSets, GiveBackCount
           DEF SlotConservation, TypeOK
    <3>2. ASSUME NEW w \in Range(waiters) \cap Requests, permits' = permits,
                 assigned' = (assigned \ {r}) \cup {w}
          PROVE  SlotConservation'
      <4>1. w \notin Holding /\ w # r
        BY <2>3 DEF Holding, WaitListOK, TypeOK
      <4>2. Holding' = (Holding \ {r}) \cup {w}
        BY <1>1, <1>2, <3>2, <4>1 DEF Holding, TypeOK
      <4> QED
        BY <2>3, <3>2, <4>1, <4>2, FiniteSets, PassOnCount
           DEF SlotConservation, TypeOK
    <3> QED
      BY <2>1, <3>1, <3>2
  <2>5. WaitListOK'
    <3>1. \A x \in Requests :
             pc'[x] = "waiting" <=> x \in assigned' \/ x \in Range(waiters')
      BY <1>1, <2>1, <2>3 DEF WaitListOK, TypeOK
    <3> QED
      BY <1>6, <2>1, <3>1 DEF WaitListOK
  <2> QED
    BY <1>5, <2>1, <2>2, <2>4, <2>5
<1>8. CASE /\ \E i \in DOMAIN waiters :
                 waiters[i] = r /\ waiters' = RemoveAt(waiters, i)
           /\ UNCHANGED <<permits, assigned>>
  <2>1. PICK i \in DOMAIN waiters :
           waiters[i] = r /\ waiters' = RemoveAt(waiters, i)
    BY <1>8
  <2>2. /\ waiters' \in Seq(Requests) /\ IsInjective(waiters')
        /\ Range(waiters') = Range(waiters) \ {r}
    BY <2>1, RemoveAtDistinct DEF WaitListOK, TypeOK
  <2>3. r \notin assigned /\ waiters # <<>>
    BY <2>1 DEF WaitListOK, Range
  <2>4. TypeOK'
    BY <1>1, <1>3, <1>8, <2>2 DEF TypeOK
  <2>5. Holding' = Holding
    BY <1>1, <1>2, <1>8 DEF Holding, TypeOK
  <2>6. SlotConservation' /\ NoIdleSlot'
    BY <1>8, <2>3, <2>5 DEF SlotConservation, NoIdleSlot
  <2>7. WaitListOK'
    <3>1. \A x \in Requests :
             pc'[x] = "waiting" <=> x \in assigned' \/ x \in Range(waiters')
      BY <1>1, <1>8, <2>2, <2>3 DEF WaitListOK, TypeOK
    <3> QED
      BY <1>6, <1>8, <2>2, <3>1 DEF WaitListOK
  <2> QED
    BY <1>5, <2>4, <2>6, <2>7
<1> QED
  BY <1>7, <1>8 DEF Abandon

LEMMA DropQueueSlotInv ==
    ASSUME GateInv, NEW r \in Requests, DropQueueSlot(r)
    PROVE  GateInv'
<1> USE DEF GateInv, DropQueueSlot, Goto, semaphore
<1>1. Slotted' = Slotted \ {r} /\ r \in Slotted
  BY DEF Slotted, TypeOK
<1>2. QueueAccounting'
  <2>1. Cardinality(Slotted') = Cardinality(Slotted) - 1
    BY <1>1, FiniteSets, FS_RemoveElement
  <2>2. queued = Cardinality(Slotted) /\ queued' = queued - 1
        /\ queued \in Nat /\ queued <= MaxQueue
    BY DEF QueueAccounting, TypeOK
  <2> QED
    BY <2>1, <2>2, GateAssumption DEF QueueAccounting
<1>3. TypeOK'
  <2>1. queued' \in Nat
    <3>1. IsFiniteSet(Slotted')
      BY <1>1, FiniteSets, FS_RemoveElement
    <3> QED
      BY <1>2, <3>1, FS_CardinalityType DEF QueueAccounting
  <2>2. pc' \in [Requests -> PC]
    BY DEF TypeOK, PC
  <2>3. outcome' \in [Requests -> Errors \cup {"none", "permit"}]
    BY DEF TypeOK
  <2> QED
    BY <2>1, <2>2, <2>3 DEF TypeOK
<1>4. Holding' = Holding
  BY DEF Holding, TypeOK, WaitListOK
<1>5. SlotConservation' /\ NoIdleSlot' /\ CasFits'
  BY <1>4 DEF SlotConservation, NoIdleSlot, CasFits, TypeOK
<1>6. WaitListOK'
  BY DEF WaitListOK, TypeOK
<1> QED
  BY <1>2, <1>3, <1>5, <1>6

LEMMA ReleaseInv ==
    ASSUME GateInv, NEW r \in Requests, Release(r)
    PROVE  GateInv'
<1> USE DEF GateInv, Goto
<1>1. /\ pc[r] = "held" /\ pc' = [pc EXCEPT ![r] = "idle"]
      /\ ReturnPermit(assigned)
      /\ UNCHANGED <<queued, current, outcome, shutdown>>
  BY DEF Release
<1>2. /\ permits' \in Nat /\ waiters' \in Seq(Requests)
      /\ assigned' \subseteq Requests /\ NoIdleSlot'
      /\ IsInjective(waiters') /\ Range(waiters') \cap assigned' = {}
      /\ assigned' \cup Range(waiters') = assigned \cup Range(waiters)
      /\ \/ permits' = permits + 1 /\ assigned' = assigned
         \/ /\ permits' = permits
            /\ \E w \in Range(waiters) \cap Requests :
                  assigned' = assigned \cup {w}
  BY <1>1, ReturnPermitEffect
<1>3. TypeOK'
  BY <1>1, <1>2 DEF TypeOK, PC
<1>4. r \in Holding /\ r \notin assigned /\ outcome[r] = "none"
  BY <1>1 DEF Holding, WaitListOK, TypeOK
<1>5. SlotConservation'
  <2>1. CASE permits' = permits + 1 /\ assigned' = assigned
    <3>1. Holding' = Holding \ {r}
      BY <1>1, <1>4, <2>1 DEF Holding, TypeOK
    <3> QED
      BY <1>4, <2>1, <3>1, FiniteSets, GiveBackCount
         DEF SlotConservation, TypeOK
  <2>2. ASSUME NEW w \in Range(waiters) \cap Requests, permits' = permits,
               assigned' = assigned \cup {w}
        PROVE  SlotConservation'
    <3>1. w \notin Holding /\ w # r
      BY <1>4 DEF Holding, WaitListOK, TypeOK
    <3>2. Holding' = (Holding \ {r}) \cup {w}
      BY <1>1, <1>4, <2>2, <3>1 DEF Holding, TypeOK
    <3> QED
      BY <1>4, <2>2, <3>1, <3>2, FiniteSets, PassOnCount
         DEF SlotConservation, TypeOK
  <2> QED
    BY <1>2, <2>1, <2>2
<1>6. Slotted' = Slotted
  BY <1>1 DEF Slotted, TypeOK
<1>7. QueueAccounting' /\ CasFits'
  BY <1>1, <1>6 DEF QueueAccounting, CasFits, TypeOK
<1>8. WaitListOK'
  BY <1>1, <1>2 DEF WaitListOK, TypeOK
<1> QED
  BY <1>2, <1>3, <1>5, <1>7, <1>8

(* A step that leaves everything but the shutdown token alone.             *)
LEMMA UnchangedInv ==
    ASSUME GateInv, shutdown' \in BOOLEAN,
           UNCHANGED <<semaphore, queued, pc, current, outcome>>
    PROVE  GateInv'
BY DEF GateInv, TypeOK, SlotConservation, QueueAccounting, NoIdleSlot,
       WaitListOK, CasFits, Holding, Slotted, semaphore

LEMMA NextInv == GateInv /\ [Next]_vars => GateInv'
<1> SUFFICES ASSUME GateInv, [Next]_vars PROVE GateInv'
  OBVIOUS
<1>1. ASSUME NEW r \in Requests, TryAcquire(r) PROVE GateInv'
  BY <1>1, TryAcquireInv
<1>2. ASSUME NEW r \in Requests, Load(r) PROVE GateInv'
  BY <1>2, CheckRoomInv DEF Load
<1>3. ASSUME NEW r \in Requests, CompareExchange(r) PROVE GateInv'
  BY <1>3, CompareExchangeInv
<1>4. ASSUME NEW r \in Requests, FirstPoll(r) PROVE GateInv'
  BY <1>4, FirstPollInv
<1>5. ASSUME NEW r \in Requests, TakePermit(r) PROVE GateInv'
  BY <1>5, TakePermitInv
<1>6. ASSUME NEW r \in Requests, DropQueueSlot(r) PROVE GateInv'
  BY <1>6, DropQueueSlotInv
<1>7. ASSUME NEW r \in Requests, Release(r) PROVE GateInv'
  BY <1>7, ReleaseInv
<1>8. ASSUME NEW r \in Requests, NEW error \in Errors, Abandon(r, error)
      PROVE  GateInv'
  BY <1>8, AbandonInv
<1>9. ASSUME CancelShutdown PROVE GateInv'
  BY <1>9, UnchangedInv DEF CancelShutdown
<1>10. CASE UNCHANGED vars
  BY <1>10, UnchangedInv DEF vars, GateInv, TypeOK, semaphore
<1> QED
  BY <1>1, <1>2, <1>3, <1>4, <1>5, <1>6, <1>7, <1>8, <1>9, <1>10 DEF Next

LEMMA Invariance == Spec => []GateInv
BY InitInv, NextInv, PTL DEF Spec

-----------------------------------------------------------------------------
(* Every variable of the gate keeps its type (queue.rs:21-48).             *)
THEOREM TypeCorrect == Spec => []TypeOK
BY Invariance, PTL DEF GateInv

(* No permit is ever lost or made up, whatever waits are cancelled and     *)
(* whatever races with a hand-over (queue.rs:19-20, 109-115).              *)
THEOREM PermitsConserved == Spec => []SlotConservation
BY Invariance, PTL DEF GateInv

(* The queue counter is exact and bounded (queue.rs:15-18, 28-38, 89-107). *)
THEOREM QueueBounded == Spec => []QueueAccounting
BY Invariance, PTL DEF GateInv

(* No lost wake-up: nobody waits while a permit is free (queue.rs:85-87    *)
(* together with 109-112).                                                 *)
THEOREM NoLostWakeup == Spec => []NoIdleSlot
BY Invariance, PTL DEF GateInv

(* The waiting list holds each suspended future once (queue.rs:109-115).   *)
THEOREM WaitListCorrect == Spec => []WaitListOK
BY Invariance, PTL DEF GateInv

-----------------------------------------------------------------------------
(* The gate implements SlotQueue.                                          *)
(* INSTANCE copies the library operators SlotQueue extends: same bodies.   *)
LEMMA SameOperators ==
    /\ \A S : SQ!Cardinality(S) = Cardinality(S)
    /\ \A f : SQ!Range(f) = Range(f)
    /\ \A s, i : SQ!RemoveAt(s, i) = RemoveAt(s, i)
BY DEF SQ!Cardinality, Cardinality, SQ!Range, Range, SQ!RemoveAt, RemoveAt

(* A request that is not in the gate yet, or only registered, is neither   *)
(* an owner nor a waiter of the abstract queue.                            *)
LEMMA OutsideSlotQueue ==
    ASSUME GateInv, NEW r \in Requests, pc[r] \in {"idle", "select"}
    PROVE  ~SQ!Inside(r)
BY SameOperators DEF GateInv, TypeOK, WaitListOK, SQ!Inside, Holding

(* A registered request that finds no permit has a place in the queue.     *)
LEMMA RoomInQueue ==
    ASSUME GateInv, NEW r \in Requests, pc[r] = "select"
    PROVE  Len(waiters) < MaxQueue
<1>1. Range(waiters) \cup {r} \subseteq Slotted /\ r \notin Range(waiters)
  <2>1. Range(waiters) \subseteq Requests
    BY LenProperties DEF Range, GateInv, TypeOK
  <2> QED
    BY <2>1 DEF Slotted, GateInv, TypeOK, WaitListOK
<1>2. /\ IsFiniteSet(Range(waiters))
      /\ Cardinality(Range(waiters)) = Len(waiters)
  BY LengthIsCardinality DEF GateInv, TypeOK, WaitListOK
<1>3. Cardinality(Range(waiters) \cup {r}) = Len(waiters) + 1
  BY <1>1, <1>2, FS_AddElement, Zenon
<1>4. Cardinality(Range(waiters) \cup {r}) <= Cardinality(Slotted)
  BY <1>1, FiniteSets, FS_Subset DEF GateInv
<1>5. Cardinality(Slotted) <= MaxQueue /\ Cardinality(Slotted) \in Nat
  BY DEF GateInv, TypeOK, QueueAccounting
<1> QED
  BY <1>2, <1>3, <1>4, <1>5, GateAssumption, LenProperties DEF GateInv, TypeOK

(* Taking a permit from the pool is Enter.                                 *)
LEMMA TakeIsEnter ==
    ASSUME GateInv, NEW r \in Requests, pc[r] \in {"idle", "select"},
           permits > 0, Holding' = Holding \cup {r}, UNCHANGED waiters
    PROVE  SQ!Enter(r)
<1>1. waiters = <<>>
  BY DEF GateInv, NoIdleSlot
<1>2. Cardinality(Holding) < MaxSessions
  BY FiniteSets, FS_CardinalityType, GateAssumption
     DEF GateInv, SlotConservation, TypeOK
<1> QED
  BY <1>1, <1>2, OutsideSlotQueue, SameOperators DEF SQ!Enter

(* Returning a permit is Finish: the abstract queue moves in the same step *)
(* as the semaphore's list.                                                *)
LEMMA ReturnIsFinish ==
    ASSUME GateInv, NEW r \in Requests, r \in Holding,
           NEW rest \in SUBSET assigned, ReturnPermit(rest),
           Holding' = (Holding \ {r}) \cup (assigned' \ rest)
    PROVE  SQ!Finish(r)
<1>1. CASE waiters = <<>> /\ assigned' = rest /\ UNCHANGED waiters
  <2>1. Holding' = Holding \ {r}
    BY <1>1
  <2> QED
    BY <1>1, <2>1 DEF SQ!Finish
<1>2. CASE waiters # <<>> /\ assigned' = rest \cup {Head(waiters)}
           /\ waiters' = Tail(waiters)
  <2>1. Head(waiters) \in Range(waiters)
    BY <1>2, TailDistinct DEF GateInv, TypeOK, WaitListOK
  <2>2. Head(waiters) \notin rest
    BY <2>1 DEF GateInv, WaitListOK
  <2>3. Holding' = (Holding \ {r}) \cup {Head(waiters)}
    BY <1>2, <2>2
  <2> QED
    BY <1>2, <2>3 DEF SQ!Finish
<1> QED
  BY <1>1, <1>2 DEF ReturnPermit

LEMMA StepRefines ==
    ASSUME GateInv, [Next]_vars
    PROVE  [SQ!SlotNext]_SQ!slotVars
<1> USE DEF GateInv, SQ!slotVars, Goto, semaphore
<1>1. ASSUME NEW r \in Requests, TryAcquire(r)
      PROVE  [SQ!SlotNext]_SQ!slotVars
  <2>1. CASE permits > 0 /\ Goto(r, "held")
    <3>1. Holding' = Holding \cup {r} /\ pc[r] = "idle" /\ UNCHANGED waiters
      BY <1>1, <2>1 DEF TryAcquire, Holding, TypeOK
    <3> QED
      BY <2>1, <3>1, TakeIsEnter DEF SQ!SlotNext
  <2>2. CASE permits = 0 /\ Goto(r, "load")
    BY <1>1, <2>2 DEF TryAcquire, Holding, TypeOK
  <2> QED
    BY <1>1, <2>1, <2>2 DEF TryAcquire
<1>2. ASSUME NEW r \in Requests, Load(r) \/ CompareExchange(r)
      PROVE  UNCHANGED SQ!slotVars
  BY <1>2 DEF Load, CompareExchange, CheckRoom, Holding, TypeOK
<1>3. ASSUME NEW r \in Requests, FirstPoll(r)
      PROVE  [SQ!SlotNext]_SQ!slotVars
  <2>1. r \notin Holding /\ pc[r] = "select" /\ outcome[r] = "none"
    BY <1>3 DEF FirstPoll, Holding, TypeOK, WaitListOK
  <2>2. CASE /\ permits > 0 /\ UNCHANGED <<waiters, assigned>>
             /\ outcome' = [outcome EXCEPT ![r] = "permit"]
             /\ Goto(r, "unslot")
    <3>1. Holding' = Holding \cup {r}
      BY <2>1, <2>2 DEF Holding, TypeOK
    <3> QED
      BY <2>1, <2>2, <3>1, TakeIsEnter DEF SQ!SlotNext
  <2>3. CASE /\ permits = 0 /\ waiters' = Append(waiters, r)
             /\ Goto(r, "waiting") /\ UNCHANGED <<permits, assigned, outcome>>
    <3>1. Holding' = Holding
      BY <2>1, <2>3 DEF Holding, TypeOK
    <3>2. Cardinality(Holding) = MaxSessions
      BY <2>3, FiniteSets, FS_CardinalityType DEF SlotConservation
    <3>3. ~SQ!Inside(r) /\ Len(waiters) < MaxQueue
      BY <2>1, OutsideSlotQueue, RoomInQueue
    <3> QED
      BY <2>3, <3>1, <3>2, <3>3, SameOperators DEF SQ!SlotNext, SQ!Join
  <2>4. CASE /\ outcome' = [outcome EXCEPT ![r] = "ShuttingDown"]
             /\ Goto(r, "unslot") /\ UNCHANGED semaphore
    BY <2>1, <2>4 DEF Holding, TypeOK
  <2> QED
    BY <1>3, <2>2, <2>3, <2>4 DEF FirstPoll
<1>4. ASSUME NEW r \in Requests, TakePermit(r) \/ DropQueueSlot(r)
      PROVE  UNCHANGED SQ!slotVars
  BY <1>4 DEF TakePermit, DropQueueSlot, Holding, TypeOK, WaitListOK
<1>5. ASSUME NEW r \in Requests, NEW error \in Errors, Abandon(r, error)
      PROVE  SQ!SlotNext
  <2>1. /\ pc[r] = "waiting" /\ outcome[r] = "none" /\ error # "permit"
        /\ outcome' = [outcome EXCEPT ![r] = error]
        /\ pc' = [pc EXCEPT ![r] = "unslot"]
    BY <1>5 DEF Abandon, WaitListOK, TypeOK, Errors
  <2>2. CASE r \in assigned /\ ReturnPermit(assigned \ {r})
    <3>1. r \in Holding /\ assigned \ {r} \in SUBSET assigned
      BY <2>2 DEF Holding
    <3>2. Holding' = (Holding \ {r}) \cup (assigned' \ (assigned \ {r}))
      <4>1. r \notin assigned' /\ assigned \ {r} \subseteq assigned'
        <5>1. waiters # <<>> => Head(waiters) \in Range(waiters)
          BY TailDistinct DEF TypeOK, WaitListOK
        <5>2. r \notin Range(waiters)
          BY <2>2 DEF WaitListOK
        <5> QED
          BY <2>2, <5>1, <5>2 DEF ReturnPermit
      <4> QED
        BY <2>1, <4>1 DEF Holding, TypeOK
    <3> QED
      BY <2>2, <3>1, <3>2, ReturnIsFinish DEF SQ!SlotNext
  <2>3. CASE /\ \E i \in DOMAIN waiters :
                   waiters[i] = r /\ waiters' = RemoveAt(waiters, i)
             /\ UNCHANGED <<permits, assigned>>
    <3>1. Holding' = Holding
      BY <2>1, <2>3 DEF Holding, TypeOK
    <3> QED
      BY <2>3, <3>1, SameOperators DEF SQ!SlotNext, SQ!Leave
  <2> QED
    BY <1>5, <2>2, <2>3 DEF Abandon
<1>6. ASSUME NEW r \in Requests, Release(r)
      PROVE  SQ!SlotNext
  <2>1. /\ pc[r] = "held" /\ pc' = [pc EXCEPT ![r] = "idle"]
        /\ ReturnPermit(assigned) /\ UNCHANGED outcome
    BY <1>6 DEF Release
  <2>2. r \in Holding /\ outcome[r] = "none"
    BY <2>1 DEF Holding, WaitListOK, TypeOK
  <2>3. Holding' = (Holding \ {r}) \cup (assigned' \ assigned)
    <3>1. r \notin assigned' /\ assigned \subseteq assigned'
      <4>1. waiters # <<>> => Head(waiters) \in Range(waiters)
        BY TailDistinct DEF TypeOK, WaitListOK
      <4>2. r \notin Range(waiters) /\ r \notin assigned
        BY <2>1 DEF WaitListOK
      <4> QED
        BY <2>1, <4>1, <4>2 DEF ReturnPermit
    <3> QED
      BY <2>1, <2>2, <3>1 DEF Holding, TypeOK
  <2> QED
    BY <2>1, <2>2, <2>3, ReturnIsFinish DEF SQ!SlotNext
<1>7. ASSUME CancelShutdown \/ UNCHANGED vars
      PROVE  UNCHANGED SQ!slotVars
  BY <1>7 DEF CancelShutdown, vars, Holding
<1> QED
  BY <1>1, <1>2, <1>3, <1>4, <1>5, <1>6, <1>7 DEF Next

(* The gate is a bounded FIFO queue in front of MaxSessions slots: every   *)
(* behaviour of queue.rs:79-116 is one of SlotQueue.                       *)
THEOREM GateImplementsSlotQueue == Spec => ImplementsSlotQueue
<1>1. Init => SQ!SlotInit
  BY DEF Init, SQ!SlotInit, Holding
<1> QED
  BY <1>1, Invariance, StepRefines, PTL
     DEF Spec, ImplementsSlotQueue, SQ!SlotSpec
=============================================================================
