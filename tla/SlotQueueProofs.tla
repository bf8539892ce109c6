-------------------------- MODULE SlotQueueProofs --------------------------
(***************************************************************************)
(* What SlotQueue promises, proved from its actions alone: the gate, which *)
(* implements SlotQueue, and the gateway, which composes with it, may both *)
(* rely on it.  The four Effect lemmas say what one action does to the     *)
(* owners and to the waiters.                                              *)
(***************************************************************************)
EXTENDS SlotQueue, SequenceLemmas

(* What the code checks of its configuration (config.rs).                  *)
SlotConstants ==
    IsFiniteSet(Requests) /\ MaxSessions \in Nat \ {0} /\ MaxQueue \in Nat

(* Nobody owns two places, nor waits while a slot is free, and neither     *)
(* slots nor places are exceeded (queue.rs:15-20).                         *)
SlotInv ==
    /\ active \subseteq Requests
    /\ queue \in Seq(Requests)
    /\ IsInjective(queue)
    /\ active \cap Range(queue) = {}
    /\ Cardinality(active) <= MaxSessions
    /\ Len(queue) <= MaxQueue
    /\ queue # <<>> => Cardinality(active) = MaxSessions

LEMMA ActiveIsFinite ==
    ASSUME SlotConstants, SlotInv
    PROVE  IsFiniteSet(active) /\ Cardinality(active) \in Nat
BY FS_Subset, FS_CardinalityType DEF SlotConstants, SlotInv

LEMMA EnterEffect ==
    ASSUME SlotConstants, SlotInv, NEW r \in Requests, Enter(r)
    PROVE  /\ SlotInv'
           /\ r \notin active /\ active' = active \cup {r}
           /\ queue' = queue
<1>1. Cardinality(active') = Cardinality(active) + 1
  BY ActiveIsFinite, FS_AddElement DEF Enter, Inside
<1>2. Cardinality(active') <= MaxSessions
  BY <1>1, ActiveIsFinite DEF Enter, SlotConstants
<1>3. Range(queue) = {}
  <2>1. DOMAIN queue = {}
    BY DEF Enter
  <2> QED
    BY <2>1 DEF Range
<1> QED
  BY <1>2, <1>3 DEF Enter, Inside, SlotInv

LEMMA JoinEffect ==
    ASSUME SlotConstants, SlotInv, NEW r \in Requests, Join(r)
    PROVE  /\ SlotInv'
           /\ r \notin active /\ active' = active
           /\ r \notin Range(queue) /\ Range(queue') = Range(queue) \cup {r}
<1>1. /\ queue' \in Seq(Requests) /\ IsInjective(queue')
      /\ Range(queue') = Range(queue) \cup {r}
  BY AppendDistinct DEF Join, Inside, SlotInv
<1>2. Len(queue') = Len(queue) + 1 /\ Len(queue) \in Nat
  BY AppendProperties, LenProperties DEF Join, SlotInv
<1>3. Len(queue') <= MaxQueue
  BY <1>2 DEF Join, SlotConstants
<1> QED
  BY <1>1, <1>3, ActiveIsFinite DEF Join, Inside, SlotInv

LEMMA LeaveEffect ==
    ASSUME SlotConstants, SlotInv, NEW r \in Requests, Leave(r)
    PROVE  /\ SlotInv'
           /\ r \in Range(queue) /\ Range(queue') = Range(queue) \ {r}
           /\ active' = active
<1>1. PICK i \in DOMAIN queue : queue[i] = r /\ queue' = RemoveAt(queue, i)
  BY DEF Leave
<1>2. /\ queue' \in Seq(Requests) /\ IsInjective(queue')
      /\ Range(queue') = Range(queue) \ {r}
  BY <1>1, RemoveAtDistinct DEF SlotInv
<1>3. r \in Range(queue) /\ queue # <<>>
  BY <1>1 DEF Range
<1>4. Len(queue') <= Len(queue)
  <2>1. Cardinality(Range(queue')) <= Cardinality(Range(queue))
    BY <1>2, LengthIsCardinality, FS_Subset DEF SlotInv
  <2> QED
    BY <1>2, <2>1, LengthIsCardinality DEF SlotInv
<1>5. Len(queue') <= MaxQueue
  BY <1>2, <1>4, LenProperties DEF SlotInv, SlotConstants
<1> QED
  BY <1>2, <1>3, <1>5 DEF Leave, SlotInv

(* The slot goes to nobody, or to one request that waited.                 *)
LEMMA FinishEffect ==
    ASSUME SlotConstants, SlotInv, NEW r \in Requests, Finish(r)
    PROVE  /\ SlotInv'
           /\ r \in active
           /\ \E given \in SUBSET Range(queue) :
                 /\ active' = (active \ {r}) \cup given
                 /\ Range(queue') = Range(queue) \ given
<1>1. CASE queue = <<>> /\ active' = active \ {r} /\ UNCHANGED queue
  <2>1. Cardinality(active') <= MaxSessions
    <3>1. Cardinality(active \ {r}) = Cardinality(active) - 1
      BY ActiveIsFinite, FS_RemoveElement DEF Finish
    <3> QED
      BY <1>1, <3>1, ActiveIsFinite DEF SlotInv, SlotConstants
  <2>2. active' = (active \ {r}) \cup {} /\ Range(queue') = Range(queue) \ {}
    BY <1>1
  <2> QED
    BY <1>1, <2>1, <2>2 DEF Finish, SlotInv
<1>2. CASE queue # <<>> /\ active' = (active \ {r}) \cup {Head(queue)}
           /\ queue' = Tail(queue)
  <2>1. /\ Head(queue) \in Requests /\ Head(queue) \in Range(queue)
        /\ queue' \in Seq(Requests) /\ IsInjective(queue')
        /\ Range(queue') = Range(queue) \ {Head(queue)}
    BY <1>2, TailDistinct DEF SlotInv
  <2>2. Cardinality(active') = Cardinality(active)
    BY <1>2, <2>1, ActiveIsFinite, PassOnCount DEF Finish, SlotInv
  <2>3. Len(queue') <= MaxQueue
    BY <1>2, HeadTailProperties, LenProperties DEF SlotInv, SlotConstants
  <2> QED
    BY <1>2, <2>1, <2>2, <2>3 DEF Finish, SlotInv
<1> QED
  BY <1>1, <1>2 DEF Finish

-----------------------------------------------------------------------------
LEMMA SlotInitInv == SlotConstants /\ SlotInit => SlotInv
<1> SUFFICES ASSUME SlotConstants, SlotInit PROVE SlotInv
  OBVIOUS
<1>1. DOMAIN queue = {} /\ queue \in Seq(Requests) /\ Len(queue) = 0
  BY EmptySeq DEF SlotInit
<1>2. IsInjective(queue) /\ Range(queue) = {}
  BY <1>1 DEF IsInjective, Range
<1>3. Cardinality(active) = 0
  BY FS_EmptySet DEF SlotInit
<1> QED
  BY <1>1, <1>2, <1>3 DEF SlotInit, SlotInv, SlotConstants

LEMMA SlotNextInv == SlotConstants /\ SlotInv /\ [SlotNext]_slotVars => SlotInv'
<1> SUFFICES ASSUME SlotConstants, SlotInv, [SlotNext]_slotVars PROVE SlotInv'
  OBVIOUS
<1>1. CASE UNCHANGED slotVars
  BY <1>1 DEF slotVars, SlotInv
<1> QED
  BY <1>1, EnterEffect, JoinEffect, LeaveEffect, FinishEffect DEF SlotNext

(* At most MaxSessions requests own a slot and at most MaxQueue wait, none *)
(* twice and none while a slot is free: the promise of queue.rs:15-20 to   *)
(* server.rs and session.rs.                                               *)
THEOREM SlotsBounded ==
    ASSUME SlotConstants
    PROVE  SlotSpec => []SlotInv
<1>1. SlotInit => SlotInv
  BY SlotInitInv
<1>2. SlotInv /\ [SlotNext]_slotVars => SlotInv'
  BY SlotNextInv
<1> QED
  BY <1>1, <1>2, PTL DEF SlotSpec
=============================================================================
