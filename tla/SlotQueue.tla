----------------------------- MODULE SlotQueue -----------------------------
(***************************************************************************)
(* What the concurrency gate promises to the rest of the gateway, with the *)
(* atomics, the semaphore and the select loop left out: a fixed number of  *)
(* slots, a bounded FIFO queue in front of them, and no slot that idles    *)
(* while somebody queues.  Gate.tla (the code of src/src/queue.rs) is      *)
(* shown to implement this module; Gateway.tla composes with it.           *)
(***************************************************************************)
EXTENDS Integers, Sequences, FiniteSets, SequencesExt

CONSTANTS Requests,     \* the requests that may ask for a slot
          MaxSessions,  \* number of slots
          MaxQueue      \* number of places in the queue

VARIABLES active,       \* the requests that own a slot
          queue         \* the requests that wait for one, oldest first

slotVars == <<active, queue>>

SlotInit == active = {} /\ queue = <<>>

Inside(r) == r \in active \/ r \in Range(queue)

(* A slot is free and nobody waits: r gets the slot at once.               *)
Enter(r) ==
    /\ ~Inside(r)
    /\ queue = <<>>
    /\ Cardinality(active) < MaxSessions
    /\ active' = active \cup {r}
    /\ UNCHANGED queue

(* Every slot is taken and the queue has room: r waits at the back.        *)
Join(r) ==
    /\ ~Inside(r)
    /\ Cardinality(active) = MaxSessions
    /\ Len(queue) < MaxQueue
    /\ queue' = Append(queue, r)
    /\ UNCHANGED active

(* r gives up waiting: timeout, shutdown or client disconnect.             *)
Leave(r) ==
    /\ \E i \in DOMAIN queue : queue[i] = r /\ queue' = RemoveAt(queue, i)
    /\ UNCHANGED active

(* r gives its slot back, which is handed to the oldest waiter in the same *)
(* step: a newcomer never finds it free.                                   *)
Finish(r) ==
    /\ r \in active
    /\ \/ /\ queue = <<>>
          /\ active' = active \ {r}
          /\ UNCHANGED queue
       \/ /\ queue # <<>>
          /\ active' = (active \ {r}) \cup {Head(queue)}
          /\ queue' = Tail(queue)

SlotNext == \E r \in Requests : Enter(r) \/ Join(r) \/ Leave(r) \/ Finish(r)

SlotSpec == SlotInit /\ [][SlotNext]_slotVars

(* Every owner of a slot eventually gives it back.                         *)
SlotFairness == \A r \in Requests : WF_slotVars(Finish(r))
=============================================================================
