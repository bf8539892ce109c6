-------------------------------- MODULE Gate --------------------------------
(***************************************************************************)
(* The concurrency gate of src/src/queue.rs: a tokio semaphore with one    *)
(* permit per session, and an atomic counter that bounds how many requests *)
(* may wait for a permit.  Requests run on several threads, so every       *)
(* atomic access of Gate::acquire is a step of its own; an await point is  *)
(* where a request may be resumed or dropped.  A request that leaves the   *)
(* gate may come back, so behaviours are not bounded in length.            *)
(***************************************************************************)
EXTENDS Integers, Sequences, FiniteSets, SequencesExt

CONSTANTS Requests,     \* the request tasks that call acquire
          MaxSessions,  \* MAX_CONCURRENT_SESSIONS, at least 1 (config.rs)
          MaxQueue      \* MAX_QUEUE_LENGTH, may be 0

ASSUME GateAssumption == /\ IsFiniteSet(Requests)
                         /\ MaxSessions \in Nat \ {0}
                         /\ MaxQueue \in Nat

VARIABLES permits,      \* semaphore: permits nobody owns
          waiters,      \* semaphore: the FIFO list of waiting futures
          assigned,     \* futures handed a permit but not polled since
          queued,       \* the atomic counter Gate.queued
          pc,           \* where each request is inside acquire
          current,      \* the counter value each request last read
          outcome,      \* what the select returned, until the slot guard drops
          shutdown      \* the CancellationToken passed to acquire

semaphore == <<permits, waiters, assigned>>
vars == <<permits, waiters, assigned, queued, pc, current, outcome, shutdown>>

(* "idle" is outside acquire, "held" owns the returned permit, "unslot" is *)
(* past the select with the QueueSlot guard still alive.                   *)
PC == {"idle", "load", "cas", "select", "waiting", "unslot", "held"}
Errors == {"QueueTimeout", "ShuttingDown", "Dropped"}

Init ==
    /\ permits = MaxSessions
    /\ waiters = <<>>
    /\ assigned = {}
    /\ queued = 0
    /\ pc = [r \in Requests |-> "idle"]
    /\ current = [r \in Requests |-> 0]
    /\ outcome = [r \in Requests |-> "none"]
    /\ shutdown = FALSE

Goto(r, label) == pc' = [pc EXCEPT ![r] = label]

-----------------------------------------------------------------------------
(* Mutants of ReturnPermit: the released permit goes back to the pool      *)
(* although a future waits; the youngest waiter is served first.           *)
ReturnPermitToPool(rest) ==
    permits' = permits + 1 /\ assigned' = rest /\ UNCHANGED waiters

ReturnPermitLifo(rest) ==
    IF waiters = <<>> THEN ReturnPermitToPool(rest)
    ELSE /\ assigned' = rest \cup {Last(waiters)}
         /\ waiters' = Front(waiters)
         /\ UNCHANGED permits

(* The tokio semaphore.  A returned permit goes to the oldest waiting      *)
(* future, which owns it from then on, and to the pool only when nobody    *)
(* waits.  rest is the set of assigned futures once the permit is taken    *)
(* from whoever returns it.                                                *)
ReturnPermit(rest) ==
    \/ /\ waiters = <<>>
       /\ permits' = permits + 1
       /\ assigned' = rest
       /\ UNCHANGED waiters
    \/ /\ waiters # <<>>
       /\ assigned' = rest \cup {Head(waiters)}
       /\ waiters' = Tail(waiters)
       /\ UNCHANGED permits

(* Fast path: a free permit is taken without any queue accounting.         *)
TryAcquire(r) ==
    /\ pc[r] = "idle"
    /\ \/ permits > 0 /\ permits' = permits - 1 /\ Goto(r, "held")
       \/ permits = 0 /\ UNCHANGED permits /\ Goto(r, "load")
    /\ UNCHANGED <<waiters, assigned, queued, current, outcome, shutdown>>

(* The counter value just read decides: QueueFull, or try to register.     *)
CheckRoom(r) ==
    \/ /\ queued >= MaxQueue
       /\ current' = [current EXCEPT ![r] = 0]
       /\ Goto(r, "idle")
    \/ /\ queued < MaxQueue
       /\ current' = [current EXCEPT ![r] = queued]
       /\ Goto(r, "cas")

Load(r) ==
    /\ pc[r] = "load"
    /\ CheckRoom(r)
    /\ UNCHANGED <<semaphore, queued, outcome, shutdown>>

(* Mutant: the counter is raised without reading it again on contention.   *)
CompareExchangeBlind(r) ==
    /\ pc[r] = "cas"
    /\ queued' = queued + 1
    /\ current' = [current EXCEPT ![r] = 0]
    /\ Goto(r, "select")
    /\ UNCHANGED <<semaphore, outcome, shutdown>>

(* Mutant: the slot guard is created although nothing was counted.         *)
CompareExchangeUncounted(r) ==
    /\ pc[r] = "cas"
    /\ current' = [current EXCEPT ![r] = 0]
    /\ Goto(r, "select")
    /\ UNCHANGED <<semaphore, queued, outcome, shutdown>>

(* compare_exchange_weak: on contention the actual value is checked again. *)
(* A spurious failure reads the same value and changes nothing.            *)
CompareExchange(r) ==
    /\ pc[r] = "cas"
    /\ \/ /\ queued = current[r]
          /\ queued' = queued + 1
          /\ current' = [current EXCEPT ![r] = 0]
          /\ Goto(r, "select")
       \/ queued # current[r] /\ CheckRoom(r) /\ UNCHANGED queued
    /\ UNCHANGED <<semaphore, outcome, shutdown>>

(* First poll of the select.  Its branches are polled in random order, so  *)
(* a cancelled token may win before the semaphore is looked at.            *)
FirstPoll(r) ==
    /\ pc[r] = "select"
    /\ \/ /\ permits > 0
          /\ permits' = permits - 1
          /\ outcome' = [outcome EXCEPT ![r] = "permit"]
          /\ Goto(r, "unslot")
          /\ UNCHANGED <<waiters, assigned>>
       \/ /\ permits = 0
          /\ waiters' = Append(waiters, r)
          /\ Goto(r, "waiting")
          /\ UNCHANGED <<permits, assigned, outcome>>
       \/ /\ shutdown
          /\ outcome' = [outcome EXCEPT ![r] = "ShuttingDown"]
          /\ Goto(r, "unslot")
          /\ UNCHANGED semaphore
    /\ UNCHANGED <<queued, current, shutdown>>

(* Mutant: the wake-up is lost, the future is never polled again.          *)
TakePermitNotWoken(r) == FALSE

(* The suspended future is polled again and finds the permit it was given. *)
TakePermit(r) ==
    /\ pc[r] = "waiting"
    /\ r \in assigned
    /\ assigned' = assigned \ {r}
    /\ outcome' = [outcome EXCEPT ![r] = "permit"]
    /\ Goto(r, "unslot")
    /\ UNCHANGED <<permits, waiters, queued, current, shutdown>>

(* Mutant: a cancelled wait forgets the permit it had been handed.         *)
AbandonLosesPermit(r, error) ==
    /\ pc[r] = "waiting"
    /\ error = "ShuttingDown" => shutdown
    /\ outcome' = [outcome EXCEPT ![r] = error]
    /\ Goto(r, "unslot")
    /\ assigned' = assigned \ {r}
    /\ waiters' = SelectSeq(waiters, LAMBDA w : w # r)
    /\ UNCHANGED <<permits, queued, current, shutdown>>

(* Mutant: a cancelled wait stays on the semaphore's list.                 *)
AbandonStaysListed(r, error) ==
    /\ pc[r] = "waiting" /\ r \notin assigned
    /\ error = "ShuttingDown" => shutdown
    /\ outcome' = [outcome EXCEPT ![r] = error]
    /\ Goto(r, "unslot")
    /\ UNCHANGED <<semaphore, queued, current, shutdown>>

(* Mutant: the select has no shutdown branch.                              *)
AbandonUnlessShutdown(r, error) ==
    error # "ShuttingDown" /\ AbandonLosesPermit(r, error)

(* The select ends without the permit, or the whole request is dropped     *)
(* because the client disconnected.  Dropping the semaphore future takes   *)
(* it off the list, or passes on the permit it had already been handed.    *)
Abandon(r, error) ==
    /\ pc[r] = "waiting"
    /\ error = "ShuttingDown" => shutdown
    /\ outcome' = [outcome EXCEPT ![r] = error]
    /\ Goto(r, "unslot")
    /\ \/ r \in assigned /\ ReturnPermit(assigned \ {r})
       \/ /\ \E i \in DOMAIN waiters :
                waiters[i] = r /\ waiters' = RemoveAt(waiters, i)
          /\ UNCHANGED <<permits, assigned>>
    /\ UNCHANGED <<queued, current, shutdown>>

(* QueueSlot::drop, then acquire returns (or its drop completes).          *)
DropQueueSlot(r) ==
    /\ pc[r] = "unslot"
    /\ queued' = queued - 1
    /\ outcome' = [outcome EXCEPT ![r] = "none"]
    /\ \/ outcome[r] = "permit" /\ Goto(r, "held")
       \/ outcome[r] # "permit" /\ Goto(r, "idle")
    /\ UNCHANGED <<semaphore, current, shutdown>>

(* The owner drops its OwnedSemaphorePermit: the session is over.          *)
Release(r) ==
    /\ pc[r] = "held"
    /\ ReturnPermit(assigned)
    /\ Goto(r, "idle")
    /\ UNCHANGED <<queued, current, outcome, shutdown>>

CancelShutdown ==
    /\ ~shutdown
    /\ shutdown' = TRUE
    /\ UNCHANGED <<semaphore, queued, pc, current, outcome>>

Next ==
    \/ \E r \in Requests :
          \/ TryAcquire(r) \/ Load(r) \/ CompareExchange(r) \/ FirstPoll(r)
          \/ TakePermit(r) \/ DropQueueSlot(r) \/ Release(r)
          \/ \E error \in Errors : Abandon(r, error)
    \/ CancelShutdown

Spec == Init /\ [][Next]_vars

(* The runtime polls every runnable task: a request that can go on inside  *)
(* acquire does, a woken one is polled.  Queue timeouts, disconnects and   *)
(* new arrivals are left to the environment.                               *)
Polled(r) == \/ Load(r) \/ CompareExchange(r) \/ FirstPoll(r) \/ TakePermit(r)
             \/ Abandon(r, "ShuttingDown") \/ DropQueueSlot(r)

FairSpec == Spec /\ \A r \in Requests : WF_vars(Polled(r))

(* Every session ends.  CONNECTION_TIMEOUT_MS sees to that as long as      *)
(* client and Chromium read what they are sent (Proxy.tla), so this is an  *)
(* assumption of the properties that need it and not a part of FairSpec.   *)
SessionsEnd == \A r \in Requests : WF_vars(Release(r))

-----------------------------------------------------------------------------
(* Requests that own a permit, and requests whose QueueSlot is alive.      *)
Holding == assigned \cup
           {r \in Requests : pc[r] = "held" \/ outcome[r] = "permit"}
Slotted == {r \in Requests : pc[r] \in {"select", "waiting", "unslot"}}

(* Every variable keeps its type, and each request's fields fit its pc.    *)
TypeOK ==
    /\ permits \in Nat
    /\ waiters \in Seq(Requests)
    /\ assigned \subseteq Requests
    /\ queued \in Nat
    /\ pc \in [Requests -> PC]
    /\ current \in [Requests -> Nat]
    /\ outcome \in [Requests -> Errors \cup {"none", "permit"}]
    /\ shutdown \in BOOLEAN

(* queue.rs:19-20 promises that a slot is released exactly once.  Counting *)
(* the pool and every owner always gives MaxSessions back: no cancelled    *)
(* wait, race or disconnect loses a permit or makes one up.                *)
SlotConservation == permits + Cardinality(Holding) = MaxSessions

(* The counter is the number of live QueueSlot guards and never passes the *)
(* limit, whatever the interleaving of loads, exchanges and drops.         *)
QueueAccounting == queued = Cardinality(Slotted) /\ queued <= MaxQueue

(* Nobody waits in the semaphore while a permit is free: no lost wake-up,  *)
(* which is what makes the fast path unable to overtake a waiting future.  *)
NoIdleSlot == waiters # <<>> => permits = 0

(* The semaphore's list and its hand-overs only mention suspended futures, *)
(* each exactly once.                                                      *)
WaitListOK ==
    /\ \A r \in Requests :
          pc[r] = "waiting" <=> r \in assigned \/ r \in Range(waiters)
    /\ IsInjective(waiters)
    /\ Range(waiters) \cap assigned = {}
    /\ \A r \in Requests : outcome[r] # "none" <=> pc[r] = "unslot"

(* The gate is a bounded FIFO queue in front of a fixed number of slots:   *)
(* owners of a permit are the active requests, the semaphore's list is the *)
(* queue.                                                                  *)
SQ == INSTANCE SlotQueue WITH active <- Holding, queue <- waiters
ImplementsSlotQueue == SQ!SlotSpec

(* The gate also keeps the queue's liveness: if sessions end, no request   *)
(* owns a slot for ever, one that was handed a permit while suspended      *)
(* included.                                                               *)
SlotsComeBack == SessionsEnd => SQ!SlotFairness

(* A request registered in the queue is eventually served or refused, even *)
(* if no queue timeout ever fires, as long as sessions end.  And sessions  *)
(* or not, it stays in the counter only while it really waits: one that    *)
(* was handed a permit, or gave up, does not keep the queue "full" for the *)
(* others (queue.rs:28-38, 92).                                            *)
QueueMoves ==
    /\ SessionsEnd => \A r \in Requests : r \in Slotted ~> r \notin Slotted
    /\ \A r \in Requests :
          r \in Slotted ~> r \notin Slotted \/ r \in Range(waiters)

(* Shutdown empties the queue by itself, without any session ending, and   *)
(* gives the places in the counter back.                                   *)
ShutdownWakesQueue ==
    \A r \in Requests : shutdown /\ r \in Slotted ~> r \notin Slotted

(* README.md:48 says the queue is impossible to bypass: a request that     *)
(* takes a free slot on the fast path overtakes nobody who registered.     *)
QueueNotBypassed ==
    [][\A r, w \in Requests :
          pc[r] = "idle" /\ pc'[r] = "held" => pc[w] # "select"]_vars
=============================================================================
