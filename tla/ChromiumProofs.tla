--------------------------- MODULE ChromiumProofs ---------------------------
(***************************************************************************)
(* Proofs about Chromium, for any set of helper processes.  The inductive  *)
(* invariant is ChromiumInv: the four invariants the run checks and five   *)
(* facts about what the owner knows of its process group at each point.    *)
(***************************************************************************)
EXTENDS Chromium, TLAPS

(* The profile directory stays from the launch to the end of the teardown, *)
(* unless the owner is dropped (chromium.rs:409, 650-655).                 *)
ProfileKept == pc \notin {"idle", "failed", "closed", "dropped"} => dir = "there"

(* Where the owner may still signal the group by its id, it has not reaped *)
(* the leader yet, so the id is taken (chromium.rs:629-643).               *)
LeaderUnreaped ==
    pc \in {"starting", "reading", "ready", "grace", "reap"} => leader # "reaped"

(* The sweep and what follows it come after the leader (chromium.rs:646).  *)
LeaderReaped == pc \in {"sweep", "clean", "closed"} => leader = "reaped"

(* The sweep leaves nobody who could fork (chromium.rs:646-648).           *)
HelpersSwept ==
    pc \in {"clean", "closed"} =>
       \A h \in Helpers : helper[h] \in {"none", "killed", "dead"}

(* Linux gives an id away only when its group is gone, and an empty group  *)
(* stays empty.                                                            *)
RecycledWhenEmpty ==
    recycled => leader = "reaped" /\ \A h \in Helpers : helper[h] \notin Present

ChromiumInv == /\ TypeOK
               /\ GroupTornDown
               /\ ProfileOutlivesLeader
               /\ TeardownStaysInGroup
               /\ ProfileKept
               /\ LeaderUnreaped
               /\ LeaderReaped
               /\ HelpersSwept
               /\ RecycledWhenEmpty

-----------------------------------------------------------------------------
(* killpg on the group of an unreaped leader reaches only this group, and  *)
(* changes only processes that can still take a signal.                    *)
LEMMA KillGroupEffect ==
    ASSUME ChromiumInv, NEW signal \in {"termed", "killed"}, KillGroup(signal)
    PROVE  /\ leader' \in Leader
           /\ helper' \in [Helpers -> Helper]
           /\ stray' \in BOOLEAN
           /\ leader' = "none" <=> leader = "none"
           /\ leader' = "reaped" <=> leader = "reaped"
           /\ leader' \in Running => leader \in Running
           /\ leader # "reaped" => stray' = stray
           /\ \A h \in Helpers : helper'[h] \in Present <=> helper[h] \in Present
           /\ signal = "killed" => \A h \in Helpers :
                                      helper'[h] \in {"none", "killed", "dead"}
<1> USE DEF ChromiumInv, TypeOK, RecycledWhenEmpty, Leader, Helper, Present, Running
<1>1. CASE recycled /\ stray' = TRUE /\ UNCHANGED group
  BY <1>1 DEF group
<1>2. CASE /\ ~recycled
           /\ leader' = Signalled(leader, signal)
           /\ helper' = [h \in Helpers |-> Signalled(helper[h], signal)]
           /\ UNCHANGED stray
  BY <1>2 DEF Signalled
<1> QED
  BY <1>1, <1>2 DEF KillGroup

-----------------------------------------------------------------------------
LEMMA InitInv == Init => ChromiumInv
BY DEF Init, ChromiumInv, TypeOK, PC, Leader, Helper, Running, GroupTornDown,
       ProfileOutlivesLeader, TeardownStaysInGroup, ProfileKept, LeaderUnreaped,
       LeaderReaped, HelpersSwept, RecycledWhenEmpty

(* The invariant is preserved by what the kernel and the processes of the  *)
(* group do by themselves.                                                 *)
LEMMA ProcessesKeepInv ==
    ASSUME ChromiumInv,
           \/ LeaderDies \/ WritePortFile \/ RecycleId \/ DeadlinePasses
           \/ \E h \in Helpers : Fork(h) \/ HelperDies(h)
    PROVE  ChromiumInv'
<1> USE DEF ChromiumInv, TypeOK, group, GroupTornDown, ProfileOutlivesLeader,
            TeardownStaysInGroup, ProfileKept, LeaderUnreaped, LeaderReaped,
            HelpersSwept, RecycledWhenEmpty
<1>1. CASE LeaderDies
  BY <1>1 DEF LeaderDies, Leader, Present, Running
<1>2. CASE WritePortFile
  BY <1>2 DEF WritePortFile
<1>3. CASE RecycleId
  BY <1>3 DEF RecycleId
<1>4. CASE DeadlinePasses
  BY <1>4 DEF DeadlinePasses
<1>5. ASSUME NEW h \in Helpers, Fork(h)
      PROVE  ChromiumInv'
  (* Somebody who can fork is neither swept nor of a group that is gone.   *)
  <2>1. ~recycled /\ pc \notin {"clean", "closed"}
    BY <1>5 DEF Fork, Present, Running
  <2> QED
    BY <1>5, <2>1 DEF Fork, Helper
<1>6. ASSUME NEW h \in Helpers, HelperDies(h)
      PROVE  ChromiumInv'
  BY <1>6 DEF HelperDies, Helper, Present, Running
<1> QED
  BY <1>1, <1>2, <1>3, <1>4, <1>5, <1>6

(* The invariant is preserved by a launch.                                 *)
LEMMA LaunchKeepsInv ==
    ASSUME ChromiumInv, Launch \/ CheckExit \/ ReadPortFile \/ Stop
    PROVE  ChromiumInv'
<1> USE DEF ChromiumInv, TypeOK, PC, Leader, group, GroupTornDown,
            ProfileOutlivesLeader, TeardownStaysInGroup, ProfileKept,
            LeaderUnreaped, LeaderReaped, HelpersSwept, RecycledWhenEmpty
<1>1. CASE Launch
  BY <1>1 DEF Launch
<1>2. CASE CheckExit
  BY <1>2 DEF CheckExit, Running
<1>3. CASE ReadPortFile
  BY <1>3 DEF ReadPortFile
<1>4. CASE Stop
  BY <1>4 DEF Stop
<1> QED
  BY <1>1, <1>2, <1>3, <1>4

(* The invariant is preserved by a teardown, and by a dropped owner.       *)
LEMMA TeardownKeepsInv ==
    ASSUME ChromiumInv,
           \/ Terminate \/ Reap \/ GraceExpires \/ Sweep \/ CloseDir
           \/ Drop \/ ReapOrphan
    PROVE  ChromiumInv'
<1> USE DEF ChromiumInv, TypeOK, PC, Leader, group, GroupTornDown,
            ProfileOutlivesLeader, TeardownStaysInGroup, ProfileKept,
            LeaderUnreaped, LeaderReaped, HelpersSwept, RecycledWhenEmpty
<1>1. CASE Terminate
  <2>1. CASE /\ leader \in {"zombie", "reaped"} /\ leader' = "reaped"
             /\ pc' = "sweep" /\ UNCHANGED <<helper, stray>>
    BY <1>1, <2>1 DEF Terminate, Running
  <2>2. CASE leader \in Present /\ KillGroup("termed") /\ pc' = "grace"
    BY <1>1, <2>2, KillGroupEffect DEF Terminate, Present, Running
  <2> QED
    BY <1>1, <2>1, <2>2 DEF Terminate
<1>2. CASE Reap
  BY <1>2 DEF Reap, Running
<1>3. CASE GraceExpires
  BY <1>3, KillGroupEffect DEF GraceExpires
<1>4. CASE Sweep
  BY <1>4, KillGroupEffect DEF Sweep, Present, Running
<1>5. CASE CloseDir
  BY <1>5 DEF CloseDir, RemoveDir, Running
<1>6. CASE Drop
  BY <1>6 DEF Drop, RemoveDir, Signalled, Present, Running
<1>7. CASE ReapOrphan
  BY <1>7 DEF ReapOrphan, Running
<1> QED
  BY <1>1, <1>2, <1>3, <1>4, <1>5, <1>6, <1>7

LEMMA NextInv == ChromiumInv /\ [Next]_vars => ChromiumInv'
<1> SUFFICES ASSUME ChromiumInv, [Next]_vars PROVE ChromiumInv'
  OBVIOUS
<1>1. CASE Ended \/ UNCHANGED vars
  BY <1>1 DEF Ended, vars, group, ChromiumInv, TypeOK, GroupTornDown,
              ProfileOutlivesLeader, TeardownStaysInGroup, ProfileKept,
              LeaderUnreaped, LeaderReaped, HelpersSwept, RecycledWhenEmpty
<1> QED
  BY <1>1, ProcessesKeepInv, LaunchKeepsInv, TeardownKeepsInv DEF Next, Owner

LEMMA Invariance == Spec => []ChromiumInv
BY InitInv, NextInv, PTL DEF Spec

(* Every variable keeps its type, and there is a process and a directory   *)
(* exactly when the launch got as far (chromium.rs:409-470).               *)
THEOREM TypeCorrect == Spec => []TypeOK
BY Invariance, PTL DEF ChromiumInv

(* A completed teardown leaves a reaped leader and no helper without a     *)
(* SIGKILL, late forks included (chromium.rs:617-648).                     *)
THEOREM GroupIsTornDown == Spec => []GroupTornDown
BY Invariance, PTL DEF ChromiumInv

(* The profile directory is not removed under a running leader             *)
(* (chromium.rs:629-655).                                                  *)
THEOREM ProfileIsSafe == Spec => []ProfileOutlivesLeader
BY Invariance, PTL DEF ChromiumInv

(* Up to the sweep, no signal of a teardown can reach a group that reuses  *)
(* the id (chromium.rs:629-643); the sweep can (chromium.rs:648).          *)
THEOREM TeardownSignalsStay == Spec => []TeardownStaysInGroup
BY Invariance, PTL DEF ChromiumInv

-----------------------------------------------------------------------------
(* The process group implements BrowserLifecycle.                          *)

(* What nobody but the owner does leaves the abstract browser as it is,    *)
(* since a torn-down group stays without a running process.                *)
LEMMA ProcessesStutter ==
    ASSUME ChromiumInv, ChromiumInv',
           \/ LeaderDies \/ WritePortFile \/ RecycleId \/ DeadlinePasses
           \/ Ended \/ UNCHANGED vars
           \/ \E h \in Helpers : Fork(h) \/ HelperDies(h)
    PROVE  BrowserState' = BrowserState
<1>1. pc' = pc
  BY DEF LeaderDies, WritePortFile, RecycleId, DeadlinePasses, Fork,
         HelperDies, Ended, vars
<1>2. pc = "closed" => /\ leader \notin Running /\ leader' \notin Running
                       /\ \A h \in Helpers : /\ helper[h] \notin Running
                                             /\ helper'[h] \notin Running
  BY <1>1 DEF ChromiumInv, GroupTornDown, Running
<1> QED
  BY <1>1, <1>2 DEF BrowserState

LEMMA StepRefines ==
    ASSUME ChromiumInv, ChromiumInv', [Next]_vars
    PROVE  [Lifecycle!Next]_BrowserState
<1> USE DEF Lifecycle!Next
<1>1. CASE Launch
  BY <1>1 DEF Launch, BrowserState, Lifecycle!Spawn
<1>2. CASE CheckExit
  BY <1>2 DEF CheckExit, BrowserState, Lifecycle!GiveUp
<1>3. CASE ReadPortFile
  BY <1>3 DEF ReadPortFile, BrowserState, Lifecycle!Publish, Lifecycle!GiveUp
<1>4. CASE Stop
  BY <1>4 DEF Stop, BrowserState, Lifecycle!Stop
<1>5. CASE Terminate \/ Reap \/ GraceExpires \/ Sweep \/ ReapOrphan
  BY <1>5 DEF Terminate, Reap, GraceExpires, Sweep, ReapOrphan, BrowserState
<1>6. CASE CloseDir
  (* Nobody is left who runs: the sweep was the last signal.               *)
  <2>1. BrowserState = "stopping"
    BY <1>6 DEF CloseDir, BrowserState
  <2>2. /\ pc' = "closed" /\ leader' \notin Running
        /\ \A h \in Helpers : helper'[h] \notin Running
    BY <1>6 DEF CloseDir, ChromiumInv, GroupTornDown, Running
  <2>3. BrowserState' = "none"
    BY <2>2 DEF BrowserState
  <2> QED
    BY <2>1, <2>3 DEF Lifecycle!TearDown
<1>7. CASE Drop
  BY <1>7 DEF Drop, BrowserState, Lifecycle!Abandon
<1> QED
  BY <1>1, <1>2, <1>3, <1>4, <1>5, <1>6, <1>7, ProcessesStutter DEF Next, Owner

(* What launch, shutdown and Drop do to the processes (chromium.rs:409-655)*)
(* is what the gateway's model assumes of a browser, liveness apart: it is *)
(* up only after it was started, and counts as gone only after a teardown  *)
(* that leaves nobody running.                                             *)
THEOREM ChromiumImplementsLifecycle == Spec => Lifecycle!Spec
<1>1. Init => Lifecycle!Init
  BY DEF Init, BrowserState, Lifecycle!Init
<1>2. ChromiumInv /\ ChromiumInv' /\ [Next]_vars => [Lifecycle!Next]_BrowserState
  BY StepRefines
<1> QED
  BY <1>1, <1>2, Invariance, PTL DEF Spec, Lifecycle!Spec
=============================================================================
