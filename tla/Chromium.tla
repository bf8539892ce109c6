------------------------------ MODULE Chromium ------------------------------
(***************************************************************************)
(* One Chromium process group, from its launch to its teardown             *)
(* (chromium.rs): the leader that pinokio spawned with setsid, the helper  *)
(* processes it and its zygote fork into the same group, the profile       *)
(* directory, and the task that owns them.  A step of the task ends where  *)
(* it awaits or where another process can see the difference.              *)
(***************************************************************************)
EXTENDS Integers, FiniteSets

CONSTANT Helpers        \* helper processes the group may fork

ASSUME ChromiumAssumption == IsFiniteSet(Helpers)

VARIABLES pc,           \* the owner: launch, then shutdown
          leader,       \* the spawned process
          helper,       \* the rest of its group
          portFile,     \* DevToolsActivePort
          deadline,     \* CHROME_STARTUP_TIMEOUT_MS has passed
          dir,          \* the profile directory
          recycled,     \* the group's id now names somebody else's group
          stray         \* a signal went to such a group

group == <<leader, helper>>
vars == <<pc, group, portFile, deadline, dir, recycled, stray>>

(* "failed" is a launch without a process, "closed" follows a teardown     *)
(* (of a failed launch too), "dropped" means that Chromium or the future   *)
(* of launch was dropped.                                                  *)
PC == {"idle", "starting", "reading", "ready", "stopping", "grace", "reap",
       "sweep", "clean", "closed", "failed", "dropped"}

(* A process that got SIGTERM may ignore it; "killed" has SIGKILL pending. *)
Leader == {"none", "alive", "termed", "killed", "zombie", "reaped"}
Helper == {"none", "alive", "termed", "killed", "dead"}
Running == {"alive", "termed"}
Present == Running \cup {"killed"}

Init ==
    /\ pc = "idle"
    /\ leader = "none"
    /\ helper = [h \in Helpers |-> "none"]
    /\ portFile = "absent"
    /\ deadline = FALSE
    /\ dir = "none"
    /\ recycled = FALSE /\ stray = FALSE

-----------------------------------------------------------------------------
(* The kernel and the processes of the group.                              *)

Fork(h) ==
    /\ helper[h] = "none"
    /\ leader \in Running \/ \E g \in Helpers : helper[g] \in Running
    /\ helper' = [helper EXCEPT ![h] = "alive"]
    /\ UNCHANGED <<pc, leader, portFile, deadline, dir, recycled, stray>>

LeaderDies ==
    /\ leader \in Present
    /\ leader' = "zombie"
    /\ UNCHANGED <<pc, helper, portFile, deadline, dir, recycled, stray>>

HelperDies(h) ==
    /\ helper[h] \in Present
    /\ helper' = [helper EXCEPT ![h] = "dead"]
    /\ UNCHANGED <<pc, leader, portFile, deadline, dir, recycled, stray>>

(* The file exists before its two lines are in it.                         *)
WritePortFile ==
    /\ leader \in Running
    /\ \/ portFile = "absent" /\ portFile' = "empty"
       \/ portFile = "empty" /\ portFile' = "whole"
    /\ UNCHANGED <<pc, group, deadline, dir, recycled, stray>>

(* An id is free once its leader is reaped and nobody is in the group.     *)
RecycleId ==
    /\ leader = "reaped"
    /\ \A h \in Helpers : helper[h] \notin Present
    /\ ~recycled /\ recycled' = TRUE
    /\ UNCHANGED <<pc, group, portFile, deadline, dir, stray>>

DeadlinePasses ==
    /\ ~deadline /\ deadline' = TRUE
    /\ UNCHANGED <<pc, group, portFile, dir, recycled, stray>>

(* What a group looks like when everybody in it was sent a signal.         *)
Signalled(status, signal) ==
    IF status \in Present /\ status # "killed" THEN signal ELSE status

KillGroup(signal) ==
    IF recycled
    THEN stray' = TRUE /\ UNCHANGED group
    ELSE /\ leader' = Signalled(leader, signal)
         /\ helper' = [h \in Helpers |-> Signalled(helper[h], signal)]
         /\ UNCHANGED stray

(* remove_dir_all, which fails if somebody writes into the directory       *)
(* meanwhile.                                                              *)
RemoveDir ==
    \/ dir' = "removed"
    \/ /\ leader \in Present \/ \E h \in Helpers : helper[h] \in Present
       /\ UNCHANGED dir

-----------------------------------------------------------------------------
(* launch and wait_for_devtools_endpoint.                                  *)

(* Mutant: a directory whose browser could not be spawned is kept.         *)
LaunchKeepsDir ==
    /\ pc = "idle"
    /\ dir' = "there"
    /\ \/ pc' = "starting" /\ leader' = "alive"
       \/ pc' = "failed" /\ UNCHANGED leader
    /\ UNCHANGED <<helper, portFile, deadline, recycled, stray>>

(* The directory is made and the process spawned, or an error is returned  *)
(* and the directory, if there is one, removed.                            *)
Launch ==
    /\ pc = "idle"
    /\ \/ pc' = "starting" /\ leader' = "alive" /\ dir' = "there"
       \/ pc' = "failed" /\ UNCHANGED <<leader, dir>>
    /\ UNCHANGED <<helper, portFile, deadline, recycled, stray>>

(* try_wait reaps a leader that is gone already.                           *)
CheckExit ==
    /\ pc = "starting"
    /\ \/ leader = "zombie" /\ leader' = "reaped" /\ pc' = "stopping"
       \/ leader # "zombie" /\ pc' = "reading" /\ UNCHANGED leader
    /\ UNCHANGED <<helper, portFile, deadline, dir, recycled, stray>>

(* The deadline counts only when the file is not there.                    *)
ReadPortFile ==
    /\ pc = "reading"
    /\ IF portFile = "whole" THEN pc' = "ready"
       ELSE \/ deadline /\ pc' = "stopping"
            \/ ~deadline /\ pc' = "starting"
    /\ UNCHANGED <<group, portFile, deadline, dir, recycled, stray>>

(* The session is over, or the CDP connection could not be made.           *)
Stop ==
    /\ pc = "ready"
    /\ pc' = "stopping"
    /\ UNCHANGED <<group, portFile, deadline, dir, recycled, stray>>

-----------------------------------------------------------------------------
(* Chromium::shutdown.                                                     *)

(* Mutant: the directory goes before the processes.                        *)
TerminateDirFirst ==
    /\ pc = "stopping"
    /\ leader \in Present
    /\ KillGroup("termed")
    /\ dir' = "removed"
    /\ pc' = "grace"
    /\ UNCHANGED <<portFile, deadline, recycled>>

(* Mutant: the group is signalled whatever try_wait says.                  *)
TerminateUnchecked ==
    /\ pc = "stopping"
    /\ KillGroup("termed")
    /\ pc' = "grace"
    /\ UNCHANGED <<portFile, deadline, dir, recycled>>

(* try_wait says that the leader runs: SIGTERM to the group.               *)
Terminate ==
    /\ pc = "stopping"
    /\ \/ /\ leader \in {"zombie", "reaped"}
          /\ leader' = "reaped"
          /\ pc' = "sweep"
          /\ UNCHANGED <<helper, stray>>
       \/ /\ leader \in Present
          /\ KillGroup("termed")
          /\ pc' = "grace"
    /\ UNCHANGED <<portFile, deadline, dir, recycled>>

(* child.wait() returns, within the grace period or after SIGKILL.         *)
Reap ==
    /\ pc \in {"grace", "reap"}
    /\ leader = "zombie"
    /\ leader' = "reaped"
    /\ pc' = "sweep"
    /\ UNCHANGED <<helper, portFile, deadline, dir, recycled, stray>>

(* Mutant: SIGTERM is sent once more instead of SIGKILL.                   *)
GraceExpiresAgain ==
    /\ pc = "grace"
    /\ KillGroup("termed")
    /\ pc' = "reap"
    /\ UNCHANGED <<portFile, deadline, dir, recycled>>

GraceExpires ==
    /\ pc = "grace"
    /\ KillGroup("killed")
    /\ pc' = "reap"
    /\ UNCHANGED <<portFile, deadline, dir, recycled>>

(* Mutant: the group is not swept once the leader is reaped.               *)
SweepNobody ==
    /\ pc = "sweep"
    /\ pc' = "clean"
    /\ UNCHANGED <<group, portFile, deadline, dir, recycled, stray>>

Sweep ==
    /\ pc = "sweep"
    /\ KillGroup("killed")
    /\ pc' = "clean"
    /\ UNCHANGED <<portFile, deadline, dir, recycled>>

CloseDir ==
    /\ pc = "clean"
    /\ RemoveDir
    /\ pc' = "closed"
    /\ UNCHANGED <<group, portFile, deadline, recycled, stray>>

(* The owner is dropped where it awaits: kill_on_drop kills the leader,    *)
(* and TempDir removes the directory at once.                              *)
Drop ==
    /\ pc \in {"starting", "reading", "ready", "grace", "reap"}
    /\ leader' = Signalled(leader, "killed")
    /\ RemoveDir
    /\ pc' = "dropped"
    /\ UNCHANGED <<helper, portFile, deadline, recycled, stray>>

(* tokio reaps the children of dropped handles in the background.          *)
ReapOrphan ==
    /\ pc = "dropped"
    /\ leader = "zombie"
    /\ leader' = "reaped"
    /\ UNCHANGED <<pc, helper, portFile, deadline, dir, recycled, stray>>

Ended == pc \in {"closed", "failed", "dropped"} /\ UNCHANGED vars

Owner == \/ Launch \/ CheckExit \/ ReadPortFile \/ Terminate \/ Reap
         \/ Sweep \/ CloseDir \/ ReapOrphan

Next ==
    \/ Owner \/ Stop \/ GraceExpires \/ Drop \/ Ended
    \/ LeaderDies \/ WritePortFile \/ RecycleId \/ DeadlinePasses
    \/ \E h \in Helpers : Fork(h) \/ HelperDies(h)

Spec == Init /\ [][Next]_vars

(* The runtime polls the owner, timers fire and SIGKILL is delivered.      *)
(* Nothing obliges Chromium to publish its port, to exit or to obey        *)
(* SIGTERM, nor anybody to stop or drop it.                                *)
FairSpec ==
    /\ Spec
    /\ WF_vars(Owner) /\ WF_vars(GraceExpires) /\ WF_vars(DeadlinePasses)
    /\ WF_vars(leader = "killed" /\ LeaderDies)
    /\ \A h \in Helpers : WF_vars(helper[h] = "killed" /\ HelperDies(h))

-----------------------------------------------------------------------------
(* Every variable keeps its type, and there is a process exactly when the  *)
(* launch got as far.                                                      *)
TypeOK ==
    /\ pc \in PC
    /\ leader \in Leader
    /\ helper \in [Helpers -> Helper]
    /\ portFile \in {"absent", "empty", "whole"}
    /\ deadline \in BOOLEAN
    /\ dir \in {"none", "there", "removed"}
    /\ recycled \in BOOLEAN /\ stray \in BOOLEAN
    /\ leader = "none" <=> pc \in {"idle", "failed"}
    /\ dir = "none" <=> pc \in {"idle", "failed"}

(* chromium.rs:617-622, 563-564, README.md:59: once shutdown has returned, *)
(* after a session or a failed launch, the leader is reaped and every      *)
(* helper is dead or has SIGKILL pending, those included that were forked  *)
(* while the group was being terminated.                                   *)
GroupTornDown ==
    pc = "closed" =>
       /\ leader = "reaped"
       /\ \A h \in Helpers : helper[h] \in {"none", "killed", "dead"}

(* The leader is gone before shutdown removes the profile it writes to.    *)
ProfileOutlivesLeader ==
    pc # "dropped" /\ leader \in Running => dir = "there"

(* chromium.rs:578-580, README.md:59: a launch ends with an endpoint or a  *)
(* teardown, a teardown ends even if Chromium ignores SIGTERM, and nobody  *)
(* in the group runs on after it: this is the browser that Gateway.tla     *)
(* relies on.                                                              *)
BrowserState ==
    CASE pc \in {"idle", "failed"} -> "none"
      [] pc \in {"starting", "reading"} -> "starting"
      [] pc = "ready" -> "up"
      [] pc \in {"stopping", "grace", "reap", "sweep", "clean"} -> "stopping"
      [] pc = "closed" -> IF leader \in Running \/ \E h \in Helpers : helper[h] \in Running
                          THEN "escaped" ELSE "none"
      [] pc = "dropped" -> "orphaned"
Lifecycle == INSTANCE BrowserLifecycle WITH state <- BrowserState
ImplementsBrowser == Lifecycle!FairSpec

(* chromium.rs:629-643: the SIGTERM of the teardown, and its SIGKILL when  *)
(* the grace period is over, reach nobody else: the leader they are for is *)
(* not reaped yet, however it dies meanwhile, and so its id is taken.  The *)
(* sweep is another matter, see SignalsOwnGroup.                           *)
TeardownStaysInGroup == stray => pc \in {"clean", "closed"}

(* chromium.rs:621-622: "Signals only target this session's process group, *)
(* never other sessions."                                                  *)
SignalsOwnGroup == ~stray
=============================================================================
