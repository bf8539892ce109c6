------------------------------ MODULE Gateway ------------------------------
(***************************************************************************)
(* The whole gateway around the concurrency gate: what happens to a        *)
(* WebSocket request from its arrival to the end of its browser session    *)
(* (server.rs, session.rs), the preparation of the browser binary, and the *)
(* shutdown sequence of main.rs with its three timers.  The gate itself is *)
(* SlotQueue, which Gate.tla implements.                                   *)
(*                                                                         *)
(* Each stage of a request is one await point (or one point where another  *)
(* task can see the effects so far); an action is what happens between     *)
(* two of them.  A request that hyper drops because its client is gone     *)
(* loses its future at such a point.                                       *)
(***************************************************************************)
EXTENDS SlotQueue

CONSTANT Faults         \* which rare faults may happen, see Fault below

Fault == {"panic",      \* a session task panics in the relay loop
          "signal"}     \* the SIGTERM handler cannot be installed

ASSUME GatewayAssumption == /\ IsFiniteSet(Requests)
                            /\ MaxSessions \in Nat \ {0}
                            /\ MaxQueue \in Nat
                            /\ Faults \subseteq Fault

VARIABLES stage,        \* where each request is
          browser,      \* the Chromium process group of each request
          phase,        \* where main is
          shutdown,     \* AppState.shutdown is cancelled
          grace,        \* the task that cancels session_cancel
          prep,         \* the prepare_browser task, "blocking" in a pool thread
          startupFailed,\* AppState.startup_failed
          exit          \* the exit status of the process

sessionVars == <<slotVars, stage, browser>>
mainVars == <<phase, shutdown, grace, prep, startupFailed, exit>>
vars == <<sessionVars, mainVars>>

(* "arrived" .. "responding" run inside the HTTP connection that axum      *)
(* waits for.  In "upgraded" the connection is over and the detached task  *)
(* of on_upgrade has not called its callback yet; only "active" and        *)
(* "closing" are futures of the TaskTracker.                               *)
InConnection == {"arrived", "checked", "queued", "granted", "starting",
                 "connecting", "aborting", "responding"}
Tracked == {"active", "closing"}
Stage == InConnection \cup Tracked
         \cup {"idle", "upgraded", "unwinding", "done"}

(* A browser is "orphaned" when its Child was dropped: the leader gets     *)
(* SIGKILL (kill_on_drop) and the rest of its group gets nothing.          *)
Browser == {"none", "running", "orphaned"}

(* main has not returned yet.                                              *)
MainRuns == phase \in {"serving", "draining", "waiting", "drained", "returning"}

Init ==
    /\ SlotInit
    /\ stage = [r \in Requests |-> "idle"]
    /\ browser = [r \in Requests |-> "none"]
    /\ phase = "serving"
    /\ shutdown = FALSE
    /\ grace = "off"
    /\ prep = "running"
    /\ startupFailed = FALSE
    /\ exit = "none"

Goto(r, label) == stage' = [stage EXCEPT ![r] = label]

-----------------------------------------------------------------------------
(* The request handler, server.rs.                                         *)

(* axum accepts connections until the shutdown signal future returns.      *)
Arrive(r) ==
    /\ phase = "serving"
    /\ stage[r] = "idle"
    /\ Goto(r, "arrived")
    /\ UNCHANGED <<slotVars, browser, mainVars>>

(* Token, shutdown, browser and launch options: every refusal (401, 503,   *)
(* 503, 400) is possible at any time, passing is not.                      *)
CheckRequest(r) ==
    /\ stage[r] = "arrived"
    /\ \/ ~shutdown /\ prep = "ready" /\ Goto(r, "checked")
       \/ Goto(r, "done")
    /\ UNCHANGED <<slotVars, browser, mainVars>>

(* Gate::acquire up to its select.  QueueFull depends on a counter that    *)
(* Gate.tla models; here it is possible whatever the queue holds.          *)
Acquire(r) ==
    /\ stage[r] = "checked"
    /\ \/ Enter(r) /\ Goto(r, "granted")
       \/ Join(r) /\ Goto(r, "queued")
       \/ UNCHANGED slotVars /\ Goto(r, "done")
    /\ UNCHANGED <<browser, mainVars>>

TakePermit(r) ==
    /\ stage[r] = "queued"
    /\ r \in active
    /\ Goto(r, "granted")
    /\ UNCHANGED <<slotVars, browser, mainVars>>

(* Mutant: the permit of a request that gives up is forgotten.             *)
LeaveQueueLosesPermit(r) ==
    /\ stage[r] = "queued"
    /\ Leave(r) \/ (r \in active /\ UNCHANGED slotVars)
    /\ Goto(r, "done")
    /\ UNCHANGED <<browser, mainVars>>

(* Mutant: the select has no queue timeout.                                *)
LeaveQueueOnShutdown(r) ==
    /\ stage[r] = "queued"
    /\ shutdown
    /\ Leave(r) \/ Finish(r)
    /\ Goto(r, "done")
    /\ UNCHANGED <<browser, mainVars>>

(* Queue timeout, shutdown or disconnect, even if the permit is there.     *)
LeaveQueue(r) ==
    /\ stage[r] = "queued"
    /\ Leave(r) \/ Finish(r)
    /\ Goto(r, "done")
    /\ UNCHANGED <<browser, mainVars>>

(* The profile directory is created and the process spawned, or one of     *)
(* the two fails and the permit is dropped with the handler.               *)
Launch(r) ==
    /\ stage[r] = "granted"
    /\ \/ /\ browser' = [browser EXCEPT ![r] = "running"]
          /\ Goto(r, "starting")
          /\ UNCHANGED slotVars
       \/ Finish(r) /\ Goto(r, "done") /\ UNCHANGED browser
    /\ UNCHANGED mainVars

(* wait_for_devtools_endpoint: the port file, the startup timeout, or the  *)
(* death of the process.                                                   *)
AwaitEndpoint(r) ==
    /\ stage[r] = "starting"
    /\ Goto(r, "connecting") \/ Goto(r, "aborting")
    /\ UNCHANGED <<slotVars, browser, mainVars>>

(* connect_async to the CDP endpoint; it has no timeout of its own.        *)
Connect(r) ==
    /\ stage[r] = "connecting"
    /\ Goto(r, "responding") \/ Goto(r, "aborting")
    /\ UNCHANGED <<slotVars, browser, mainVars>>

(* Chromium::shutdown has terminated and reaped the group, removed the     *)
(* profile, and the permit is dropped after it.                            *)
TornDown(r) ==
    /\ browser' = [browser EXCEPT ![r] = "none"]
    /\ Finish(r)
    /\ Goto(r, "done")
    /\ UNCHANGED mainVars

Abort(r) == stage[r] = "aborting" /\ TornDown(r)

(* The client leaves while the handler runs, or before the 101 response is *)
(* out: the future and everything it owns are dropped, without teardown.   *)
Disconnect(r) ==
    /\ stage[r] \in {"starting", "connecting", "aborting", "responding"}
    /\ browser' = [browser EXCEPT ![r] = "orphaned"]
    /\ Finish(r)
    /\ Goto(r, "done")
    /\ UNCHANGED mainVars

(* The 101 response is written: the connection no longer counts for axum.  *)
Upgrade(r) ==
    /\ stage[r] = "responding"
    /\ Goto(r, "upgraded")
    /\ UNCHANGED <<slotVars, browser, mainVars>>

-----------------------------------------------------------------------------
(* The session task, session.rs.                                           *)

StartSession(r) ==
    /\ stage[r] = "upgraded"
    /\ Goto(r, "active")
    /\ UNCHANGED <<slotVars, browser, mainVars>>

(* proxy::run returns: a side closed or failed, CONNECTION_TIMEOUT_MS, or  *)
(* session_cancel; which one makes no difference to what follows.          *)
EndRelay(r) ==
    /\ stage[r] = "active"
    /\ Goto(r, "closing")
    /\ UNCHANGED <<slotVars, browser, mainVars>>

(* Mutant: the permit is dropped before the teardown is awaited.           *)
CloseSessionLate(r) ==
    \/ /\ stage[r] = "closing" /\ r \in active
       /\ Finish(r)
       /\ UNCHANGED <<stage, browser, mainVars>>
    \/ /\ stage[r] = "closing" /\ r \notin active
       /\ browser' = [browser EXCEPT ![r] = "none"]
       /\ Goto(r, "done")
       /\ UNCHANGED <<slotVars, mainVars>>

(* Mutant: the teardown is not awaited at all.                             *)
CloseSessionUnawaited(r) ==
    /\ stage[r] = "closing"
    /\ Finish(r)
    /\ Goto(r, "done")
    /\ UNCHANGED <<browser, mainVars>>

CloseSession(r) == stage[r] = "closing" /\ TornDown(r)

(* The task unwinds: its permit goes at once, and ChromiumGuard spawns the *)
(* teardown in a task that nobody tracks.                                  *)
Panic(r) ==
    /\ "panic" \in Faults
    /\ stage[r] = "active"
    /\ Finish(r)
    /\ Goto(r, "unwinding")
    /\ UNCHANGED <<browser, mainVars>>

GuardCleanup(r) ==
    /\ stage[r] = "unwinding"
    /\ browser' = [browser EXCEPT ![r] = "none"]
    /\ Goto(r, "done")
    /\ UNCHANGED <<slotVars, mainVars>>

-----------------------------------------------------------------------------
(* main.rs: preparation of the browser.  The task runs on while main is on *)
(* its way out, until the runtime is dropped.                              *)

(* The archive is unpacked and the binary is hashed on the blocking pool,  *)
(* while the task waits for the result.                                    *)
BeginBlocking ==
    /\ MainRuns
    /\ prep = "running"
    /\ prep' = "blocking"
    /\ UNCHANGED <<sessionVars, phase, shutdown, grace, startupFailed, exit>>

(* A thread of the pool cannot be cancelled: it runs on when main returns. *)
EndBlocking ==
    /\ phase # "exited"
    /\ prep = "blocking"
    /\ prep' = "running"
    /\ UNCHANGED <<sessionVars, phase, shutdown, grace, startupFailed, exit>>

Prepared ==
    /\ MainRuns
    /\ prep = "running"
    /\ prep' = "ready"
    /\ UNCHANGED <<sessionVars, phase, shutdown, grace, startupFailed, exit>>

(* Mutant: shutdown is cancelled before startup_failed is stored.          *)
PreparationFailsLate ==
    /\ MainRuns
    /\ prep = "running"
    /\ prep' = "failing"
    /\ shutdown' = TRUE
    /\ UNCHANGED <<sessionVars, phase, grace, startupFailed, exit>>

(* The installation failed, or there is no binary; nobody knows yet.       *)
PreparationFails ==
    /\ MainRuns
    /\ prep = "running"
    /\ prep' = "failing"
    /\ UNCHANGED <<sessionVars, phase, shutdown, grace, startupFailed, exit>>

StoreFailure ==
    /\ MainRuns
    /\ prep = "failing"
    /\ prep' = "stored"
    /\ startupFailed' = TRUE
    /\ UNCHANGED <<sessionVars, phase, shutdown, grace, exit>>

CancelAfterFailure ==
    /\ MainRuns
    /\ prep = "stored"
    /\ prep' = "failed"
    /\ shutdown' = TRUE
    /\ UNCHANGED <<sessionVars, phase, grace, startupFailed, exit>>

-----------------------------------------------------------------------------
(* main.rs: shutdown.                                                      *)

(* Mutant: the received signal is not turned into a cancellation.          *)
BeginShutdownSilently ==
    /\ phase = "serving"
    /\ phase' = "draining"
    /\ grace' = "running"
    /\ UNCHANGED <<sessionVars, shutdown, prep, startupFailed, exit>>

(* A signal, or the internal request that prepare_browser made; the grace  *)
(* timer starts and axum stops accepting.                                  *)
BeginShutdown ==
    /\ phase = "serving"
    /\ phase' = "draining"
    /\ shutdown' = TRUE
    /\ grace' = "running"
    /\ UNCHANGED <<sessionVars, prep, startupFailed, exit>>

(* The signal future returns early: axum drains, nothing is cancelled.     *)
SignalHandlerFails ==
    /\ "signal" \in Faults
    /\ phase = "serving"
    /\ phase' = "draining"
    /\ UNCHANGED <<sessionVars, shutdown, grace, prep, startupFailed, exit>>

(* session_cancel: EndRelay no longer waits for anybody.                   *)
GraceExpires ==
    /\ MainRuns
    /\ grace = "running"
    /\ grace' = "over"
    /\ UNCHANGED <<sessionVars, phase, shutdown, prep, startupFailed, exit>>

(* Mutant: main does not wait for the connections to drain.                *)
StopServingEarly ==
    /\ phase = "draining"
    /\ phase' = "waiting"
    /\ UNCHANGED <<sessionVars, shutdown, grace, prep, startupFailed, exit>>

(* axum::serve returns: every connection is closed or upgraded.            *)
StopServing ==
    /\ phase = "draining"
    /\ \A r \in Requests : stage[r] \notin InConnection
    /\ phase' = "waiting"
    /\ UNCHANGED <<sessionVars, shutdown, grace, prep, startupFailed, exit>>

(* Mutant: main does not wait for the tracked sessions.                    *)
SessionsDrainedUnchecked ==
    /\ phase = "waiting"
    /\ phase' = "drained"
    /\ UNCHANGED <<sessionVars, shutdown, grace, prep, startupFailed, exit>>

(* sessions.wait() is over once the tracker is empty; a request that is    *)
(* still "upgraded" may enter it afterwards.                               *)
SessionsDrained ==
    /\ phase = "waiting"
    /\ \A r \in Requests : stage[r] \notin Tracked
    /\ phase' = "drained"
    /\ UNCHANGED <<sessionVars, shutdown, grace, prep, startupFailed, exit>>

(* Mutant: the wait for the sessions has no time limit.                    *)
DrainNeverExpires == FALSE

(* The drain budget is the grace period and ten seconds more and starts    *)
(* after the grace timer, so it never runs out first.                      *)
DrainExpires ==
    /\ phase = "waiting"
    /\ grace # "running"
    /\ \E r \in Requests : stage[r] \in Tracked
    /\ phase' = "returning"
    /\ exit' = "failure"
    /\ UNCHANGED <<sessionVars, shutdown, grace, prep, startupFailed>>

(* main loads startup_failed; what the other workers do between this load  *)
(* and the return no longer changes the status.                            *)
DecideStatus ==
    /\ phase = "drained"
    /\ phase' = "returning"
    /\ exit' = IF startupFailed THEN "failure" ELSE "success"
    /\ UNCHANGED <<sessionVars, shutdown, grace, prep, startupFailed>>

(* main returns and the runtime drops the tasks that are left.             *)
Return ==
    /\ phase = "returning"
    /\ phase' = "returned"
    /\ stage' = [r \in Requests |-> "done"]
    /\ browser' = [r \in Requests |->
                     IF browser[r] = "running" THEN "orphaned" ELSE browser[r]]
    /\ UNCHANGED <<slotVars, shutdown, grace, prep, startupFailed, exit>>

(* The process ends when the blocking pool has nothing left to finish.     *)
RuntimeDropped ==
    /\ phase = "returned"
    /\ prep # "blocking"
    /\ phase' = "exited"
    /\ UNCHANGED <<sessionVars, shutdown, grace, prep, startupFailed, exit>>

Exited == phase = "exited" /\ UNCHANGED vars

-----------------------------------------------------------------------------
(* Steps the runtime, the kernel and the timeouts of the code bring about. *)
(* Queueing ends by QUEUE_TIMEOUT_MS, starting by CHROME_STARTUP_TIMEOUT,  *)
(* teardown by SIGKILL.  Connect, EndRelay and Disconnect are not among    *)
(* them.                                                                   *)
RequestStep(r) ==
    \/ CheckRequest(r) \/ Acquire(r) \/ TakePermit(r) \/ LeaveQueue(r)
    \/ Launch(r) \/ AwaitEndpoint(r) \/ Abort(r) \/ Upgrade(r)
    \/ StartSession(r) \/ CloseSession(r) \/ GuardCleanup(r)

MainStep ==
    \/ StoreFailure \/ CancelAfterFailure \/ GraceExpires
    \/ StopServing \/ SessionsDrained \/ DrainExpires
    \/ DecideStatus \/ Return \/ RuntimeDropped

Next ==
    \/ \E r \in Requests :
          \/ Arrive(r) \/ RequestStep(r) \/ Connect(r) \/ Disconnect(r)
          \/ EndRelay(r) \/ Panic(r)
    \/ MainStep
    \/ BeginBlocking \/ EndBlocking \/ Prepared \/ PreparationFails
    \/ BeginShutdown \/ SignalHandlerFails
    \/ Exited

Spec == Init /\ [][Next]_vars

FairSpec ==
    /\ Spec
    /\ \A r \in Requests : WF_vars(RequestStep(r))
    /\ WF_vars(StoreFailure) /\ WF_vars(CancelAfterFailure)
    /\ WF_vars(shutdown /\ BeginShutdown)
    /\ WF_vars(GraceExpires)
    /\ WF_vars(StopServing)
    /\ WF_vars(SessionsDrained \/ DrainExpires)
    /\ WF_vars(DecideStatus) /\ WF_vars(Return)
    /\ WF_vars(EndBlocking) /\ WF_vars(RuntimeDropped)

(* The assumption of the two liveness properties below: the browser of r   *)
(* answers, or refuses, the CDP handshake.  The code does not ensure it,   *)
(* since the connect has no timeout (server.rs:182).                       *)
ConnectAnswered(r) == WF_vars(Connect(r))

-----------------------------------------------------------------------------
Running == {r \in Requests : browser[r] = "running"}

(* Every variable keeps its type, and those of main fit together: session  *)
(* cancellation follows the shutdown token, a status means the end.        *)
TypeOK ==
    /\ active \subseteq Requests
    /\ queue \in Seq(Requests)
    /\ stage \in [Requests -> Stage]
    /\ browser \in [Requests -> Browser]
    /\ phase \in {"serving", "draining", "waiting", "drained", "returning",
                  "returned", "exited"}
    /\ shutdown \in BOOLEAN
    /\ grace \in {"off", "running", "over"}
    /\ prep \in {"running", "blocking", "ready", "failing", "stored", "failed"}
    /\ startupFailed \in BOOLEAN
    /\ exit \in {"none", "success", "failure"}
    /\ grace # "off" => shutdown
    /\ exit = "none" <=> phase \in {"serving", "draining", "waiting", "drained"}

(* A slot is owned exactly by the requests that run or are about to run a  *)
(* session, from the hand-over by the semaphore to the end of the          *)
(* teardown, on every path out (session.rs:87-89, server.rs:154-158).      *)
SlotsMatchStages ==
    MainRuns =>
       /\ Range(queue) = {r \in Requests : stage[r] = "queued"} \ active
       /\ \A r \in Requests : stage[r] # "queued" =>
             (r \in active <=>
                stage[r] \in {"granted", "starting", "connecting", "aborting",
                              "responding", "upgraded", "active", "closing"})

(* README.md:44, session.rs:87-89: the slot is given back after the        *)
(* browser is gone, so at most MAX_CONCURRENT_SESSIONS browsers run beside *)
(* those whose session task panicked.                                      *)
BrowsersBounded ==
    Cardinality({r \in Running : stage[r] # "unwinding"}) <= MaxSessions

(* .env.example:11: "Maximum number of Chromium sessions running at the    *)
(* same time", whatever becomes of their tasks.                            *)
SessionLimitHolds == Cardinality(Running) <= MaxSessions

(* session.rs:12-18, README.md:44: the browser of each request lives the   *)
(* life that Chromium.tla shows a browser to live.  A task past its        *)
(* teardown has none, none is torn down under a live session, whoever owns *)
(* one that stops does terminate it, and only a drop of the owner, by a    *)
(* disconnect or the exit of main, orphans it.                             *)
LifecycleOf(r) ==
    CASE browser[r] # "running" -> browser[r]
      [] browser[r] = "running" /\ stage[r] = "starting" -> "starting"
      [] browser[r] = "running"
            /\ stage[r] \in {"connecting", "responding", "upgraded", "active"} -> "up"
      [] browser[r] = "running"
            /\ stage[r] \in {"aborting", "closing", "unwinding"} -> "stopping"
      [] OTHER -> "forgotten"
Lifecycle(r) == INSTANCE BrowserLifecycle WITH state <- LifecycleOf(r)
BrowsersStart == \A r \in Requests : Lifecycle(r)!Init
BrowsersStep == \A r \in Requests : [Lifecycle(r)!Next]_(LifecycleOf(r))
ImplementsBrowsers ==
    /\ BrowsersStart /\ [][BrowsersStep]_vars
    /\ \A r \in Requests : Lifecycle(r)!Fairness

(* main.rs:64-71, 120-123, 143-156: a gateway that its own failed          *)
(* preparation stopped never reports success, nor does one whose           *)
(* preparation recorded the failure before main looked, whichever of the   *)
(* signal, the failure and the drain comes first.  While main serves, only *)
(* prepare_browser cancels shutdown, so its cancellation seen then is the  *)
(* one that stops the gateway.                                             *)
FailureReported ==
    []( (phase = "serving" /\ shutdown) \/ (startupFailed /\ exit = "none")
        => [](exit # "success") )

(* README.md:42: main never returns under a request that has not been      *)
(* answered yet, however long its queueing, launch or teardown takes.      *)
NoRequestCutOff ==
    [][MainRuns /\ ~MainRuns'
       => \A r \in Requests : stage[r] \notin InConnection]_vars

(* main.rs:106-118: a session that was tracked at any time before the      *)
(* drain was over is never dropped by a main that reports success; if main *)
(* is about to drop it, the drain has expired, and not before the session  *)
(* was cancelled (or never could be).  A session that enters the tracker   *)
(* after the drain is another matter, see CleanExit.                       *)
BeforeDrained == phase \in {"serving", "draining", "waiting"}
TrackedSessionsDrained ==
    \A r \in Requests :
        []( BeforeDrained /\ stage[r] \in Tracked
            => []( phase = "returning" /\ stage[r] \in Tracked
                   => exit = "failure" /\ grace # "running" ) )

(* main.rs:64-71, 110-118: a process that is asked to stop ends if the     *)
(* browsers being connected to answer, whatever the sessions do and        *)
(* whatever the preparation of the browser is doing: the archive it is     *)
(* unpacking, or the binary it hashes, delays the end but main never waits *)
(* for the download or for the task itself.                                *)
ShutdownExits ==
    (\A r \in Requests : ConnectAnswered(r))
    => (shutdown ~> phase = "exited")

(* README.md:42: a request is eventually answered, by a session or not, if *)
(* its own browser answers; those of the others may stay silent for ever.  *)
RequestsAnswered ==
    \A r \in Requests :
        ConnectAnswered(r)
        => (stage[r] = "arrived" ~> stage[r] \in {"active", "done"})

(* main.rs:106-108: "Drain them so every Chromium process and temp dir is  *)
(* cleaned up before exiting": no browser runs when main returns success.  *)
CleanExit ==
    [][MainRuns /\ ~MainRuns' /\ exit = "success" => Running = {}]_vars
=============================================================================
