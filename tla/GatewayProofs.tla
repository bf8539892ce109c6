--------------------------- MODULE GatewayProofs ---------------------------
(***************************************************************************)
(* Proofs about Gateway, for every set of requests, every number of slots  *)
(* and places, and any of the rare faults.  The inductive invariant is     *)
(* GatewayInv: two invariants the run checks, the promise of the gate      *)
(* (SlotInv) and four facts about what main and a request know of each     *)
(* other.  The third one, BrowsersBounded, follows from it.                *)
(***************************************************************************)
EXTENDS Gateway, SlotQueueProofs

(* Where a request owns a slot (session.rs:87-89, server.rs:154-158).      *)
Owning == {"granted", "starting", "connecting", "aborting", "responding",
           "upgraded", "active", "closing"}

(* Where its browser runs, and where it has none yet.                      *)
WithBrowser == {"starting", "connecting", "aborting", "responding",
                "upgraded", "active", "closing", "unwinding"}
BeforeBrowser == {"idle", "arrived", "checked", "queued", "granted"}

(* A browser runs exactly while a handler, a session task or its guard     *)
(* holds it (server.rs:160-185, session.rs:12-18).                         *)
BrowserMatchesStage ==
    \A r \in Requests :
       /\ browser[r] = "running" <=> stage[r] \in WithBrowser
       /\ stage[r] \in BeforeBrowser => browser[r] = "none"

(* The runtime is dropped with main: no task is left (main.rs:106-123).    *)
TasksEndWithMain == ~MainRuns => \A r \in Requests : stage[r] = "done"

(* axum::serve returned, and nobody can connect again (main.rs:95-104).    *)
ConnectionsDrained ==
    phase \in {"waiting", "drained", "returning"}
    => \A r \in Requests : stage[r] \notin InConnection

(* The flag is stored before the shutdown is requested, and nobody else    *)
(* requests one while main serves (main.rs:83-86, 143-156).                *)
FailureStored ==
    prep \in {"stored", "failed"} \/ (phase = "serving" /\ shutdown)
    => startupFailed

GatewayInv == /\ TypeOK
              /\ SlotInv
              /\ SlotsMatchStages
              /\ BrowserMatchesStage
              /\ TasksEndWithMain
              /\ ConnectionsDrained
              /\ FailureStored

-----------------------------------------------------------------------------
LEMMA ConstantsOK == SlotConstants
BY GatewayAssumption DEF SlotConstants

(* The bound on browsers follows from the bound on owners: every browser   *)
(* whose task did not panic has a slot.                                    *)
LEMMA BrowsersHaveSlots == GatewayInv => BrowsersBounded
<1> SUFFICES ASSUME GatewayInv PROVE BrowsersBounded
  OBVIOUS
<1> USE DEF GatewayInv
<1> DEFINE tended == {r \in Running : stage[r] # "unwinding"}
<1>1. tended \subseteq active
  BY DEF Running, SlotsMatchStages, BrowserMatchesStage, TasksEndWithMain,
         WithBrowser
<1>2. Cardinality(tended) <= Cardinality(active) /\ Cardinality(tended) \in Nat
  <2>1. IsFiniteSet(active)
    BY ConstantsOK, ActiveIsFinite
  <2> QED
    BY <1>1, <2>1, FS_Subset, FS_CardinalityType
<1>3. Cardinality(active) <= MaxSessions /\ Cardinality(active) \in Nat
  BY ConstantsOK, ActiveIsFinite DEF SlotInv
<1> HIDE DEF tended
<1>4. Cardinality(tended) <= MaxSessions
  BY <1>2, <1>3, GatewayAssumption
<1> QED
  BY <1>4 DEF BrowsersBounded, tended

(* A request moves on without touching the gate, or picks up the permit    *)
(* that the semaphore has assigned to it.                                  *)
LEMMA MoveKeepsSlots ==
    ASSUME GatewayInv, NEW r \in Requests, NEW t \in Stage \ {"queued"},
           Goto(r, t), UNCHANGED <<slotVars, phase>>, stage[r] # "done",
           stage[r] # "queued" \/ r \in active,
           r \in active <=> t \in Owning
    PROVE  SlotInv' /\ SlotsMatchStages'
<1>1. SlotInv'
  BY DEF GatewayInv, SlotInv, slotVars
<1>2. SlotsMatchStages'
  BY DEF GatewayInv, TypeOK, SlotsMatchStages, slotVars, Goto, MainRuns, Owning
<1> QED
  BY <1>1, <1>2

(* A request gives its slot back on the way out.                           *)
LEMMA FinishKeepsSlots ==
    ASSUME GatewayInv, NEW r \in Requests, NEW t \in Stage,
           t \notin Owning \cup {"queued"},
           Goto(r, t), Finish(r), UNCHANGED phase, stage[r] # "done"
    PROVE  SlotInv' /\ SlotsMatchStages'
<1>1. SlotInv'
  BY ConstantsOK, FinishEffect DEF GatewayInv
<1>2. PICK given \in SUBSET Range(queue) :
         /\ active' = (active \ {r}) \cup given
         /\ Range(queue') = Range(queue) \ given
  BY ConstantsOK, FinishEffect DEF GatewayInv
<1>3. r \in active /\ active \cap Range(queue) = {}
  BY DEF Finish, GatewayInv, SlotInv
<1>4. MainRuns
  BY DEF GatewayInv, TasksEndWithMain
<1>5. Range(queue) = {x \in Requests : stage[x] = "queued"} \ active
  BY <1>4 DEF GatewayInv, SlotsMatchStages
<1>6. Range(queue') = {x \in Requests : stage'[x] = "queued"} \ active'
  BY <1>2, <1>3, <1>5 DEF GatewayInv, TypeOK, Goto
<1>7. \A x \in Requests : stage'[x] # "queued" =>
         (x \in active' <=> stage'[x] \in Owning)
  BY <1>2, <1>3, <1>4, <1>5
     DEF GatewayInv, TypeOK, SlotsMatchStages, Goto, Owning
<1> QED
  BY <1>1, <1>6, <1>7 DEF SlotsMatchStages, Owning

(* What else a step of one request must respect.                           *)
LEMMA RequestMoves ==
    ASSUME GatewayInv, NEW r \in Requests, NEW t \in Stage, Goto(r, t),
           UNCHANGED mainVars, stage[r] # "done",
           SlotInv' /\ SlotsMatchStages',
           t \in InConnection => stage[r] \in InConnection \/ phase = "serving",
           browser' \in [Requests -> Browser],
           \A x \in Requests \ {r} : browser'[x] = browser[x],
           browser'[r] = "running" <=> t \in WithBrowser,
           t \in BeforeBrowser => browser'[r] = "none"
    PROVE  GatewayInv'
<1>1. MainRuns /\ MainRuns'
  BY DEF GatewayInv, TasksEndWithMain, MainRuns, mainVars
<1>2. TypeOK'
  BY <1>1 DEF GatewayInv, TypeOK, SlotInv, mainVars, Goto, MainRuns
<1>3. BrowserMatchesStage'
  BY DEF GatewayInv, TypeOK, BrowserMatchesStage, Goto
<1>4. TasksEndWithMain'
  BY <1>1 DEF TasksEndWithMain
<1>5. ConnectionsDrained'
  BY DEF GatewayInv, TypeOK, ConnectionsDrained, mainVars, Goto
<1>6. FailureStored'
  BY DEF GatewayInv, FailureStored, mainVars
<1> QED
  BY <1>2, <1>3, <1>4, <1>5, <1>6 DEF GatewayInv

(* A step that changes nothing of a request but its stage, and keeps slot  *)
(* and browser in line with it.                                            *)
LEMMA PlainMoves ==
    ASSUME GatewayInv, NEW r \in Requests, NEW t \in Stage \ {"queued"},
           Goto(r, t), UNCHANGED <<slotVars, browser, mainVars>>,
           stage[r] # "done",
           stage[r] # "queued" \/ r \in active,
           stage[r] # "queued" => (stage[r] \in Owning <=> t \in Owning),
           stage[r] = "queued" => t \in Owning,
           t \in InConnection => stage[r] \in InConnection \/ phase = "serving",
           stage[r] \in WithBrowser <=> t \in WithBrowser,
           t \in BeforeBrowser => stage[r] \in BeforeBrowser
    PROVE  GatewayInv'
<1>1. r \in active <=> t \in Owning
  BY DEF GatewayInv, SlotsMatchStages, TasksEndWithMain, Owning
<1>2. SlotInv' /\ SlotsMatchStages'
  BY <1>1, MoveKeepsSlots DEF mainVars
<1>3. /\ browser' \in [Requests -> Browser]
      /\ \A x \in Requests \ {r} : browser'[x] = browser[x]
      /\ browser'[r] = "running" <=> t \in WithBrowser
      /\ t \in BeforeBrowser => browser'[r] = "none"
  BY DEF GatewayInv, TypeOK, BrowserMatchesStage
<1> QED
  BY <1>2, <1>3, RequestMoves

(* Chromium::shutdown is over, then the permit goes (session.rs:70-89).    *)
LEMMA TornDownInv ==
    ASSUME GatewayInv, NEW r \in Requests, stage[r] \in {"aborting", "closing"},
           TornDown(r)
    PROVE  GatewayInv'
<1> USE DEF Stage, InConnection, Tracked, Owning, WithBrowser, BeforeBrowser
<1>1. SlotInv' /\ SlotsMatchStages'
  BY FinishKeepsSlots DEF TornDown, mainVars
<1> QED
  BY <1>1, RequestMoves DEF TornDown, GatewayInv, TypeOK, Browser

-----------------------------------------------------------------------------
(* The request handler keeps the invariant.                                *)
LEMMA HandlerInv ==
    ASSUME GatewayInv, NEW r \in Requests,
           \/ Arrive(r) \/ CheckRequest(r) \/ Acquire(r) \/ TakePermit(r)
           \/ LeaveQueue(r) \/ Launch(r) \/ AwaitEndpoint(r) \/ Connect(r)
           \/ Abort(r) \/ Disconnect(r) \/ Upgrade(r)
    PROVE  GatewayInv'
<1> USE DEF Stage, InConnection, Tracked, Owning, WithBrowser, BeforeBrowser
<1>1. CASE Arrive(r)
  BY <1>1, PlainMoves DEF Arrive
<1>2. CASE CheckRequest(r)
  BY <1>2, PlainMoves DEF CheckRequest
<1>3. CASE Acquire(r)
  <2>1. CASE Enter(r) /\ Goto(r, "granted")
    <3>1. SlotInv' /\ active' = active \cup {r} /\ queue' = queue
      BY <2>1, ConstantsOK, EnterEffect DEF GatewayInv
    <3>2. SlotsMatchStages'
      BY <1>3, <2>1, <3>1 DEF GatewayInv, TypeOK, SlotsMatchStages, Acquire,
                              Goto, mainVars, MainRuns
    <3> QED
      BY <1>3, <2>1, <3>1, <3>2, RequestMoves
         DEF Acquire, GatewayInv, TypeOK, BrowserMatchesStage
  <2>2. CASE Join(r) /\ Goto(r, "queued")
    <3>1. /\ SlotInv' /\ active' = active /\ r \notin active
          /\ Range(queue') = Range(queue) \cup {r}
      BY <2>2, ConstantsOK, JoinEffect DEF GatewayInv
    <3>2. SlotsMatchStages'
      BY <1>3, <2>2, <3>1 DEF GatewayInv, TypeOK, SlotsMatchStages, Acquire,
                              Goto, mainVars, MainRuns
    <3> QED
      BY <1>3, <2>2, <3>1, <3>2, RequestMoves
         DEF Acquire, GatewayInv, TypeOK, BrowserMatchesStage
  <2>3. CASE UNCHANGED slotVars /\ Goto(r, "done")
    BY <1>3, <2>3, PlainMoves DEF Acquire
  <2> QED
    BY <1>3, <2>1, <2>2, <2>3 DEF Acquire
<1>4. CASE TakePermit(r)
  BY <1>4, PlainMoves DEF TakePermit
<1>5. CASE LeaveQueue(r)
  <2>1. SlotInv' /\ SlotsMatchStages'
    <3>1. CASE Leave(r)
      <4>1. /\ SlotInv' /\ active' = active /\ r \in Range(queue)
            /\ Range(queue') = Range(queue) \ {r}
        BY <3>1, ConstantsOK, LeaveEffect DEF GatewayInv
      <4>2. r \notin active
        BY <4>1 DEF GatewayInv, SlotInv
      <4> QED
        BY <1>5, <4>1, <4>2 DEF GatewayInv, TypeOK, SlotsMatchStages,
                                LeaveQueue, Goto, mainVars, MainRuns
    <3>2. CASE Finish(r)
      BY <1>5, <3>2, FinishKeepsSlots DEF LeaveQueue, mainVars
    <3> QED
      BY <1>5, <3>1, <3>2 DEF LeaveQueue
  <2> QED
    BY <1>5, <2>1, RequestMoves
       DEF LeaveQueue, GatewayInv, TypeOK, BrowserMatchesStage
<1>6. CASE Launch(r)
  <2>1. CASE /\ browser' = [browser EXCEPT ![r] = "running"]
             /\ Goto(r, "starting") /\ UNCHANGED slotVars
    <3>1. SlotInv' /\ SlotsMatchStages'
      <4>1. r \in active
        BY <1>6 DEF Launch, GatewayInv, SlotsMatchStages, TasksEndWithMain
      <4> QED
        BY <1>6, <2>1, <4>1, MoveKeepsSlots DEF Launch, mainVars
    <3> QED
      BY <1>6, <2>1, <3>1, RequestMoves DEF Launch, GatewayInv, TypeOK, Browser
  <2>2. CASE Finish(r) /\ Goto(r, "done") /\ UNCHANGED browser
    <3>1. SlotInv' /\ SlotsMatchStages'
      BY <1>6, <2>2, FinishKeepsSlots DEF Launch, mainVars
    <3> QED
      BY <1>6, <2>2, <3>1, RequestMoves
         DEF Launch, GatewayInv, TypeOK, BrowserMatchesStage
  <2> QED
    BY <1>6, <2>1, <2>2 DEF Launch
<1>7. CASE AwaitEndpoint(r)
  BY <1>7, PlainMoves DEF AwaitEndpoint
<1>8. CASE Connect(r)
  BY <1>8, PlainMoves DEF Connect
<1>9. CASE Abort(r)
  BY <1>9, TornDownInv DEF Abort
<1>10. CASE Disconnect(r)
  <2>1. SlotInv' /\ SlotsMatchStages'
    BY <1>10, FinishKeepsSlots DEF Disconnect, mainVars
  <2> QED
    BY <1>10, <2>1, RequestMoves DEF Disconnect, GatewayInv, TypeOK, Browser
<1>11. CASE Upgrade(r)
  BY <1>11, PlainMoves DEF Upgrade
<1> QED
  BY <1>1, <1>2, <1>3, <1>4, <1>5, <1>6, <1>7, <1>8, <1>9, <1>10, <1>11

(* The session task keeps the invariant, also when it panics.              *)
LEMMA SessionInv ==
    ASSUME GatewayInv, NEW r \in Requests,
           \/ StartSession(r) \/ EndRelay(r) \/ CloseSession(r)
           \/ Panic(r) \/ GuardCleanup(r)
    PROVE  GatewayInv'
<1> USE DEF Stage, InConnection, Tracked, Owning, WithBrowser, BeforeBrowser
<1>1. CASE StartSession(r)
  BY <1>1, PlainMoves DEF StartSession
<1>2. CASE EndRelay(r)
  BY <1>2, PlainMoves DEF EndRelay
<1>3. CASE CloseSession(r)
  BY <1>3, TornDownInv DEF CloseSession
<1>4. CASE Panic(r)
  <2>1. SlotInv' /\ SlotsMatchStages'
    BY <1>4, FinishKeepsSlots DEF Panic, mainVars
  <2> QED
    BY <1>4, <2>1, RequestMoves
       DEF Panic, GatewayInv, TypeOK, BrowserMatchesStage
<1>5. CASE GuardCleanup(r)
  <2>1. SlotInv' /\ SlotsMatchStages'
    <3>1. r \notin active
      BY <1>5 DEF GuardCleanup, GatewayInv, SlotsMatchStages, TasksEndWithMain
    <3> QED
      BY <1>5, <3>1, MoveKeepsSlots DEF GuardCleanup, mainVars
  <2> QED
    BY <1>5, <2>1, RequestMoves DEF GuardCleanup, GatewayInv, TypeOK, Browser
<1> QED
  BY <1>1, <1>2, <1>3, <1>4, <1>5

(* The steps of main and its helper tasks up to the return.                *)
MainUntilReturn ==
    \/ BeginBlocking \/ EndBlocking \/ Prepared \/ PreparationFails
    \/ StoreFailure \/ CancelAfterFailure \/ BeginShutdown
    \/ SignalHandlerFails \/ GraceExpires \/ StopServing \/ SessionsDrained
    \/ DrainExpires \/ DecideStatus \/ RuntimeDropped

(* main keeps the invariant until it returns: it never touches a request.  *)
LEMMA MainInv ==
    ASSUME GatewayInv, MainUntilReturn
    PROVE  GatewayInv'
<1> USE DEF MainUntilReturn, BeginBlocking, EndBlocking, Prepared,
            PreparationFails, StoreFailure, CancelAfterFailure, BeginShutdown,
            SignalHandlerFails, GraceExpires, StopServing, SessionsDrained,
            DrainExpires, DecideStatus, RuntimeDropped
<1>1. UNCHANGED sessionVars
  OBVIOUS
<1>2. MainRuns <=> MainRuns'
  BY DEF MainRuns
<1>3. TypeOK'
  BY <1>1 DEF GatewayInv, TypeOK, sessionVars, slotVars, MainRuns
<1>4. SlotInv' /\ SlotsMatchStages' /\ BrowserMatchesStage' /\ TasksEndWithMain'
  BY <1>1, <1>2 DEF GatewayInv, SlotInv, SlotsMatchStages, BrowserMatchesStage,
                    TasksEndWithMain, sessionVars, slotVars
<1>5. ConnectionsDrained'
  BY <1>1 DEF GatewayInv, ConnectionsDrained, sessionVars
<1>6. FailureStored'
  BY DEF GatewayInv, TypeOK, FailureStored
<1> QED
  BY <1>3, <1>4, <1>5, <1>6 DEF GatewayInv

(* main returns, and every task that is left is dropped with the runtime.  *)
LEMMA ReturnInv ==
    ASSUME GatewayInv, Return
    PROVE  GatewayInv'
<1>1. ~MainRuns'
  BY DEF Return, MainRuns
<1>2. TypeOK'
  BY <1>1 DEF GatewayInv, TypeOK, Return, slotVars, Stage, Browser, MainRuns
<1>3. SlotInv' /\ SlotsMatchStages'
  BY <1>1 DEF GatewayInv, SlotInv, SlotsMatchStages, Return, slotVars
<1>4. BrowserMatchesStage' /\ TasksEndWithMain' /\ ConnectionsDrained'
  BY DEF GatewayInv, TypeOK, BrowserMatchesStage, TasksEndWithMain,
         ConnectionsDrained, Return, WithBrowser, BeforeBrowser
<1>5. FailureStored'
  BY DEF GatewayInv, FailureStored, Return
<1> QED
  BY <1>2, <1>3, <1>4, <1>5 DEF GatewayInv

-----------------------------------------------------------------------------
LEMMA InitInv == Init => GatewayInv
<1> SUFFICES ASSUME Init PROVE GatewayInv
  OBVIOUS
<1>1. SlotInv
  BY ConstantsOK, SlotInitInv DEF Init
<1>2. Range(queue) = {}
  <2>1. DOMAIN queue = {}
    BY DEF Init, SlotInit
  <2> QED
    BY <2>1 DEF Range
<1>3. TypeOK
  BY <1>1 DEF Init, TypeOK, SlotInv, Stage, Browser, MainRuns
<1>4. SlotsMatchStages
  BY <1>2 DEF Init, SlotInit, SlotsMatchStages
<1> QED
  BY <1>1, <1>3, <1>4
     DEF Init, GatewayInv, BrowserMatchesStage, MainRuns,
         TasksEndWithMain, ConnectionsDrained, FailureStored, WithBrowser,
         InConnection

LEMMA NextInv == GatewayInv /\ [Next]_vars => GatewayInv'
<1> SUFFICES ASSUME GatewayInv, [Next]_vars PROVE GatewayInv'
  OBVIOUS
<1>1. ASSUME NEW r \in Requests,
             \/ Arrive(r) \/ RequestStep(r) \/ Connect(r) \/ Disconnect(r)
             \/ EndRelay(r) \/ Panic(r)
      PROVE  GatewayInv'
  BY <1>1, HandlerInv, SessionInv DEF RequestStep
<1>2. CASE MainUntilReturn \/ Return
  BY <1>2, MainInv, ReturnInv
<1>3. CASE Exited \/ UNCHANGED vars
  BY <1>3 DEF Exited, vars, sessionVars, slotVars, mainVars, MainRuns,
              GatewayInv, TypeOK, SlotInv, SlotsMatchStages,
              BrowserMatchesStage, TasksEndWithMain, ConnectionsDrained,
              FailureStored
<1> QED
  BY <1>1, <1>2, <1>3 DEF Next, MainStep, MainUntilReturn

LEMMA Invariance == Spec => []GatewayInv
BY InitInv, NextInv, PTL DEF Spec

(* Every variable keeps its type, and those of main fit together.          *)
THEOREM TypeCorrect == Spec => []TypeOK
BY Invariance, PTL DEF GatewayInv

(* A slot is owned exactly from the hand-over by the semaphore to the end  *)
(* of the teardown, on every path out (session.rs:87-89,                   *)
(* server.rs:154-158).                                                     *)
THEOREM SlotsFollowSessions == Spec => []SlotsMatchStages
BY Invariance, PTL DEF GatewayInv

(* No more browsers than slots, panicked sessions apart (README.md:44).    *)
THEOREM BrowsersAreBounded == Spec => []BrowsersBounded
BY Invariance, BrowsersHaveSlots, PTL

(* A failure that main can still see is there for good, and whatever comes *)
(* between is then no success.                                             *)
FailureSeen == startupFailed /\ exit # "success"

LEMMA FailureStays == FailureSeen /\ [Next]_vars => FailureSeen'
<1> SUFFICES ASSUME FailureSeen, [Next]_vars PROVE FailureSeen'
  OBVIOUS
<1>1. ASSUME NEW r \in Requests,
             \/ Arrive(r) \/ RequestStep(r) \/ Connect(r) \/ Disconnect(r)
             \/ EndRelay(r) \/ Panic(r)
      PROVE  UNCHANGED mainVars
  BY <1>1 DEF RequestStep, Arrive, CheckRequest, Acquire, TakePermit,
              LeaveQueue, Launch, AwaitEndpoint, Connect, Abort, TornDown,
              Disconnect, Upgrade, StartSession, EndRelay, CloseSession,
              Panic, GuardCleanup
<1>2. CASE UNCHANGED mainVars
  BY <1>2 DEF FailureSeen, mainVars
<1>3. CASE MainUntilReturn \/ Return \/ Exited \/ UNCHANGED vars
  BY <1>3 DEF FailureSeen, MainUntilReturn, BeginBlocking, EndBlocking,
              Prepared, PreparationFails, StoreFailure, CancelAfterFailure,
              BeginShutdown, SignalHandlerFails, GraceExpires, StopServing,
              SessionsDrained, DrainExpires, DecideStatus, RuntimeDropped,
              Return, Exited, vars, mainVars
<1> QED
  BY <1>1, <1>2, <1>3 DEF Next, MainStep, MainUntilReturn

(* No success is reported by a gateway that its own failed preparation     *)
(* stopped, nor by one whose preparation stored its failure before main    *)
(* loaded the flag (main.rs:83-86, 120-123, 143-156).                      *)
THEOREM FailureIsReported == Spec => FailureReported
<1>1. /\ GatewayInv
      /\ (phase = "serving" /\ shutdown) \/ (startupFailed /\ exit = "none")
      => FailureSeen
  BY DEF GatewayInv, TypeOK, FailureStored, FailureSeen
<1>2. FailureSeen => exit # "success"
  BY DEF FailureSeen
<1> QED
  BY <1>1, <1>2, FailureStays, Invariance, PTL DEF Spec, FailureReported

(* Of all steps only Return makes main return, and it comes after axum has *)
(* returned.                                                               *)
LEMMA MainReturns ==
    ASSUME GatewayInv, [Next]_vars, MainRuns, ~MainRuns'
    PROVE  Return /\ phase = "returning"
<1>1. ASSUME NEW r \in Requests,
             \/ Arrive(r) \/ RequestStep(r) \/ Connect(r) \/ Disconnect(r)
             \/ EndRelay(r) \/ Panic(r)
      PROVE  UNCHANGED phase
  BY <1>1 DEF RequestStep, Arrive, CheckRequest, Acquire, TakePermit,
              LeaveQueue, Launch, AwaitEndpoint, Connect, Abort, TornDown,
              Disconnect, Upgrade, StartSession, EndRelay, CloseSession,
              Panic, GuardCleanup, mainVars
<1>2. ~(MainUntilReturn \/ Exited \/ UNCHANGED vars)
  BY DEF MainUntilReturn, BeginBlocking, EndBlocking, Prepared,
         PreparationFails, StoreFailure, CancelAfterFailure, BeginShutdown,
         SignalHandlerFails, GraceExpires, StopServing, SessionsDrained,
         DrainExpires, DecideStatus, RuntimeDropped, Exited, vars, mainVars,
         MainRuns
<1>3. Return
  BY <1>1, <1>2 DEF Next, MainStep, MainUntilReturn, MainRuns
<1> QED
  BY <1>3 DEF Return

(* main never returns under a request that was not answered yet            *)
(* (README.md:42, main.rs:95-104).                                         *)
THEOREM NoRequestIsCutOff == Spec => NoRequestCutOff
<1>1. GatewayInv /\ [Next]_vars =>
         [MainRuns /\ ~MainRuns' =>
             \A r \in Requests : stage[r] \notin InConnection]_vars
  BY MainReturns DEF GatewayInv, ConnectionsDrained
<1> QED
  BY <1>1, Invariance, PTL DEF Spec, NoRequestCutOff

(* What becomes of a session that was tracked before the drain was over:   *)
(* after the drain it is tracked only where the drain has expired.         *)
Awaited(r) ==
    /\ stage[r] \in Tracked \cup {"unwinding", "done"}
    /\ BeforeDrained \/ stage[r] \notin Tracked
       \/ (phase = "returning" /\ exit = "failure" /\ grace # "running")

LEMMA AwaitedStays ==
    ASSUME GatewayInv, NEW r \in Requests, Awaited(r), [Next]_vars
    PROVE  Awaited(r)'
<1> USE DEF Tracked
<1>1. ASSUME NEW x \in Requests,
             \/ Arrive(x) \/ RequestStep(x) \/ Connect(x) \/ Disconnect(x)
             \/ EndRelay(x) \/ Panic(x)
      PROVE  Awaited(r)'
  <2>1. UNCHANGED mainVars
    BY <1>1 DEF RequestStep, Arrive, CheckRequest, Acquire, TakePermit,
                LeaveQueue, Launch, AwaitEndpoint, Connect, Abort, TornDown,
                Disconnect, Upgrade, StartSession, EndRelay, CloseSession,
                Panic, GuardCleanup
  <2>2. /\ stage'[r] \in Tracked \cup {"unwinding", "done"}
        /\ stage'[r] \in Tracked => stage[r] \in Tracked
    BY <1>1 DEF Awaited, RequestStep, Arrive, CheckRequest, Acquire,
                TakePermit, LeaveQueue, Launch, AwaitEndpoint, Connect, Abort,
                TornDown, Disconnect, Upgrade, StartSession, EndRelay,
                CloseSession, Panic, GuardCleanup, Goto, GatewayInv, TypeOK
  <2> QED
    BY <2>1, <2>2 DEF Awaited, BeforeDrained, mainVars
<1>2. CASE MainUntilReturn \/ Exited \/ UNCHANGED vars
  <2>1. stage' = stage
    BY <1>2 DEF MainUntilReturn, BeginBlocking, EndBlocking, Prepared,
                PreparationFails, StoreFailure, CancelAfterFailure,
                BeginShutdown, SignalHandlerFails, GraceExpires, StopServing,
                SessionsDrained, DrainExpires, DecideStatus, RuntimeDropped,
                Exited, vars, sessionVars
  <2> QED
    BY <1>2, <2>1
       DEF Awaited, BeforeDrained, MainUntilReturn, BeginBlocking,
           EndBlocking, Prepared, PreparationFails, StoreFailure,
           CancelAfterFailure, BeginShutdown, SignalHandlerFails,
           GraceExpires, StopServing, SessionsDrained, DrainExpires,
           DecideStatus, RuntimeDropped, Exited, vars, mainVars
<1>3. CASE Return
  BY <1>3 DEF Return, Awaited
<1> QED
  BY <1>1, <1>2, <1>3 DEF Next, MainStep, MainUntilReturn

(* A session that was tracked before the drain was over is dropped by the  *)
(* return of main only if the drain expired, with a failure, after the     *)
(* grace period (main.rs:106-118).                                         *)
THEOREM SessionsAreDrained == Spec => TrackedSessionsDrained
<1> SUFFICES ASSUME NEW r \in Requests
             PROVE  Spec => []( BeforeDrained /\ stage[r] \in Tracked
                       => []( phase = "returning" /\ stage[r] \in Tracked
                              => exit = "failure" /\ grace # "running" ) )
  BY DEF TrackedSessionsDrained
<1>1. BeforeDrained /\ stage[r] \in Tracked => Awaited(r)
  BY DEF Awaited
<1>2. Awaited(r) => ( phase = "returning" /\ stage[r] \in Tracked
                      => exit = "failure" /\ grace # "running" )
  BY DEF Awaited, BeforeDrained
<1>3. GatewayInv /\ Awaited(r) /\ [Next]_vars => Awaited(r)'
  BY AwaitedStays
<1> QED
  BY <1>1, <1>2, <1>3, Invariance, PTL DEF Spec

-----------------------------------------------------------------------------
(* The browser of every request implements BrowserLifecycle.               *)

(* A step of the request itself.                                           *)
LEMMA RequestRefines ==
    ASSUME GatewayInv, NEW r \in Requests,
           \/ Arrive(r) \/ RequestStep(r) \/ Connect(r) \/ Disconnect(r)
           \/ EndRelay(r) \/ Panic(r)
    PROVE  [Lifecycle(r)!Next]_(LifecycleOf(r))
<1> USE DEF GatewayInv, TypeOK, BrowserMatchesStage, WithBrowser,
            BeforeBrowser, LifecycleOf, Lifecycle!Next, Goto
<1>1. CASE \/ Arrive(r) \/ CheckRequest(r) \/ Acquire(r) \/ TakePermit(r)
           \/ LeaveQueue(r) \/ Upgrade(r) \/ StartSession(r)
  BY <1>1 DEF Arrive, CheckRequest, Acquire, TakePermit, LeaveQueue, Upgrade,
              StartSession
<1>2. CASE Launch(r)
  BY <1>2 DEF Launch, Lifecycle!Spawn
<1>3. CASE AwaitEndpoint(r)
  BY <1>3 DEF AwaitEndpoint, Lifecycle!Publish, Lifecycle!GiveUp
<1>4. CASE Connect(r) \/ EndRelay(r) \/ Panic(r)
  BY <1>4 DEF Connect, EndRelay, Panic, Lifecycle!Stop
<1>5. CASE Abort(r) \/ CloseSession(r) \/ GuardCleanup(r)
  BY <1>5 DEF Abort, CloseSession, TornDown, GuardCleanup, Lifecycle!TearDown
<1>6. CASE Disconnect(r)
  BY <1>6 DEF Disconnect, Lifecycle!Abandon
<1> QED
  BY <1>1, <1>2, <1>3, <1>4, <1>5, <1>6 DEF RequestStep

(* The other requests, and main until it returns, leave it alone.          *)
LEMMA OthersStutter ==
    ASSUME NEW r, UNCHANGED <<stage[r], browser[r]>>
    PROVE  LifecycleOf(r)' = LifecycleOf(r)
BY DEF LifecycleOf

LEMMA OtherRequests ==
    ASSUME GatewayInv, NEW r \in Requests, NEW x \in Requests \ {r},
           \/ Arrive(x) \/ RequestStep(x) \/ Connect(x) \/ Disconnect(x)
           \/ EndRelay(x) \/ Panic(x)
    PROVE  LifecycleOf(r)' = LifecycleOf(r)
<1>1. stage'[r] = stage[r] /\ browser'[r] = browser[r]
  BY DEF RequestStep, Arrive, CheckRequest, Acquire, TakePermit, LeaveQueue,
         Launch, AwaitEndpoint, Connect, Abort, TornDown, Disconnect, Upgrade,
         StartSession, EndRelay, CloseSession, Panic, GuardCleanup, Goto,
         GatewayInv, TypeOK
<1> QED
  BY <1>1, OthersStutter

(* The end of main drops every owner that is left.                         *)
LEMMA ReturnRefines ==
    ASSUME GatewayInv, NEW r \in Requests, Return
    PROVE  [Lifecycle(r)!Next]_(LifecycleOf(r))
<1>1. /\ stage'[r] = "done"
      /\ browser'[r] = IF browser[r] = "running" THEN "orphaned" ELSE browser[r]
  BY DEF Return
<1>2. CASE browser[r] = "running"
  <2>1. LifecycleOf(r) \in {"starting", "up", "stopping"}
    BY <1>2 DEF GatewayInv, BrowserMatchesStage, WithBrowser, LifecycleOf
  <2>2. LifecycleOf(r)' = "orphaned"
    BY <1>1, <1>2 DEF LifecycleOf
  <2> QED
    BY <2>1, <2>2 DEF Lifecycle!Next, Lifecycle!Abandon
<1>3. CASE browser[r] # "running"
  BY <1>1, <1>3 DEF LifecycleOf
<1> QED
  BY <1>2, <1>3

LEMMA StepRefines ==
    ASSUME GatewayInv, [Next]_vars
    PROVE  BrowsersStep
<1> SUFFICES ASSUME NEW r \in Requests
             PROVE  [Lifecycle(r)!Next]_(LifecycleOf(r))
  BY DEF BrowsersStep
<1>1. ASSUME NEW x \in Requests,
             \/ Arrive(x) \/ RequestStep(x) \/ Connect(x) \/ Disconnect(x)
             \/ EndRelay(x) \/ Panic(x)
      PROVE  [Lifecycle(r)!Next]_(LifecycleOf(r))
  BY <1>1, RequestRefines, OtherRequests
<1>2. CASE Return
  BY <1>2, ReturnRefines
<1>3. CASE MainUntilReturn \/ Exited \/ UNCHANGED vars
  <2>1. UNCHANGED <<stage, browser>>
    BY <1>3 DEF MainUntilReturn, BeginBlocking, EndBlocking, Prepared,
                PreparationFails, StoreFailure, CancelAfterFailure,
                BeginShutdown, SignalHandlerFails, GraceExpires, StopServing,
                SessionsDrained, DrainExpires, DecideStatus, RuntimeDropped,
                Exited, vars, sessionVars
  <2> QED
    BY <2>1, OthersStutter
<1> QED
  BY <1>1, <1>2, <1>3 DEF Next, MainStep, MainUntilReturn

(* Whatever handlers, session tasks and main do, the browser of each       *)
(* request lives the life that ChromiumProofs shows a browser to live:     *)
(* the gateway never forgets one, nor tears one down under a live session  *)
(* (session.rs:12-31, server.rs:154-205).                                  *)
THEOREM BrowsersImplementLifecycle == Spec => BrowsersStart /\ [][BrowsersStep]_vars
<1>1. Init => BrowsersStart
  BY DEF Init, BrowsersStart, LifecycleOf, Lifecycle!Init
<1>2. GatewayInv /\ [Next]_vars => [BrowsersStep]_vars
  BY StepRefines
<1> QED
  BY <1>1, <1>2, Invariance, PTL DEF Spec
=============================================================================
