# Pinokio in TLA+

A verification project for Pinokio (`src/`), the Chromium gateway: TLA+ modules
that follow its Rust code, TLC instances that check them, and TLAPS proofs of
their safety properties for every value of the constants.  File names and line
numbers without a directory refer to `src/src/` (and `README.md`, `.env.example`
to the top of `src/`).

## 1. The system

Pinokio takes a WebSocket request, waits for one of a fixed number of slots,
starts a Chromium in a process group of its own, connects to its DevTools
endpoint, answers the upgrade, relays frames in both directions, and tears the
browser down when either side, a timeout or a shutdown ends the session.

| Component | State it keeps | Operations | Talks to |
| --- | --- | --- | --- |
| Gate (`queue.rs`) | tokio semaphore (permits, FIFO of waiters), atomic `queued` | `acquire`: fast path, load, compare-exchange loop, select over permit, timeout and shutdown; guard drops; read-only counters | called by the handler; permit owned by the session |
| Admission (`server.rs`, `errors.rs`) | the handler's future: permit, browser, CDP socket | checks, `acquire`, `launch`, CDP connect, upgrade | gate, launch, session task |
| Session task (`session.rs`) | permit, browser, `ChromiumGuard` | run the relay, shut the browser down, drop the permit | relay, Chromium, TaskTracker |
| Startup and shutdown (`main.rs`) | `shutdown`, `session_cancel`, TaskTracker, `startup_failed`, browser watch | prepare the browser, serve, signals, grace timer, drain, exit status | everything |
| Relay (`proxy.rs`) | two sockets, the frame being sent, close reason | select loop, two goodbyes | client, Chromium, the two stops |
| Chromium process (`chromium.rs`) | child, group id, profile directory | `launch`, port file polling, `shutdown`, drop | kernel, helper processes |
| Launch options (`chromium.rs`) | none: options to flags | `validate`, `language_args`, `timezone_for_language`, `window_size`, `screen_size` | admission, `launch` |
| Browser archive (`browser_archive.rs`) | files on a shared volume | download, verify, unpack, rename, clean up | other replicas, `prepare_browser` |
| Browser identity (`chromium.rs`) | hash and version of the executable, set once | `identify` | `/status`, the default user agent |
| Configuration (`config.rs`) | `AppState.config`, set once | `from_env` | the environment, the files; read by everything |
| Authentication (`auth.rs`) | none | `is_authorized` | the two handlers that ask |
| Image and release scripts | none | | |

What makes it hard, and for each part what makes it correct:

* **Gate.** Every request runs `acquire` on its own task and may be dropped at
  each await point, even in the instant it is handed a permit.  Correct: no
  permit is lost or made up, the counter is the number of queued requests and
  never passes its limit, nobody waits beside a free permit, first come first
  served, and shutdown empties the queue.
* **Admission and session.** Ownership of permit and browser moves from the
  handler to a detached task to a tracked task, and each can fail, panic or be
  dropped.  Correct: a slot is owned exactly from the grant to the end of the
  teardown, a running browser always has somebody who will end it.
* **Startup and shutdown.** A signal, a failing preparation, the grace timer,
  axum's drain and the tracker's drain overlap.  Correct: no request is cut
  off, sessions are only cut off after the grace period and with a failure
  status, a failed preparation is reported, and the process does exit.
* **Relay.** One task reads two sockets and awaits its sends.  Correct: frames
  are neither lost, doubled nor reordered, a Close is the last frame and its
  code is true, stops and goodbyes end.
* **Chromium process.** Helpers fork while the group is signalled, survive the
  leader, and ids are reused.  Correct: nobody in the group survives a
  teardown, the profile outlives the leader, launch and teardown end.
* **Configuration and authentication.** Blank, missing and malformed values are
  three different things; the binary is chosen in one place, downloaded in a
  second and launched in a third; two tokens compete, and are trimmed
  differently.  Correct: no server listens with unusable limits, the documented
  binary is the one that runs, and only the holder of the secret gets in.
* **Launch options.** Three sources for a language and a time zone and many
  boundary sizes.  Correct: precedence is as documented and the derived flags
  agree with each other.
* **Archive.** Replicas share a volume, are killed anywhere and come back.
  Correct: an install directory appears whole and verified, what a replica
  reports of its browser stays true, a late start comes up.

The 40 places where this goes wrong if it goes wrong are the `hazards` of
`PROJECT.json`, each with the properties that watch it.

## 2. Modules

| Module | Role |
| --- | --- |
| `SlotQueue` | abstract specification of the gate: slots and a bounded FIFO queue |
| `Gate` | `queue.rs` step by step; implements `SlotQueue` |
| `SequenceLemmas` | lemmas on sequences, injective ones and counted ones, for the proofs below |
| `GateProofs`, `SlotQueueProofs`, `GatewayProofs`, `ChromiumProofs`, `ProxyProofs`, `AdmissionProofs`, `ArchiveProofs` | TLAPS proofs about the module of that name (`ArchiveProofs`: `BrowserArchive`; `GatewayProofs` EXTENDS `SlotQueueProofs` as `Gateway` EXTENDS `SlotQueue`) |
| `BrowserLifecycle` | abstract specification of one session's browser |
| `Gateway` | `server.rs`, `session.rs`, `main.rs` around `SlotQueue`, which it EXTENDS; its browsers implement `BrowserLifecycle` |
| `Proxy` | `proxy.rs` |
| `Chromium` | process handling of `chromium.rs`; implements `BrowserLifecycle` |
| `Config` | `config.rs`: what `from_env` makes of the environment |
| `LaunchOptions` | the pure part of `chromium.rs`; EXTENDS `Config` |
| `Admission` | from the environment to a browser's command line: `main.rs`, `auth.rs`, `errors.rs`, the checks of `server.rs`; EXTENDS `LaunchOptions` |
| `BrowserArchive` | `browser_archive.rs` and its caller in `main.rs` |
| `MCGate`, `MCGateway`, `MCProxy`, `MCChromium`, `MCLaunchOptions`, `MCBrowserArchive` | instances for TLC |

`Gate` is shown to implement `SlotQueue` and `Gateway` is written against
`SlotQueue`; this is how the two compose without multiplying their state.
In the same way `BrowserLifecycle` stands between `Chromium` and `Gateway`:
`Chromium` (processes and signals) is shown to implement it, and so is every
request's browser in `Gateway`, which has none of that detail.  `Proxy` gives
the detail of `Gateway`'s `EndRelay`; that correspondence is informal.
`Admission` leaves to `Gateway` what happens to a request after the checks, and
`Gateway` leaves to `Admission` which check it is that refuses.

Definitions whose comment starts with *Mutant* are plausible bugs of the
action below them.  They belong to no specification; `PROJECT.json` names the
property that must fail when one replaces its action.

### Gate

One step per atomic access or poll.  `TryAcquire` is `try_acquire_owned`
(`queue.rs:84-87`); `Load` and `CompareExchange` are the loop (90-107), in
which `CheckRoom` is the `current >= max_queue` test; `FirstPoll` is the first
poll of the select, whose branches are polled in random order; `TakePermit` and
`Abandon` are its later outcomes (timeout, shutdown, or the whole future
dropped because the client left).  `DropQueueSlot` is the guard of 28-38 and
`Release` the end of the permit in `session.rs:87-90`.  tokio's semaphore is
modelled as the code relies on it: a returned permit goes to the oldest waiting
future, which owns it before it is polled (`assigned`), and a dropped future
that was handed a permit passes it on (`ReturnPermit`).  A request that leaves
may come back, so behaviours are unbounded in length.

### SlotQueue

`Enter`, `Join`, `Leave`, `Finish` over the set `active` and the sequence
`queue`.  `Finish` hands the slot over in the same step.  The refinement
mapping of `Gate` is `active <- Holding` (everybody who owns a permit, polled or
not) and `queue <- waiters`.

### Gateway

A request's `stage` is its await point.  `arrived` .. `responding` are inside
the connection axum waits for; `upgraded` is the gap between the 101 response
and the `on_upgrade` callback; `active` and `closing` are tracked.  `Disconnect`
drops the handler's future with everything in it.  `Panic` unwinds the session
task: its permit goes at once, the browser stays `unwinding` until the task
spawned by `ChromiumGuard` has finished (`GuardCleanup`).  For main, `phase` is
the statement it is at, `grace` the timer task, `prep` the preparation task.
A failure of the preparation is three steps in the code's order: it happens
(`PreparationFails`), `startup_failed` is stored (`StoreFailure`), the token is
cancelled (`CancelAfterFailure`).  The end of main is three steps as well:
`sessions.wait()` is over (`SessionsDrained`), the status is decided by the load of
`startup_failed` (`DecideStatus`), main returns (`Return`); what the other workers
do in between, a session that enters the tracker or a failure that is stored,
is possible and comes too late.  While the
archive is unpacked or the binary hashed, the task is `blocking` in a thread of
the blocking pool (`browser_archive.rs:116`, `chromium.rs:46`), which nobody can
cancel.  `QueueFull` is possible at any time
here, because its exact condition is `Gate`'s business.  `Return` (phase `returned`)
drops every remaining task; the
process has `exited` only when the pool is idle (`RuntimeDropped`), because
dropping tokio's runtime waits for blocking threads that have started.

`LifecycleOf` reads off `browser` and `stage` what the request's browser is
doing.  A browser whose request is past its teardown is "forgotten", a state
`BrowserLifecycle` does not have, so every path that loses one is an error.

### BrowserLifecycle

`Spawn`, `Publish` or `GiveUp`, `Stop`, `TearDown`, and `Abandon` for an owner
that is dropped, over one variable; a launch and a teardown end, an established
browser may run for ever.  `Chromium` maps its `pc` to it, and a `closed`
teardown with a member of the group still running to an "escaped" state that
no step allows.

### Proxy

The two sockets are FIFO buffers of `Window` frames per direction.  `pc =
"select"` is the select, `"send"` the awaited send in a branch body, in which
nothing else is looked at (`proxy.rs:109-134`).  A side may close, fail, or be
`broken`: its connection lives but its next frame cannot be read (`PeerOffends`:
the size caps of `server.rs:179-181` and `204-205`, a protocol or UTF-8 error),
which ends the loop as a lost connection does.  `SayClose` contains the timeouts
of the two goodbyes; tungstenite's refusal to send on a closing socket is
`Closing`.

### Chromium

The leader, its helpers (which fork into the group at any time while somebody
in it runs), the port file, the startup deadline, the profile directory and the
reuse of the group id.  `KillGroup` is `killpg`; a member that got SIGTERM may
ignore it, one that got SIGKILL dies under fairness.  `Drop` is the owner being
dropped at an await point (`kill_on_drop`, `TempDir`).

### Config

A raw value is unset (`NONE`), `Blank`, `Junk` (does not parse), or what it
parses to.  `Acceptable` collects every error return of `from_env`, `FromEnv`
is the record it returns, `Binary` the precedence of `config.rs:190-209`.  A
token is its text and whether white space surrounds it, which is all that
trimming can change.

### LaunchOptions

`Valid` is `validate`; the language list, the zone, the window and the screen
are the operators `Tags`, `Base`, `Accept`, `TimezoneForLanguage`, `Language`,
`Timezone`, `Window`, `Screen`, and `Command` what `launch` puts on the command
line and into the environment of the process.  A tag is a sequence of subtags;
the two zone tables are constants with the rows that an instance needs.

### Admission

One process from its environment to one request.  `Boot` is `main.rs:26-49`
with `Gate::new`'s panic beyond `MaxPermits`; `Prepare` and `Confirm` are the
two halves of `prepare_browser`; `RemoveFile` is an operator who takes a
binary off the volume in between.  `Refusal` is the order of the handler's
checks, evaluated in the state the request meets; `Reject` and `Launch` are
what the gate and the launch answer.  The HTTP statuses are `StatusCode`.

### BrowserArchive

One action per await point of `ensure_installed` and `install`.  A directory is
the set of its files with the archive each came from.  The file and directory
names are told apart by the process id (`tag`), as in the code, and `SharedIds`
says whether two running replicas may have the same one.  `faults` counts the
kills and the removals that fail; both leave temporaries, which `leftover`
remembers until a later start takes them away.  `Identify` happens twice, once for
the hash and once for the version, in either order and with other replicas in
between; what it reads, or that it could not, stays in `info` until the next
start.

## 3. Runs

| Run | Instance | Result |
| --- | --- | --- |
| `MCGate` | 4 requests, 1 slot, 2 queue places | 9 properties hold (13,000 states) |
| `MCGateBypass` | 3 requests, 1 slot | `QueueNotBypassed` fails |
| `MCGateway` | 3 requests, 2 slots, 1 queue place, panics and a missing signal handler | 9 properties hold (15,000 states) |
| `MCGatewayPanic` | 2 requests, 1 slot, panics | `SessionLimitHolds` fails |
| `MCGatewayExit` | 2 requests, 1 slot, no faults | `CleanExit` fails |
| `MCProxy` | 2 data frames and a Close a side, buffers of 1 | 5 properties hold (162,000 states) |
| `MCProxyLifetime` | the same | `LifetimeBounded` fails |
| `MCChromium` | a leader and 2 helpers | 5 properties hold (1,700 states) |
| `MCChromiumSweep` | a leader and 1 helper | `SignalsOwnGroup` fails |
| `MCLaunchOptions` | environments, files and requests at every bound and branch | 6 properties hold (949,000 states) |
| `MCArchive` | 2 replicas, 2 process ids, 1 kill or failed removal, with and without checksum | 6 properties hold (398,000 states) |
| `MCArchiveSharedIds` | 2 replicas, 1 process id | `InstalledIsComplete` fails |

What the passing runs show:

* `MCGate`: the permits are conserved, the counter counts the live guards, no
  permit idles beside a waiter, the list and the hand-overs are consistent, the
  gate implements `SlotQueue`; slots come back and queued requests move if
  sessions end, even if no queue timeout ever fires; whether sessions end or not,
  the counter lets go of a request that no longer waits; shutdown alone wakes the
  waiters and frees their places.
* `MCGateway`: slots match stages on every path, running browsers are bounded by
  the slots (apart from the unwinding ones), each browser lives the life of
  `BrowserLifecycle` (nobody forgets one, none is torn down under a live session,
  a stopping one goes), a failed preparation that stopped the gateway, or was
  recorded before main looked, is never reported as success, main returns under no
  unanswered request, and it drops a session that was tracked before the drain was
  over only after the grace period and as a failure.  If the browsers answer the
  CDP handshake, the process ends, even if the blocking pool is busy when main
  returns, and each request is answered.
* `MCProxy`: order and completeness of both directions for any speed of the
  readers, the uniqueness and truth of the Close frame (with what a peer sends
  that cannot be read, too), the end of a stopped session if both sides read, and
  of its two goodbyes even if nobody does.
* `MCChromium`: no member of the group escapes a teardown that returns, the
  profile is not removed under a running leader, no signal before the final sweep
  meets a reused group id (the sweep can: `MCChromiumSweep`), and the whole
  implements `BrowserLifecycle`, of which the fairness says that launch and
  teardown end.
* `MCLaunchOptions`: who lacks the secret gets 401 whatever the server is doing;
  who has it never does, if it is in the query, or in the header of a request
  without a query token, however `TOKEN` and the header are padded, while behind a
  wrong or empty query token a right header gets 401; the browser that runs is the
  one the documented precedence names, and no archive is fetched that will not be
  launched; a server that listens has usable limits, within what the semaphore can
  count; a session's language and zone win over the server's, the Accept-Language
  list is the session's list, with its base added exactly when absent, and the
  screen contains the window.
* `MCArchive`: the install directory appears whole or not at all, the hash and the
  version a replica reports stay those of the browser its sessions run, the only
  temporaries are those of running installations and what a kill or a failed
  removal left, a start that finds or loses the race for an install comes up;
  `InstallVerified` follows the content from the hashed stream over the file to
  the installed directory.

**Bounds.**  Four requests on one slot give an owner, two waiters and one that
races for the queue's last place, the smallest case of every interleaving in
`acquire`; the proofs remove the bounds for the safety properties of all modules.
In `MCGateway` three requests on two slots and one queue place let a queued
request be served while the other slot is in use, and each request runs its path
once, from any phase of main.  In `MCProxy` two frames and buffers of one are
enough to be blocked in a send while the other direction is full too.  Two helpers
are enough for one to fork the other while the group is signalled and for one to
be left over. Two replicas are what the code's race is about, and the killed one
starts again with either id.  The viewports of `MCLaunchOptions` lie on each side
of every boundary (the least and the largest, the toolbar's 87 px, each standard
screen).  Its numbers
are those at and beyond the ends of each type, with `UsizeMax` = 255 for the
largest usize and so `MaxPermits` = 31 (tokio's limit is the largest usize divided
by 8); only the durations are tried at 0 and 1 alone: that the largest of them, or
its sum with the ten seconds of the drain, fits its type is not modelled.
`Starts` and `Clients` are unions, not products: an environment differs from the
defaults either in one number, or in the choice of the binary (with every set of
files), or in the token, or in what sessions inherit; these are read by different
checks, and each request meets all of them.  One process starts on an empty
archive volume and serves one request, and files disappear only before it
(`RemoveFile`); what several requests or starts do to each other is `Gateway`'s
and `BrowserArchive`'s. `CHECK_DEADLOCK FALSE` is used where the program ends: the
installation and the admission of the one request.  The other modules have an
explicit step of the ended process (`Exited`, `Ended`), so a deadlock there would
be a hang.

**Fairness.**  It is attached to what the runtime, the kernel and the code's own
timeouts guarantee, never to a peer.
`Gate`: a runnable task is polled (`Polled`).  That sessions end is not in the
specification but an assumption inside `SlotsComeBack` and `QueueMoves`
(`SessionsEnd`), since the code ensures it only if both sides read (see
`LifetimeBounded`).  `Gateway`: steps bounded by a timeout or by SIGKILL; the
queue by `QUEUE_TIMEOUT_MS`, the endpoint by `CHROME_STARTUP_TIMEOUT_MS`; a
thread of the blocking pool ends (`EndBlocking`), since it reads and writes
local files.  That Chromium answers or refuses its DevTools handshake, for
which the code has no timeout, is not in the specification but an assumption
(`ConnectAnswered`) inside `ShutdownExits`, about every request, and inside
`RequestsAnswered`, about the one request it speaks of.  `EndRelay`, `Disconnect`,
panics, signals and preparation are not fair.  `Proxy`: the task goes on, and the
random select does not pass over a ready stop for ever, hence strong fairness
of `StopBetweenFrames`; that the sides read is the assumption `SidesRead` inside
`StopEndsSession`.  `Chromium`: the owner is polled, the two timers fire,
SIGKILL kills; nothing makes Chromium publish a port or obey SIGTERM.
`BrowserLifecycle`: what these two show.
`BrowserArchive`: every step ends (`DOWNLOAD_TIMEOUT` for the remote one);
nobody must start or kill a replica.
`Admission` has safety properties only.

## 4. Disagreements found

Checked by a violation run (details and line numbers in `findings`):

1. `MCGateBypass`: a request counts as queued before its first poll puts it on
   the semaphore's list; a slot freed in between, or while the request still
   registers, can go to a newcomer's fast path, though README.md:48 calls that
   impossible.
2. `MCGatewayPanic`: a panicking session releases its slot up to three seconds
   before its browser is gone, so one browser too many runs.
3. `MCGatewayExit`: between the 101 response and the `on_upgrade` callback a
   session is on nobody's list, and main can report success while its browser
   runs.
4. `MCProxyLifetime`: a relay that waits in a send looks neither at the session
   timeout nor at the cancellation, and a side that stops reading keeps the
   slot.
5. `MCArchiveSharedIds`: temporaries are told apart by process id only, which
   containers share; a half-unpacked directory can be installed for good.
6. `MCChromiumSweep`: the final sweep signals the group id after the leader was
   reaped (`chromium.rs:648`), when an empty group's id may have been given to
   another one; `chromium.rs:621-622` says that other sessions are never hit.  The
   window is short.

Met while modelling, represented in the models, and without a run of their own:

* A served waiter keeps its place in the counter until its task is polled, so a
  request within the two limits can get 429 (`queue.rs:92`, `.env.example:15`).
* A request queued at shutdown may still win a permit instead of a 503, because
  the select is polled in random order (`queue.rs:109`, `main.rs:65-67`).
* A client that leaves after the launch and before the upgrade drops the
  handler; only the leader is killed, not the group (`server.rs:167-196`,
  README.md:44).  `Gateway` calls such a browser orphaned.
* The DevTools connect has no timeout (`server.rs:182`): a browser that accepts
  and stays silent holds its request, its slot and the shutdown for ever.
* If a signal has begun the shutdown and the preparation fails after main has
  looked at `startup_failed` (`main.rs:120`), or has not failed yet, the process
  reports success.
* Without a SIGTERM handler (`main.rs:74-80`) the server stops accepting at once,
  cancels nothing, drains and reports success.
* A language without a region (`fr`) never reaches the language table (`match
  region.as_deref()?`, `chromium.rs:256`) and its browser reports UTC, though
  `chromium.rs:246-248` and README.md:104 say it gets the zone of the language.
* A browser installed without a checksum is launched by later starts that have
  one (`browser_archive.rs:61`, README.md:115).
* Chromium's own Close frame is forwarded first, so its code reaches the client
  in place of 1000 (`proxy.rs:124-145`, README.md:79).
* The client is told 1011 also when Chromium is well but sent what the relay
  cannot read, such as a message beyond the cap (`proxy.rs:134`,
  `server.rs:179-181`).
* A temporary that cannot be removed stays, and nothing is logged
  (`browser_archive.rs:85-87`).
* The profile directory is removed while swept helpers may still write into it;
  a failure is logged and the directory stays (`chromium.rs:651`).
* The bound on the sessions is unchecked: more than tokio's semaphore can count
  passes `from_env` and panics in `Gate::new` (`queue.rs:43`, README.md:83);
  `Boot` ends the process there.
* A blank `HOST` is refused, while every other blank variable counts as unset
  (`config.rs:131`).
* A wrong or empty query token hides a right header (`auth.rs:27`), though
  `auth.rs:6-8` names the two as alternatives.
* When the version could not be read, the default user agent says Chrome/0
  (`chromium.rs:190-198`).
* For a viewport no standard screen fits, the screen is the window itself
  (`chromium.rs:183`, README.md:57).

## 5. Proofs

Every safety invariant that a passing run checks, and every action property,
is a theorem about the unbounded specification.  Each rests on one inductive
invariant per module (`ArchiveProofs` has two), whose parts are named and which
TLC checked on the module's instances before it was proved.

| Module | Theorems | For every |
| --- | --- | --- |
| `GateProofs` | `TypeCorrect`, `PermitsConserved`, `QueueBounded`, `NoLostWakeup`, `WaitListCorrect`, `GateImplementsSlotQueue` | finite set of requests, number of slots and length of the queue |
| `SlotQueueProofs` | `SlotsBounded` | the same |
| `GatewayProofs` | `TypeCorrect`, `SlotsFollowSessions`, `BrowsersAreBounded`, `FailureIsReported`, `NoRequestIsCutOff`, `SessionsAreDrained`, `BrowsersImplementLifecycle` | the same, with or without panics and a signal handler |
| `ChromiumProofs` | `TypeCorrect`, `GroupIsTornDown`, `ProfileIsSafe`, `TeardownSignalsStay`, `ChromiumImplementsLifecycle` | set of helpers |
| `ProxyProofs` | `TypeCorrect`, `FramesAreDelivered`, `GoodbyeIsLast`, `GoodbyeIsTrue` | number of frames, size of the buffers and set of codes the peers close with |
| `AdmissionProofs` | `SecretIsDecisive`, `BinaryIsPreferred`, `LimitsAreUsable`, `SessionPrevails`, `AcceptListIsSound`, `WindowFits` | set of environments and requests, width of `usize`, length of the language list and zone table |
| `ArchiveProofs` | `TypeCorrect`, `IdentityIsTrue`, `TemporariesAreRemoved`, `InstalledIsWhole`, `InstallIsVerified` | set of replicas and process ids and number of faults; the last two if ids are not shared |

The assumptions are those the modules name.  `GateAssumption`,
`GatewayAssumption` and `SlotConstants` are what `config.rs` enforces
(a positive number of slots, a queue length).  `ProxyAssumption` says that a
socket takes at least one frame and that close codes are those of WebSocket,
1000 to 4999.  `ConfigAssumption`, `LaunchAssumption` and
`AdmissionAssumption` say that the markers for a missing or malformed value are
no values, that the three places of a browser are different, that `usize` holds
at least the defaults, that the volume of the archives is empty when the
process starts, and which types the inputs have.

**Gate.**  `GateInv` is the five invariants and
`CasFits`.  None is inductive alone.  `SlotConservation` counts owners as a set,
so handing a permit to the head of `waiters` keeps the sum only if the head is
not an owner already, which is `WaitListOK`; that in turn needs the list to be
injective.  `QueueAccounting` needs `CasFits` (a request about to exchange has
read a value below the limit) for the step that counts up.  `NoIdleSlot` makes the
fast path and `ReturnPermit` agree on when a permit may be in the pool.  There is
one lemma per action, then `Invariance`.  `GateImplementsSlotQueue` uses the
invariant to show that each step of the gate is a step of the queue or a
stutter: `TryAcquire` and the free branch of `FirstPoll` are `Enter` (which is
where `NoIdleSlot` is needed, since `Enter` requires an empty queue), the other
branch is `Join` (where `QueueAccounting` bounds the list), `Abandon` is `Leave`, or
`Finish` when a permit is passed on, and `Release` is `Finish`; everything else
stutters.

**Gateway.**  `SlotsMatchStages` says who has a slot but not how many have one;
that is `SlotInv`, proved in `SlotQueueProofs` for the queue alone and carried
through the four steps of the queue that `Gateway` contains.  `BrowsersBounded`
follows from the two and `BrowserMatchesStage` (a browser runs exactly while a
handler, a session or its guard holds it), since every such stage but `unwinding`
owns a slot.  `FailureReported` needs `FailureStored` (the flag is set before the
shutdown it causes is asked for) and `FailureSeen` (a flag that is set before main
looked rules success out for good), `TrackedSessionsDrained` the same kind of fact
about a session (`AwaitedStays`: once tracked before the drain is over, it is
done, or the drain has expired).  `NoRequestCutOff` needs `ConnectionsDrained`
(axum's drain is over for good once it is over). `BrowsersBounded` also speaks of
the time after main, where no slots are counted: that no request is under way then
is `TasksEndWithMain`.  The lemmas follow the actors: the handler, the session
task, main, and the return of main, which drops every task at once.
`BrowsersImplementLifecycle` is the safety half of `ImplementsBrowsers`: a step of
one request leaves the browsers of the others alone, `Return` moves them all, and
each move is one of `BrowserLifecycle`.

**Chromium.**  `GroupTornDown` is about the last state; what makes it true is
`HelpersSwept` (nobody who survives the sweep can fork), `LeaderUnreaped` (until
the sweep the leader's id is still taken, so `killpg` reaches this group and no
other) and `RecycledWhenEmpty` (an id is given away only when the group is
empty, and an empty group stays empty).  `KillGroupEffect` is the one lemma about
`killpg`; the other lemmas cover the processes, the launch and the teardown.
`ChromiumImplementsLifecycle` proves the steps of the refinement with the same
invariant: the state "escaped", which `BrowserLifecycle` does not have, is
excluded by `GroupTornDown`.

**Proxy.**  `NothingLost` is stated over the whole flow of a direction: what was
delivered, what the relay holds and what waits to be read, in this order, is what
was sent.  It is inductive with the types alone; each step moves one frame from
one part to the next, which is where the lemmas on the head, the tail and the
concatenation of sequences are used.  For the goodbyes the invariant adds
`CloseIsSent` (a Close not passed on yet is from a side that has closed),
`NoCloseYet` (nobody was sent a Close while the loop runs) and `ReasonIsTrue` (the
loop ended for what happened; by `PeerTurns` a peer never takes back that it
closed or failed).  One lemma, `StepDelivers`, says what any step can add to what
a side is sent: a frame of the other side in the loop, or one Close after it.

**Admission.**  `AdmissionInv` ties the configuration to the environment, the
answer 401 to the verdict on the token, the binary to what is on the volume,
and the command line to the request it was made for.  Its least obvious part is
`FilesKnown`: an executable at the archive's place is either named by
`CHROME_PATH` or the one that will be launched.  The rest is about the pure
functions.  The filter of the language list is a recursive function on the
length of the list, and the library's induction theorems take an operator as a
parameter, which the provers here cannot instantiate; `CountUp` therefore
derives induction for *sets* of numbers from the well-foundedness of `<`, by
the smallest number not in the set, and `TagsComputed` and `TagsProperties` use
it for the recursion itself and for what it returns.  `ScreenFits` takes the
smallest index the same way.

**Archive.**  Two invariants.  `ArchiveInv` holds for all replicas, those that
share process ids included: what was read of the executable stays true because
an install directory is never replaced (`IdentityStays`), and each
temporary that is not in `leftover` has a replica that is still going to remove it
(`TemporariesOwned`).  `OwnerInv` is about replicas with ids of their own, the
hypothesis `~SharedIds`, without which `InstalledIsComplete` is false
(`MCArchiveSharedIds`).  The completeness of the installed directory follows
from that of the staging directory (`StagingIsArchive`), that from the file being
the stream (`FileIsStream`), and the checksum is compared to the stream
(`ContentVerified`); none of the three survives a second writer.  Types are
proved under both.

## 6. Only model-checked

* Liveness: `SlotsComeBack`, `QueueMoves`, `ShutdownWakesQueue`, `ShutdownExits`,
  `RequestsAnswered`, `StopEndsSession`, `LateReplicaReady`, and the fairness halves
  of `ImplementsBrowser` and `ImplementsBrowsers`.  They rest on weak or strong
  fairness and so on ENABLED, which the provers used here do not reach.
* The six violations: a counterexample is TLC's.
* That the values of `TimezoneForLanguage` are the zones of the table; the
  theorems leave the tables open.

## 7. Not modelled

* `/health`, `/ready`, `/status`: they read state and answer from it; the counters
  they read are `Gate`'s `permits` and `queued`, the identity `BrowserArchive`'s
  `info`.  `/ready` reads two counters one after the other, so its hint may
  mix two moments (`queue.rs:71`).
* `default_user_agent`, `split_version_output`, `CHROME_EXTRA_ARGS`, `LOG_LEVEL`:
  text that no other part depends on.
* That tokens are compared in constant time.
* `CHROME_EXTRA_ARGS` are appended last (`chromium.rs:497`); that an operator's flag
  may override a session's is left out.
* That what a killed replica left (`leftover`) goes away: nothing in the code
  removes it unless a start with the same process id does.
* Real time: timers fire at any moment, except that the drain budget, which is
  the grace period and ten seconds more and starts later, does not end before
  the grace timer.
* Payloads, message conversion, log lines, archive formats and permissions, the
  syntax checks of tags, zones, user agents and proxies, fixed flags.
* Container image and release scripts.

## 8. Plan

Done, in this order of importance: gate with proofs, gateway, relay, process,
archive, launch options; then the browser's life as an abstract specification
between `Chromium` and `Gateway`, the end of the process, configuration,
authentication and identity.

Proved since: the safety of all of these, and the steps of the two refinements
of `BrowserLifecycle`.

Left for the model: the shutdown's timers as durations (whether ten seconds
suffice for a teardown of three, with everything in between).

Left for the proofs: `Proxy` as the implementation of `EndRelay`, which needs an
abstract relay between the two modules first; that `TimezoneForLanguage` never
leaves the tables; shorter lemmas where a step of `GateProofs` or `ProxyProofs`
splits into many cases.
