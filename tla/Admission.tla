----------------------------- MODULE Admission -----------------------------
(***************************************************************************)
(* From the environment of the process to the command line of a browser:   *)
(* the configuration is loaded (config.rs), the browser binary prepared    *)
(* (main.rs), and one request authenticated (auth.rs), validated, admitted *)
(* and answered (server.rs, errors.rs).  What the gate, the session and    *)
(* the shutdown do is Gateway's; here every outcome of theirs is possible. *)
(***************************************************************************)
EXTENDS LaunchOptions

CONSTANTS Starts,       \* environments and the files there are with them
          Clients       \* requests: query token, bearer token, options

StatusCode == [InvalidLaunchOptions |-> 400, Unauthorized |-> 401,
               QueueFull |-> 429, ShuttingDown |-> 503,
               BrowserInstalling |-> 503, ChromiumUnavailable |-> 503,
               QueueTimeout |-> 504, ChromiumStartupTimeout |-> 504]

Answers == DOMAIN StatusCode \cup {"SwitchingProtocols"}

ASSUME AdmissionAssumption ==
    /\ NONE \notin Answers
    /\ \A start \in Starts :     \* the volume of the archives is empty
          /\ start.files \subseteq {Bundled, Mounted, start.env.chromePath}
          /\ start.env.token \in Tokens \cup {NONE, Blank}
          /\ start.env.language \in LanguageLists \cup {NONE, Blank}
    /\ \A client \in Clients :
          /\ client.query \in Tokens \cup {NONE}
          /\ client.bearer \in Tokens \cup {NONE}
          /\ client.options.acceptLanguage \in LanguageLists \cup {NONE}
          /\ client.options.viewport \in Viewport \cup {NONE}

VARIABLES env,          \* the environment of the process
          files,        \* the executables there are
          stage,        \* of the process
          config,       \* AppState.config
          request,      \* the request, once it is there
          answer,       \* its HTTP answer, or NONE while it is not known
          browser       \* what launch spawned for it

vars == <<env, files, stage, config, request, answer, browser>>

(* Semaphore::MAX_PERMITS.                                                 *)
MaxPermits == UsizeMax \div 8

Init ==
    /\ \E start \in Starts : env = start.env /\ files = start.files
    /\ stage = "boot"
    /\ config = NONE
    /\ request = NONE /\ answer = NONE /\ browser = NONE

-----------------------------------------------------------------------------
(* main.                                                                   *)

(* An unusable configuration ends main; a limit beyond what the semaphore  *)
(* can count passes from_env and panics in Gate::new; an address may be    *)
(* taken.                                                                  *)
Boot ==
    /\ stage = "boot"
    /\ IF Acceptable(env, files)
       THEN /\ config' = FromEnv(env, files)
            /\ \/ config'.sessions <= MaxPermits /\ stage' = "preparing"
               \/ stage' = "exited"
       ELSE UNCHANGED config /\ stage' = "exited"
    /\ UNCHANGED <<env, files, request, answer, browser>>

(* Mutant: an archive is installed whenever its URL is set.                *)
PrepareAnyArchive ==
    /\ stage = "preparing"
    /\ \/ config.archive /\ files' = files \cup {Installed} /\ stage' = "confirming"
       \/ config.archive /\ UNCHANGED files /\ stage' = "stopping"
       \/ ~config.archive /\ UNCHANGED files /\ stage' = "confirming"
    /\ UNCHANGED <<env, config, request, answer, browser>>

(* prepare_browser installs the archive, if that is what will be launched. *)
Prepare ==
    /\ stage = "preparing"
    /\ LET wanted == config.archive /\ config.engine = "downloaded"
       IN  \/ wanted /\ files' = files \cup {Installed} /\ stage' = "confirming"
           \/ wanted /\ UNCHANGED files /\ stage' = "stopping"
           \/ ~wanted /\ UNCHANGED files /\ stage' = "confirming"
    /\ UNCHANGED <<env, config, request, answer, browser>>

(* It looks at the binary again and records its identity.                  *)
Confirm ==
    /\ stage = "confirming"
    /\ stage' = IF config.path \in files THEN "ready" ELSE "stopping"
    /\ UNCHANGED <<env, files, config, request, answer, browser>>

(* A signal.                                                               *)
Stop ==
    /\ stage \in {"preparing", "confirming", "ready"}
    /\ stage' = "stopping"
    /\ UNCHANGED <<env, files, config, request, answer, browser>>

(* The operator takes a binary away.                                       *)
RemoveFile ==
    /\ request = NONE
    /\ \E file \in files : files' = files \ {file}
    /\ UNCHANGED <<env, stage, config, request, answer, browser>>

-----------------------------------------------------------------------------
(* ws_handler.                                                             *)

(* is_authorized: a query token, even an empty one, hides the header.      *)
IsAuthorized(expected, client) ==
    \/ expected = NONE
    \/ client.query # NONE /\ client.query = expected
    \/ client.query = NONE /\ client.bearer # NONE /\ Trim(client.bearer) = expected

(* The first check that fails answers; a request that passes them all goes *)
(* on to the gate.                                                         *)
Refusal(client) ==
    IF ~IsAuthorized(config.token, client) THEN "Unauthorized"
    ELSE IF stage = "stopping" THEN "ShuttingDown"
    ELSE IF stage # "ready" THEN "BrowserInstalling"
    ELSE IF ~Valid(client.options) THEN "InvalidLaunchOptions"
    ELSE NONE

Arrive ==
    /\ stage \in {"preparing", "confirming", "ready", "stopping"}
    /\ request = NONE
    /\ \E client \in Clients :
          request' = client /\ answer' = Refusal(client)
    /\ UNCHANGED <<env, files, stage, config, browser>>

Admitted == request # NONE /\ answer = NONE /\ browser = NONE

(* Gate::acquire fails, or Chromium does not come up.                      *)
Reject ==
    /\ Admitted
    /\ answer' \in {"QueueFull", "QueueTimeout", "ShuttingDown",
                    "ChromiumUnavailable", "ChromiumStartupTimeout"}
    /\ UNCHANGED <<env, files, stage, config, request, browser>>

(* launch spawns the configured binary, and the upgrade is answered.       *)
Launch ==
    /\ Admitted
    /\ config.path \in files
    /\ browser' = Command(request.options, config, env.tz)
    /\ answer' = "SwitchingProtocols"
    /\ UNCHANGED <<env, files, stage, config, request>>

Next == Boot \/ Prepare \/ Confirm \/ Stop \/ RemoveFile \/ Arrive \/ Reject \/ Launch

Spec == Init /\ [][Next]_vars

-----------------------------------------------------------------------------
Launched == browser # NONE

(* .env.example:7-9, auth.rs:20-33: the secret decides who gets in, and a  *)
(* query token alone decides where there is one.  Whoever has not got the  *)
(* secret, or hides it in the header behind a wrong or an empty query      *)
(* token, learns nothing but 401, in whatever state the server is.  With   *)
(* the secret in the query, or in the header of a request without a query  *)
(* token, no request gets 401, however TOKEN is padded in the environment; *)
(* and a blank TOKEN lets everyone in.                                     *)
SecretDecides ==
    request # NONE =>
        LET holds(token) == Given(env.token) /\ token # NONE /\ token.text = env.token.text
            refused == answer \in DOMAIN StatusCode /\ StatusCode[answer] = 401
        IN  /\ Given(env.token) /\ ~holds(request.query)
                /\ (request.query # NONE \/ ~holds(request.bearer)) => refused
            /\ holds(request.query) /\ ~request.query.padded => ~refused
            /\ request.query = NONE /\ holds(request.bearer) => ~refused
            /\ ~Given(env.token) => ~refused

(* README.md:129, .env.example:37-39: a session runs CHROME_PATH if it is  *)
(* set, else a mounted browser, else the archive; and an archive that will *)
(* not be launched is not downloaded either, so that what is installed is  *)
(* what will run, unless CHROME_PATH names that very file.                 *)
BinaryPrecedence ==
    /\ Launched /\ Given(env.chromePath) => browser.path = env.chromePath
    /\ Launched /\ ~Given(env.chromePath) /\ Mounted \in files
          => browser.path = Mounted
    /\ Launched /\ ~Given(env.chromePath) /\ browser.path = Bundled
          => ~Given(env.archiveUrl)
    /\ Installed \in files => \/ env.chromePath = Installed
                               \/ config.path = Installed

(* README.md:83 "Invalid values prevent the server from starting": what    *)
(* the gate, the relay and the timers assume of their limits holds of      *)
(* every server that listens.                                              *)
LimitsUsable ==
    stage \in {"preparing", "confirming", "ready", "stopping"} =>
        /\ config.port \in Ports
        /\ config.sessions \in 1 .. MaxPermits
        /\ config.queue \in Usize
        /\ \A d \in Durations : config.ms[d] > 0

(* README.md:104, 105, 107: the session's languages and zone win over the  *)
(* server's, and the server's TZ over a zone derived from a language.      *)
SessionWins ==
    Launched =>
        LET asked == request.options
        IN  /\ asked.acceptLanguage # NONE => browser.lang \in Range(asked.acceptLanguage)
            /\ asked.timezone # NONE => browser.tz = asked.timezone
            /\ asked.timezone = NONE /\ Given(env.tz) => browser.tz = env.tz

(* chromium.rs:210-213, 222-227: Accept-Language starts with the language  *)
(* of the user interface, keeps every valid tag in order, and has the bare *)
(* language to fall back to, which is added after them if it is not there, *)
(* and nothing else is.                                                    *)
AcceptListSound ==
    Launched /\ browser.lang # NONE =>
        LET tags == Tags(Language(request.options, config))
            added == Len(browser.accept) - Len(tags)
        IN  /\ Head(browser.accept) = browser.lang
            /\ IsPrefix(tags, browser.accept)
            /\ Base(browser.lang) \in Range(browser.accept)
            /\ added = IF Base(browser.lang) \in Range(tags) THEN 0 ELSE 1
            /\ Junk \notin Range(browser.accept)

(* README.md:57: the window leaves the requested viewport to the page and  *)
(* fits the emulated screen.                                               *)
ScreenFitsWindow ==
    Launched /\ config.headless =>
        LET viewport == request.options.viewport
        IN  /\ Fits(browser.window, browser.screen)
            /\ viewport # NONE => /\ browser.window.width = viewport.width
                                  /\ browser.window.height - ChromeHeight = viewport.height
=============================================================================
