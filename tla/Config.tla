------------------------------- MODULE Config -------------------------------
(***************************************************************************)
(* The configuration (config.rs): what from_env makes of the environment   *)
(* and of the files it finds.  A raw value is NONE when the variable is    *)
(* unset, Blank when it is empty or white space, Junk when its text does   *)
(* not parse, and otherwise what it parses to.                             *)
(***************************************************************************)
EXTENDS Integers

CONSTANTS NONE, Blank, Junk,
          UsizeMax,     \* the largest usize
          Bundled,      \* /usr/bin/chromium
          Mounted,      \* /opt/browser/chrome
          Installed     \* the path an archive is installed at

(* A token is its text and whether spaces surround it.                     *)
Tokens == [text : STRING, padded : BOOLEAN]

ASSUME ConfigAssumption ==
    /\ UsizeMax \in Nat /\ UsizeMax \div 8 >= 10
    /\ NONE \notin Tokens
    /\ Bundled # Mounted /\ Installed \notin {Bundled, Mounted, NONE, Blank}

Given(raw) == raw \notin {NONE, Blank}

(* env_parse: blank is as good as unset, a text must parse to the type.    *)
Parses(raw, type) == Given(raw) => raw \in type
Value(raw, default) == IF Given(raw) THEN raw ELSE default

Ports == 1 .. 65535
Usize == 0 .. UsizeMax
Durations == {"connection", "queue", "chromeStartup", "shutdownGrace"}
DefaultMs == [connection |-> 600000, queue |-> 600000,
              chromeStartup |-> 15000, shutdownGrace |-> 10000]

(* TOKEN is trimmed.                                                       *)
Trim(token) == [token EXCEPT !.padded = FALSE]

(* Mutant: the token is taken as it stands.                                *)
TokenAsIs(env) == Value(env.token, NONE)

Token(env) == IF Given(env.token) THEN Trim(env.token) ELSE NONE

Binary(env, files) ==
    IF Given(env.chromePath) THEN [engine |-> "custom", path |-> env.chromePath]
    ELSE IF Mounted \in files THEN [engine |-> "custom", path |-> Mounted]
    ELSE IF Given(env.archiveUrl) THEN [engine |-> "downloaded", path |-> Installed]
    ELSE [engine |-> "chromium", path |-> Bundled]

(* Mutant: a duration of zero is taken.                                    *)
DurationOrZero(raw) == Parses(raw, Nat)

Duration(raw) == Parses(raw, Nat \ {0})

(* Every reason for which from_env returns an error.  HOST alone is parsed *)
(* as it stands: blank is not an address.  A downloaded browser need not   *)
(* be there yet, any other must.                                           *)
Acceptable(env, files) ==
    /\ env.host \notin {Blank, Junk}
    /\ Parses(env.port, Ports)
    /\ Parses(env.sessions, Usize \ {0})
    /\ Parses(env.queue, Usize)
    /\ \A d \in Durations : Duration(env.ms[d])
    /\ Parses(env.headless, BOOLEAN)
    /\ env.archiveUrl # Junk
    /\ Given(env.archiveSha) => Given(env.archiveUrl) /\ env.archiveSha # Junk
    /\ LET binary == Binary(env, files)
       IN  binary.engine # "downloaded" => binary.path \in files

(* The three Chromium switches are parsed alike; headless stands for them. *)
FromEnv(env, files) ==
    [port     |-> Value(env.port, 3000),
     token    |-> Token(env),
     sessions |-> Value(env.sessions, 10),
     queue    |-> Value(env.queue, 20),
     ms       |-> [d \in Durations |-> Value(env.ms[d], DefaultMs[d])],
     engine   |-> Binary(env, files).engine,
     path     |-> Binary(env, files).path,
     archive  |-> Given(env.archiveUrl),
     headless |-> Value(env.headless, TRUE),
     language |-> Value(env.language, NONE)]
=============================================================================
