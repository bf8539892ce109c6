--------------------------- MODULE BrowserArchive ---------------------------
(***************************************************************************)
(* First-start installation of a browser archive (browser_archive.rs).     *)
(* Several containers may share the volume the browser is installed on;    *)
(* each runs this code once per start, may be killed at any await point,   *)
(* and is started again by its orchestrator.                               *)
(*                                                                         *)
(* The names of the temporary file and directory carry the process id      *)
(* (the tag), so what two containers do to each other depends on whether   *)
(* their ids differ: SharedIds says that they may be equal, as they are    *)
(* when every container has a process id namespace of its own.             *)
(*                                                                         *)
(* An archive is the browser as published ("good") or something else       *)
(* ("bad": truncated, corrupted or replaced).  A directory is the set of   *)
(* files unpacked so far, each with the archive it came from: the "chrome" *)
(* executable and "libs", everything it cannot run without.                *)
(***************************************************************************)
EXTENDS Integers, FiniteSets, Functions

CONSTANTS Replicas,     \* the containers that share the volume
          Tags,         \* process ids
          SharedIds,    \* may two running replicas have the same id?
          Expectations, \* values of BROWSER_ARCHIVE_SHA256 over the starts
          MaxFaults     \* bound on the number of kills and failed removals

ASSUME ArchiveAssumption == /\ SharedIds \in BOOLEAN
                            /\ Expectations \subseteq {"none", "good"}
                            /\ MaxFaults \in Nat

VARIABLES pc,           \* where each replica is
          tag,          \* its process id
          expected,     \* its BROWSER_ARCHIVE_SHA256
          error,        \* did install return an error in this start?
          content,      \* the archive it downloaded, then the one it unpacks
          archive,      \* per tag, the file .download-<key>-<tag>.archive
          staging,      \* per tag, the directory .staging-<key>-<tag>
          install,      \* the install directory of the URL
          info,         \* the identity each replica reports on /status
          faults,
          leftover      \* temporaries that a killed start, or a clean-up that
                        \* could not remove them, left behind

disk == <<archive, staging, install>>
volume == <<disk, leftover>>
vars == <<pc, tag, expected, error, content, volume, info, faults>>

PC == {"off", "check", "download", "writing", "verify", "clear", "unpack",
       "unpackLibs", "rename", "removeArchive", "removeStaging", "confirm",
       "identify", "ready", "failed"}
Origins == {"good", "bad"}
Files == {"chrome", "libs"} \X Origins
Dir == [there : BOOLEAN, files : SUBSET Files]
NoDir == [there |-> FALSE, files |-> {}]

(* The hash and the version of the executable, or "none" if reading failed. *)
Unread == [sha256 |-> "unread", version |-> "unread"]

Names(dir) == {f[1] : f \in dir.files}
HasBinary(dir) == "chrome" \in Names(dir)
With(dir, name, origin) ==
    [there |-> TRUE, files |-> {f \in dir.files : f[1] # name} \cup {<<name, origin>>}]

Init ==
    /\ pc = [p \in Replicas |-> "off"]
    /\ tag \in [Replicas -> Tags]
    /\ expected \in [Replicas -> Expectations]
    /\ error = [p \in Replicas |-> FALSE]
    /\ content = [p \in Replicas |-> "good"]
    /\ archive = [t \in Tags |-> "absent"]
    /\ staging = [t \in Tags |-> NoDir]
    /\ install = NoDir
    /\ info = [p \in Replicas |-> Unread]
    /\ faults = 0
    /\ leftover = {}

Temporaries == {"archive", "staging"} \X Tags
Present == {x \in Temporaries :
              IF x[1] = "archive" THEN archive[x[2]] # "absent"
                                  ELSE staging[x[2]].there}

Live == {p \in Replicas : pc[p] \notin {"off", "failed"}}

Goto(p, label) == pc' = [pc EXCEPT ![p] = label]

(* The next step of install, or its early return to the clean-up.          *)
Proceed(p, label) == Goto(p, label) /\ UNCHANGED error
Fail(p) == Goto(p, "removeArchive") /\ error' = [error EXCEPT ![p] = TRUE]

-----------------------------------------------------------------------------
(* A container is started, or started again with the same volume.          *)
Start(p) ==
    /\ pc[p] \in {"off", "failed"}
    /\ \E t \in Tags :
          /\ SharedIds \/ \A q \in Live : tag[q] # t
          /\ tag' = [tag EXCEPT ![p] = t]
    /\ \E e \in Expectations : expected' = [expected EXCEPT ![p] = e]
    /\ error' = [error EXCEPT ![p] = FALSE]
    /\ Goto(p, "check")
    /\ info' = [info EXCEPT ![p] = Unread]
    /\ UNCHANGED <<content, volume, faults>>

(* An executable at the install path ends the installation at once; so     *)
(* does a failure to create the root directory.                            *)
CheckInstalled(p) ==
    /\ pc[p] = "check"
    /\ \/ HasBinary(install) /\ Proceed(p, "confirm")
       \/ ~HasBinary(install) /\ Proceed(p, "download")
       \/ ~HasBinary(install) /\ Goto(p, "confirm") /\ error' = [error EXCEPT ![p] = TRUE]
    /\ UNCHANGED <<tag, expected, content, volume, info, faults>>

(* The response headers arrive and File::create truncates the file, or the *)
(* request fails before.                                                   *)
BeginDownload(p) ==
    /\ pc[p] = "download"
    /\ \/ /\ Proceed(p, "writing")
          /\ archive' = [archive EXCEPT ![tag[p]] = "partial"]
          /\ leftover' = leftover \ {<<"archive", tag[p]>>}
       \/ Fail(p) /\ UNCHANGED <<archive, leftover>>
    /\ UNCHANGED <<tag, expected, content, staging, install, info, faults>>

(* Mutant: a stream that breaks off is taken for a whole one.              *)
FinishDownloadTruncated(p) ==
    /\ pc[p] = "writing"
    /\ \E o \in {"good", "bad", "partial"} :
          /\ content' = [content EXCEPT ![p] = o]
          /\ archive' = [archive EXCEPT ![tag[p]] = o]
    /\ Proceed(p, "verify")
    /\ UNCHANGED <<tag, expected, staging, install, info, faults, leftover>>

(* The stream ends; the hash is that of the stream, not of the file.  The  *)
(* file is whole unless somebody else writes it or has removed its name.   *)
FinishDownload(p) ==
    /\ pc[p] = "writing"
    /\ \/ \E o \in Origins :
             /\ content' = [content EXCEPT ![p] = o]
             /\ archive' =
                   [archive EXCEPT ![tag[p]] =
                      IF @ = "absent" \/ (\E q \in Replicas \ {p} :
                                            pc[q] = "writing" /\ tag[q] = tag[p])
                      THEN @ ELSE o]
             /\ Proceed(p, "verify")
       \/ Fail(p) /\ UNCHANGED <<content, archive>>
    /\ UNCHANGED <<tag, expected, staging, install, info, faults, leftover>>

(* Mutant: the checksum is compared but a mismatch is only logged.         *)
VerifyLogsOnly(p) ==
    /\ pc[p] = "verify"
    /\ Proceed(p, "clear")
    /\ UNCHANGED <<tag, expected, content, volume, info, faults>>

Verify(p) ==
    /\ pc[p] = "verify"
    /\ IF expected[p] = "good" /\ content[p] # "good"
       THEN Fail(p)
       ELSE Proceed(p, "clear")
    /\ UNCHANGED <<tag, expected, content, volume, info, faults>>

(* extract_archive: an empty staging directory ...                         *)
ClearStaging(p) ==
    /\ pc[p] = "clear"
    /\ \/ /\ staging' = [staging EXCEPT ![tag[p]] = [there |-> TRUE, files |-> {}]]
          /\ leftover' = leftover \ {<<"staging", tag[p]>>}
          /\ Proceed(p, "unpack")
       \/ Fail(p) /\ UNCHANGED <<staging, leftover>>
    /\ UNCHANGED <<tag, expected, content, archive, install, info, faults>>

(* ... the executable, from the file as it is now, which may turn out to   *)
(* be unreadable, or the disk full ...                                     *)
Unpack(p) ==
    /\ pc[p] = "unpack"
    /\ \/ /\ archive[tag[p]] \in Origins
          /\ content' = [content EXCEPT ![p] = archive[tag[p]]]
          /\ staging' =
                [staging EXCEPT ![tag[p]] = With(@, "chrome", archive[tag[p]])]
          /\ Proceed(p, "unpackLibs")
       \/ Fail(p) /\ UNCHANGED <<content, staging>>
    /\ UNCHANGED <<tag, expected, archive, install, info, faults, leftover>>

(* ... and the rest of it.  A file that is truncated meanwhile, and an     *)
(* archive without an executable, are errors.                              *)
UnpackLibs(p) ==
    /\ pc[p] = "unpackLibs"
    /\ \/ /\ archive[tag[p]] # "partial"
          /\ LET unpacked == With(staging[tag[p]], "libs", content[p])
             IN  /\ staging' = [staging EXCEPT ![tag[p]] = unpacked]
                 /\ IF HasBinary(unpacked) THEN Proceed(p, "rename") ELSE Fail(p)
       \/ Fail(p) /\ UNCHANGED staging
    /\ UNCHANGED <<tag, expected, content, archive, install, info, faults, leftover>>

(* Mutant: the files are copied one by one into the install directory.     *)
CopyToInstall(p) ==
    /\ pc[p] = "rename"
    /\ \E f \in staging[tag[p]].files \ install.files :
          install' = [there |-> TRUE, files |-> install.files \cup {f}]
    /\ IF Names(install') = Names(staging[tag[p]])
       THEN Proceed(p, "removeArchive") ELSE UNCHANGED <<pc, error>>
    /\ UNCHANGED <<tag, expected, content, archive, staging, info, faults, leftover>>

(* Mutant: the loser of the race puts its own copy in place of the other.  *)
RenameReplaces(p) ==
    /\ pc[p] = "rename"
    /\ IF staging[tag[p]].there
       THEN /\ install' = staging[tag[p]]
            /\ staging' = [staging EXCEPT ![tag[p]] = NoDir]
            /\ Proceed(p, "removeArchive")
       ELSE Fail(p) /\ UNCHANGED <<install, staging>>
    /\ UNCHANGED <<tag, expected, content, archive, info, faults, leftover>>

(* Mutant: losing the race for the directory is an error.                  *)
RenameFirstOnly(p) ==
    /\ pc[p] = "rename"
    /\ IF staging[tag[p]].there /\ install.files = {}
       THEN /\ install' = staging[tag[p]]
            /\ staging' = [staging EXCEPT ![tag[p]] = NoDir]
            /\ Proceed(p, "removeArchive")
       ELSE Fail(p) /\ UNCHANGED <<install, staging>>
    /\ UNCHANGED <<tag, expected, content, archive, info, faults, leftover>>

(* rename(2) onto the install directory: atomic, and refused when that has *)
(* files already, which is fine if the executable is one of them.          *)
Rename(p) ==
    /\ pc[p] = "rename"
    /\ IF staging[tag[p]].there /\ install.files = {}
       THEN /\ install' = staging[tag[p]]
            /\ staging' = [staging EXCEPT ![tag[p]] = NoDir]
            /\ Proceed(p, "removeArchive")
       ELSE /\ IF HasBinary(install) THEN Proceed(p, "removeArchive") ELSE Fail(p)
            /\ UNCHANGED <<install, staging>>
    /\ UNCHANGED <<tag, expected, content, archive, info, faults, leftover>>

(* Mutant: an error returns before the temporaries are removed.            *)
RemoveArchiveIfInstalled(p) ==
    /\ pc[p] = "removeArchive"
    /\ archive' = IF HasBinary(install)
                  THEN [archive EXCEPT ![tag[p]] = "absent"] ELSE archive
    /\ Goto(p, "removeStaging")
    /\ UNCHANGED <<tag, expected, error, content, staging, install, info,
                   faults, leftover>>

(* The two removals.  Their errors are discarded, and the second is tried  *)
(* whatever the first did.                                                 *)
RemoveArchive(p) ==
    /\ pc[p] = "removeArchive"
    /\ \/ /\ archive' = [archive EXCEPT ![tag[p]] = "absent"]
          /\ leftover' = leftover \ {<<"archive", tag[p]>>}
          /\ UNCHANGED faults
       \/ /\ archive[tag[p]] # "absent"
          /\ faults < MaxFaults
          /\ faults' = faults + 1
          /\ leftover' = leftover \cup {<<"archive", tag[p]>>}
          /\ UNCHANGED archive
    /\ Goto(p, "removeStaging")
    /\ UNCHANGED <<tag, expected, error, content, staging, install, info>>

(* remove_dir_all may give up half-way.                                    *)
RemoveStaging(p) ==
    /\ pc[p] = "removeStaging"
    /\ \/ /\ staging' = [staging EXCEPT ![tag[p]] = NoDir]
          /\ leftover' = leftover \ {<<"staging", tag[p]>>}
          /\ UNCHANGED faults
       \/ /\ staging[tag[p]].there
          /\ faults < MaxFaults
          /\ faults' = faults + 1
          /\ \E kept \in SUBSET staging[tag[p]].files :
                staging' = [staging EXCEPT ![tag[p]] = [there |-> TRUE, files |-> kept]]
          /\ leftover' = leftover \cup {<<"staging", tag[p]>>}
    /\ Goto(p, "confirm")
    /\ UNCHANGED <<tag, expected, error, content, archive, install, info>>

(* prepare_browser: an error of the installation, or no executable at the  *)
(* path, ends the process with a failure ...                               *)
Confirm(p) ==
    /\ pc[p] = "confirm"
    /\ IF ~error[p] /\ HasBinary(install)
       THEN Goto(p, "identify") ELSE Goto(p, "failed")
    /\ UNCHANGED <<tag, expected, error, content, volume, info, faults>>

(* ... and identify hashes the executable and asks it for its version, at  *)
(* the same time; each of the two may fail.                                *)
Identify(p) ==
    /\ pc[p] = "identify"
    /\ \E field \in {"sha256", "version"} :
          /\ info[p][field] = "unread"
          /\ \E seen \in {"none"} \cup {f[2] : f \in {g \in install.files : g[1] = "chrome"}} :
                info' = [info EXCEPT ![p][field] = seen]
    /\ IF "unread" \in {info'[p].sha256, info'[p].version}
       THEN UNCHANGED pc ELSE Goto(p, "ready")
    /\ UNCHANGED <<tag, expected, error, content, volume, faults>>

(* The container is killed; the volume stays as it is.                     *)
Crash(p) ==
    /\ p \in Live
    /\ faults < MaxFaults
    /\ faults' = faults + 1
    /\ Goto(p, "off")
    /\ leftover' = leftover \cup {x \in Present : x[2] = tag[p]}
    /\ UNCHANGED <<tag, expected, error, content, disk, info>>

Install(p) ==
    \/ CheckInstalled(p) \/ BeginDownload(p) \/ FinishDownload(p) \/ Verify(p)
    \/ ClearStaging(p) \/ Unpack(p) \/ UnpackLibs(p) \/ Rename(p)
    \/ RemoveArchive(p) \/ RemoveStaging(p) \/ Confirm(p) \/ Identify(p)

Next == \E p \in Replicas : Start(p) \/ Install(p) \/ Crash(p)

Spec == Init /\ [][Next]_vars

(* Every step of the installation is bounded (DOWNLOAD_TIMEOUT for the     *)
(* only remote one); nobody is obliged to start or to kill a container.    *)
FairSpec == Spec /\ \A p \in Replicas : WF_vars(Install(p))

-----------------------------------------------------------------------------
(* Every variable keeps its type, a directory that is not there has no     *)
(* files, and a replica that is ready has read its identity.               *)
TypeOK ==
    /\ pc \in [Replicas -> PC]
    /\ tag \in [Replicas -> Tags]
    /\ expected \in [Replicas -> Expectations]
    /\ error \in [Replicas -> BOOLEAN]
    /\ content \in [Replicas -> Origins]
    /\ archive \in [Tags -> Origins \cup {"absent", "partial"}]
    /\ staging \in [Tags -> Dir]
    /\ install \in Dir
    /\ info \in [Replicas -> [{"sha256", "version"} ->
                                Origins \cup {"none", "unread"}]]
    /\ \A p \in Replicas : pc[p] = "ready" => "unread" \notin Range(info[p])
    /\ faults \in 0 .. MaxFaults
    /\ \A t \in Tags : ~staging[t].there => staging[t].files = {}
    /\ leftover \subseteq Temporaries

(* browser_archive.rs:124-129: whatever is killed and whoever else         *)
(* installs, the install directory appears whole and from one archive, or  *)
(* not at all: its executable is what later starts take for an install.    *)
InstalledIsComplete ==
    install.there => \E o \in Origins :
                        install.files = {<<"chrome", o>>, <<"libs", o>>}

(* README.md:129, chromium.rs:22-25: what a replica reports of its browser *)
(* is true of the build its sessions run, whoever else installs: the hash  *)
(* and the version, if there are any, are those of what is installed now.  *)
IdentityTrue ==
    \A p \in Replicas :
        pc[p] = "ready" =>
            \A seen \in Range(info[p]) \ {"none"} : <<"chrome", seen>> \in install.files

(* README.md:115, .env.example:34-35: a start with BROWSER_ARCHIVE_SHA256  *)
(* never puts anything but the archive of this hash into the install       *)
(* directory, although it hashes a stream and unpacks a file.  (It does    *)
(* launch what a start without a checksum has installed.)                  *)
InstallVerified ==
    [][\A p \in Replicas :
          Rename(p) /\ install' # install /\ expected[p] = "good"
             => \A f \in install'.files : f[2] = "good"]_vars

(* browser_archive.rs:72-87: whatever fails and whoever is killed, each    *)
(* temporary on the volume is that of a running installation that has yet  *)
(* to clean up, or it was left by a kill or by a removal that failed; and  *)
(* a later start that reuses the name and cleans up takes it away.         *)
CleaningUpAhead(p) ==
    pc[p] \in {"writing", "verify", "clear", "unpack", "unpackLibs", "rename",
              "removeArchive", "removeStaging"}
TemporariesRemoved ==
    \A x \in Present \ leftover :
        \E p \in Replicas : tag[p] = x[2] /\ CleaningUpAhead(p)

(* README.md:115, browser_archive.rs:125-126: once a browser is installed, *)
(* a start that is not killed comes up; so does one that was unpacking its *)
(* own copy when another replica's appeared.                               *)
LateReplicaReady ==
    \A p \in Replicas :
        pc[p] \in {"check", "rename"} /\ install.there
            ~> pc[p] \in {"ready", "off"}
=============================================================================
