--------------------------- MODULE ArchiveProofs ---------------------------
(***************************************************************************)
(* Proofs about BrowserArchive, for any number of replicas, process ids,   *)
(* checksums and kills.  What holds of any replicas rests on ArchiveInv.   *)
(* Where two running replicas never have the same process id, OwnerInv     *)
(* holds besides: nobody else touches the temporaries of a replica, so     *)
(* what it unpacks is what it has hashed.                                  *)
(***************************************************************************)
EXTENDS BrowserArchive, TLAPS

-----------------------------------------------------------------------------
(* Any replicas.                                                           *)

(* What was read of the executable stays true: once there is one, the      *)
(* install directory is never replaced (browser_archive.rs:124-133).       *)
IdentityStays ==
    \A p \in Replicas : \A field \in {"sha256", "version"} :
       info[p][field] \in {"none", "unread"}
          \/ <<"chrome", info[p][field]>> \in install.files

(* The temporaries of a tag have somebody who will try to remove them, or  *)
(* were left behind (browser_archive.rs:72-87).                            *)
MayWrite == {"writing", "verify", "clear", "unpack", "unpackLibs", "rename",
             "removeArchive"}
MayStage == {"unpack", "unpackLibs", "rename", "removeArchive", "removeStaging"}
FileOwned(t) == \/ <<"archive", t>> \in leftover
                \/ \E p \in Replicas : tag[p] = t /\ pc[p] \in MayWrite
DirOwned(t) == \/ <<"staging", t>> \in leftover
               \/ \E p \in Replicas : tag[p] = t /\ pc[p] \in MayStage
TemporariesOwned ==
    \A t \in Tags : /\ archive[t] # "absent" => FileOwned(t)
                    /\ staging[t].there => DirOwned(t)

ArchiveInv == TypeOK /\ IdentityStays /\ TemporariesOwned

-----------------------------------------------------------------------------
(* Replicas with distinct process ids.                                     *)

DistinctTags == \A p, q \in Live : tag[p] = tag[q] => p = q

(* The file is being written, or it holds the archive that was hashed.     *)
FileIsStream ==
    \A p \in Replicas :
       /\ pc[p] = "writing" => archive[tag[p]] = "partial"
       /\ pc[p] \in {"verify", "clear", "unpack", "unpackLibs"}
             => archive[tag[p]] = content[p]

(* The staging directory holds what was unpacked so far, and only that.    *)
StagingIsArchive ==
    \A p \in Replicas :
       /\ pc[p] = "unpack" => staging[tag[p]].files = {}
       /\ pc[p] = "unpackLibs" =>
             staging[tag[p]].files = {<<"chrome", content[p]>>}
       /\ pc[p] = "rename" =>
             staging[tag[p]].files = {<<"chrome", content[p]>>, <<"libs", content[p]>>}

(* Past the comparison, a checksum vouches for what is unpacked.           *)
ContentVerified ==
    \A p \in Replicas :
       pc[p] \in {"clear", "unpack", "unpackLibs", "rename"} /\ expected[p] = "good"
          => content[p] = "good"

InstallIsDir == ~install.there => install.files = {}

OwnerInv == /\ InstalledIsComplete
            /\ DistinctTags
            /\ FileIsStream
            /\ StagingIsArchive
            /\ ContentVerified
            /\ InstallIsDir

-----------------------------------------------------------------------------
LEMMA WithIsDir ==
    ASSUME NEW dir \in Dir, NEW name \in {"chrome", "libs"},
           NEW origin \in Origins
    PROVE  With(dir, name, origin) \in Dir /\ With(dir, name, origin).there
BY DEF With, Dir, Files

(* A directory of one tag is replaced.                                     *)
LEMMA DirReplaced ==
    ASSUME NEW old, NEW new, NEW t \in Tags, NEW d \in Dir,
           old \in [Tags -> Dir], new = [old EXCEPT ![t] = d],
           \A u \in Tags : ~old[u].there => old[u].files = {},
           ~d.there => d.files = {}
    PROVE  new \in [Tags -> Dir] /\ \A u \in Tags : ~new[u].there => new[u].files = {}
OBVIOUS

LEMMA NoDirIsDir == NoDir \in Dir /\ ~NoDir.there /\ NoDir.files = {}
BY DEF NoDir, Dir

(* Nothing but temporaries is left behind.                                 *)
LEMMA LeftoverStep ==
    ASSUME TypeOK, NEW p \in Replicas, Install(p)
    PROVE  leftover' \in SUBSET Temporaries
<1>1. /\ leftover \subseteq Temporaries
      /\ <<"archive", tag[p]>> \in Temporaries /\ <<"staging", tag[p]>> \in Temporaries
  BY DEF TypeOK, Temporaries
<1>2. \/ leftover' \subseteq leftover
      \/ leftover' = leftover \cup {<<"archive", tag[p]>>}
      \/ leftover' = leftover \cup {<<"staging", tag[p]>>}
  <2>1. CASE CheckInstalled(p) \/ Verify(p) \/ Confirm(p) \/ Identify(p)
    BY <2>1 DEF CheckInstalled, Verify, Confirm, Identify, volume
  <2>2. CASE BeginDownload(p) \/ FinishDownload(p) \/ ClearStaging(p)
             \/ Unpack(p) \/ UnpackLibs(p) \/ Rename(p)
    BY <2>2 DEF BeginDownload, FinishDownload, ClearStaging, Unpack,
                UnpackLibs, Rename
  <2>3. CASE RemoveArchive(p) \/ RemoveStaging(p)
    BY <2>3 DEF RemoveArchive, RemoveStaging
  <2> QED
    BY <2>1, <2>2, <2>3 DEF Install
<1> QED
  BY <1>1, <1>2

(* A step of a replica is either an early return or the next label.        *)
LEMMA TypeStep ==
    ASSUME TypeOK, NEW p \in Replicas, Install(p)
    PROVE  TypeOK'
<1> USE DEF TypeOK, PC, Goto, Proceed, Fail, volume, disk
<1>0. leftover' \in SUBSET Temporaries
  BY LeftoverStep
<1>1. CASE CheckInstalled(p)
  BY <1>1 DEF CheckInstalled
<1>2. CASE BeginDownload(p)
  BY <1>2 DEF BeginDownload
<1>3. CASE FinishDownload(p)
  <2>1. content' \in [Replicas -> Origins]
    BY <1>3 DEF FinishDownload
  <2>2. archive' \in [Tags -> Origins \cup {"absent", "partial"}]
    BY <1>3 DEF FinishDownload
  <2>3. /\ pc' \in [Replicas -> PC] /\ error' \in [Replicas -> BOOLEAN]
        /\ \A x \in Replicas : pc'[x] = "ready" => pc[x] = "ready"
    BY <1>3 DEF FinishDownload
  <2> QED
    BY <1>3, <2>1, <2>2, <2>3 DEF FinishDownload
<1>4. CASE Verify(p)
  BY <1>4 DEF Verify
<1>5. CASE ClearStaging(p)
  <2>1. CASE Fail(p) /\ UNCHANGED <<staging, leftover>>
    BY <1>5, <2>1 DEF ClearStaging
  <2>2. CASE ~(Fail(p) /\ UNCHANGED <<staging, leftover>>)
    <3>1. [there |-> TRUE, files |-> {}] \in Dir
      BY DEF Dir
    <3>2. /\ staging' = [staging EXCEPT ![tag[p]] = [there |-> TRUE, files |-> {}]]
          /\ Proceed(p, "unpack")
          /\ UNCHANGED <<tag, expected, content, archive, install, info, faults>>
      BY <1>5, <2>2 DEF ClearStaging
    <3>3. /\ staging' \in [Tags -> Dir]
          /\ \A t \in Tags : ~staging'[t].there => staging'[t].files = {}
      BY <3>1, <3>2
    <3> QED
      BY <1>0, <3>2, <3>3
  <2> QED
    BY <2>1, <2>2
<1>6. CASE Unpack(p)
  <2>1. CASE /\ archive[tag[p]] \in Origins
             /\ content' = [content EXCEPT ![p] = archive[tag[p]]]
             /\ staging' =
                   [staging EXCEPT ![tag[p]] = With(@, "chrome", archive[tag[p]])]
             /\ Proceed(p, "unpackLibs")
    <3>1. With(staging[tag[p]], "chrome", archive[tag[p]]) \in Dir
      BY <2>1, WithIsDir
    <3>2. With(staging[tag[p]], "chrome", archive[tag[p]]).there
      BY <2>1, WithIsDir
    <3> QED
      BY <1>6, <2>1, <3>1, <3>2 DEF Unpack
  <2>2. CASE Fail(p) /\ UNCHANGED <<content, staging>>
    BY <1>6, <2>2 DEF Unpack
  <2> QED
    BY <1>6, <2>1, <2>2 DEF Unpack
<1>7. CASE UnpackLibs(p)
  <2> DEFINE unpacked == With(staging[tag[p]], "libs", content[p])
  <2>1. unpacked \in Dir /\ unpacked.there
    BY WithIsDir
  <2> HIDE DEF unpacked
  <2>2. /\ \/ staging' = [staging EXCEPT ![tag[p]] = unpacked]
           \/ UNCHANGED staging
        /\ Proceed(p, "rename") \/ Fail(p)
        /\ UNCHANGED <<tag, expected, content, archive, install, info, faults, leftover>>
    BY <1>7 DEF UnpackLibs, unpacked
  <2>3. /\ staging' \in [Tags -> Dir]
        /\ \A t \in Tags : ~staging'[t].there => staging'[t].files = {}
    BY <2>1, <2>2
  <2> QED
    BY <1>0, <2>2, <2>3
<1>8. CASE Rename(p)
  <2>1. /\ \/ install' = staging[tag[p]] /\ staging' = [staging EXCEPT ![tag[p]] = NoDir]
           \/ UNCHANGED <<install, staging>>
        /\ Proceed(p, "removeArchive") \/ Fail(p)
        /\ UNCHANGED <<tag, expected, content, archive, info, faults, leftover>>
    BY <1>8 DEF Rename
  <2>2. /\ install' \in Dir /\ staging' \in [Tags -> Dir]
        /\ \A t \in Tags : ~staging'[t].there => staging'[t].files = {}
    <3>1. CASE UNCHANGED <<install, staging>>
      BY <3>1
    <3>2. CASE ~ UNCHANGED <<install, staging>>
      <4>1. install' = staging[tag[p]] /\ staging' = [staging EXCEPT ![tag[p]] = NoDir]
        BY <2>1, <3>2
      <4> QED
        BY <4>1, NoDirIsDir, DirReplaced
    <3> QED
      BY <3>1, <3>2
  <2> QED
    BY <1>0, <2>1, <2>2
<1>9. CASE RemoveArchive(p)
  <2>1. faults' \in 0 .. MaxFaults
    BY <1>9, ArchiveAssumption DEF RemoveArchive
  <2>2. archive' \in [Tags -> Origins \cup {"absent", "partial"}]
    BY <1>9 DEF RemoveArchive
  <2>3. /\ Goto(p, "removeStaging")
        /\ UNCHANGED <<tag, expected, error, content, staging, install, info>>
    BY <1>9 DEF RemoveArchive
  <2> QED
    BY <1>0, <2>1, <2>2, <2>3
<1>10. CASE RemoveStaging(p)
  <2>1. faults' \in 0 .. MaxFaults
    BY <1>10, ArchiveAssumption DEF RemoveStaging
  <2>2. /\ Goto(p, "confirm")
        /\ UNCHANGED <<tag, expected, error, content, archive, install, info>>
    BY <1>10 DEF RemoveStaging
  <2>3. /\ staging' \in [Tags -> Dir]
        /\ \A t \in Tags : ~staging'[t].there => staging'[t].files = {}
    <3>1. CASE staging' = [staging EXCEPT ![tag[p]] = NoDir]
      BY <3>1, NoDirIsDir, DirReplaced
    <3>2. CASE \E kept \in SUBSET staging[tag[p]].files :
                  staging' = [staging EXCEPT ![tag[p]] = [there |-> TRUE, files |-> kept]]
      <4>1. PICK kept \in SUBSET staging[tag[p]].files :
               staging' = [staging EXCEPT ![tag[p]] = [there |-> TRUE, files |-> kept]]
        BY <3>2
      <4>2. [there |-> TRUE, files |-> kept] \in Dir
        BY <4>1 DEF Dir
      <4> QED
        BY <4>1, <4>2, DirReplaced
    <3> QED
      BY <1>10, <3>1, <3>2 DEF RemoveStaging
  <2> QED
    BY <1>0, <2>1, <2>2, <2>3
<1>11. CASE Confirm(p)
  BY <1>11 DEF Confirm
<1>12. CASE Identify(p)
  <2>1. PICK field \in {"sha256", "version"} :
           \E seen \in {"none"} \cup {f[2] : f \in {g \in install.files : g[1] = "chrome"}} :
              info' = [info EXCEPT ![p][field] = seen]
    BY <1>12 DEF Identify
  <2>2. \A f \in install.files : f[2] \in Origins
    BY DEF Dir, Files
  <2>3. info' \in [Replicas -> [{"sha256", "version"} ->
                                  Origins \cup {"none", "unread"}]]
    BY <2>1, <2>2
  <2>4. pc'[p] = "ready" => info'[p].sha256 # "unread" /\ info'[p].version # "unread"
    BY <1>12 DEF Identify
  <2>5. \A x \in Replicas : pc'[x] = "ready" => "unread" \notin Range(info'[x])
    BY <1>12, <2>3, <2>4 DEF Identify, Range
  <2>6. pc' \in [Replicas -> PC]
    BY <1>12 DEF Identify
  <2> QED
    BY <1>12, <2>3, <2>5, <2>6 DEF Identify
<1> QED
  BY <1>1, <1>2, <1>3, <1>4, <1>5, <1>6, <1>7, <1>8, <1>9, <1>10, <1>11,
     <1>12 DEF Install

LEMMA IdentityKept ==
    ASSUME TypeOK, IdentityStays, UNCHANGED info,
           install' = install \/ install.files = {}
    PROVE  IdentityStays'
BY DEF IdentityStays

(* A step of one replica keeps every temporary accounted for if it works   *)
(* on its own and is still among its owners afterwards, unless it removed  *)
(* it or recorded that it could not.                                       *)
LEMMA OwnersMove ==
    ASSUME TypeOK, TemporariesOwned, NEW p \in Replicas, NEW label \in PC,
           Goto(p, label), UNCHANGED tag,
           \A t \in Tags \ {tag[p]} :
              /\ archive'[t] = archive[t] /\ staging'[t] = staging[t]
              /\ <<"archive", t>> \in leftover => <<"archive", t>> \in leftover'
              /\ <<"staging", t>> \in leftover => <<"staging", t>> \in leftover',
           archive'[tag[p]] # "absent" =>
              \/ label \in MayWrite \/ <<"archive", tag[p]>> \in leftover'
              \/ /\ archive[tag[p]] # "absent" /\ pc[p] \notin MayWrite
                 /\ <<"archive", tag[p]>> \notin leftover,
           staging'[tag[p]].there =>
              \/ label \in MayStage \/ <<"staging", tag[p]>> \in leftover'
              \/ /\ staging[tag[p]].there /\ pc[p] \notin MayStage
                 /\ <<"staging", tag[p]>> \notin leftover
    PROVE  TemporariesOwned'
<1> SUFFICES ASSUME NEW t \in Tags
             PROVE  /\ archive'[t] # "absent" => FileOwned(t)'
                    /\ staging'[t].there => DirOwned(t)'
  BY DEF TemporariesOwned
<1>1. /\ pc' = [pc EXCEPT ![p] = label] /\ pc \in [Replicas -> PC]
      /\ tag' = tag
  BY DEF Goto, TypeOK
<1>2. /\ archive[t] # "absent" => FileOwned(t)
      /\ staging[t].there => DirOwned(t)
  BY DEF TemporariesOwned
<1>3. CASE t = tag[p]
  BY <1>1, <1>2, <1>3 DEF FileOwned, DirOwned
<1>4. CASE t # tag[p]
  BY <1>1, <1>2, <1>4 DEF FileOwned, DirOwned
<1> QED
  BY <1>3, <1>4

LEMMA InstallKeepsIdentity ==
    ASSUME TypeOK, IdentityStays, NEW p \in Replicas, Install(p)
    PROVE  IdentityStays'
<1>1. CASE Identify(p)
  <2>1. PICK field \in {"sha256", "version"} :
           \E seen \in {"none"} \cup {f[2] : f \in {g \in install.files : g[1] = "chrome"}} :
              info' = [info EXCEPT ![p][field] = seen]
    BY <1>1 DEF Identify
  <2>2. PICK seen \in {"none"} \cup {f[2] : f \in {g \in install.files : g[1] = "chrome"}} :
           info' = [info EXCEPT ![p][field] = seen]
    BY <2>1
  <2>3. seen = "none" \/ <<"chrome", seen>> \in install.files
    <3>1. CASE seen # "none"
      <4>1. PICK f \in install.files : f[1] = "chrome" /\ seen = f[2]
        BY <3>1
      <4>2. f = <<"chrome", seen>>
        BY <4>1 DEF TypeOK, Dir, Files
      <4> QED
        BY <4>2
    <3> QED
      BY <3>1
  <2>4. UNCHANGED install
    BY <1>1 DEF Identify, volume, disk
  <2>5. \A x \in Replicas, f \in {"sha256", "version"} :
           info'[x][f] = IF x = p /\ f = field THEN seen ELSE info[x][f]
    BY <2>2 DEF TypeOK
  <2> QED
    BY <2>3, <2>4, <2>5 DEF IdentityStays
<1>2. CASE ~Identify(p)
  <2>1. UNCHANGED info /\ (install' = install \/ install.files = {})
    BY <1>2 DEF Install, CheckInstalled, BeginDownload, FinishDownload, Verify,
                ClearStaging, Unpack, UnpackLibs, Rename, RemoveArchive,
                RemoveStaging, Confirm, volume, disk
  <2> QED
    BY <2>1, IdentityKept
<1> QED
  BY <1>1, <1>2

LEMMA InstallKeepsOwners ==
    ASSUME TypeOK, TemporariesOwned, NEW p \in Replicas, Install(p)
    PROVE  TemporariesOwned'
<1> USE DEF PC, MayWrite, MayStage, Proceed, Fail, volume, disk
<1>0. tag[p] \in Tags /\ archive \in [Tags -> Origins \cup {"absent", "partial"}]
      /\ staging \in [Tags -> Dir]
  BY DEF TypeOK
<1>1. CASE CheckInstalled(p)
  BY <1>1, OwnersMove DEF CheckInstalled
<1>2. CASE BeginDownload(p)
  BY <1>0, <1>2, OwnersMove DEF BeginDownload
<1>3. CASE FinishDownload(p)
  BY <1>0, <1>3, OwnersMove DEF FinishDownload
<1>4. CASE Verify(p)
  BY <1>4, OwnersMove DEF Verify
<1>5. CASE ClearStaging(p)
  BY <1>0, <1>5, OwnersMove DEF ClearStaging
<1>6. CASE Unpack(p)
  BY <1>0, <1>6, OwnersMove DEF Unpack
<1>7. CASE UnpackLibs(p)
  BY <1>0, <1>7, OwnersMove DEF UnpackLibs
<1>8. CASE Rename(p)
  BY <1>0, <1>8, OwnersMove DEF Rename
<1>9. CASE RemoveArchive(p)
  BY <1>0, <1>9, OwnersMove DEF RemoveArchive
<1>10. CASE RemoveStaging(p)
  BY <1>0, <1>10, NoDirIsDir, OwnersMove DEF RemoveStaging
<1>11. CASE Confirm(p)
  BY <1>11, OwnersMove DEF Confirm
<1>12. CASE Identify(p)
  <2>1. CASE UNCHANGED pc
    BY <1>12, <2>1 DEF Identify, TemporariesOwned, FileOwned, DirOwned
  <2>2. CASE Goto(p, "ready")
    BY <1>12, <2>2, OwnersMove DEF Identify
  <2> QED
    BY <1>12, <2>1, <2>2 DEF Identify
<1> QED
  BY <1>1, <1>2, <1>3, <1>4, <1>5, <1>6, <1>7, <1>8, <1>9, <1>10, <1>11,
     <1>12 DEF Install

LEMMA ArchiveInit == Init => ArchiveInv
<1> SUFFICES ASSUME Init PROVE ArchiveInv
  OBVIOUS
<1>1. TypeOK
  BY ArchiveAssumption, NoDirIsDir DEF Init, TypeOK, PC, Origins, Unread
<1>2. IdentityStays
  BY DEF Init, IdentityStays, Unread
<1>3. TemporariesOwned
  BY NoDirIsDir DEF Init, TemporariesOwned
<1> QED
  BY <1>1, <1>2, <1>3 DEF ArchiveInv

(* A container that is not running owns nothing; what one that is killed   *)
(* owned is left over.                                                     *)
LEMMA ContainerInv ==
    ASSUME ArchiveInv, NEW p \in Replicas, Start(p) \/ Crash(p)
    PROVE  ArchiveInv'
<1> USE DEF ArchiveInv, Goto, volume, disk
<1>1. CASE Start(p)
  <2>1. /\ pc[p] \in {"off", "failed"} /\ pc' = [pc EXCEPT ![p] = "check"]
        /\ \E t \in Tags : tag' = [tag EXCEPT ![p] = t]
        /\ \E e \in Expectations : expected' = [expected EXCEPT ![p] = e]
        /\ error' = [error EXCEPT ![p] = FALSE]
        /\ info' = [info EXCEPT ![p] = Unread]
        /\ UNCHANGED <<content, archive, staging, install, faults, leftover>>
    BY <1>1 DEF Start
  <2>2. TypeOK'
    <3>1. info' \in [Replicas -> [{"sha256", "version"} ->
                                    Origins \cup {"none", "unread"}]]
      BY <2>1 DEF TypeOK, Unread
    <3>2. \A x \in Replicas : pc'[x] = "ready" => pc[x] = "ready" /\ info'[x] = info[x]
      BY <2>1 DEF TypeOK
    <3>3. /\ pc' \in [Replicas -> PC] /\ tag' \in [Replicas -> Tags]
          /\ expected' \in [Replicas -> Expectations]
          /\ error' \in [Replicas -> BOOLEAN]
      BY <2>1 DEF TypeOK, PC
    <3> QED
      BY <2>1, <3>1, <3>2, <3>3 DEF TypeOK
  <2>3. IdentityStays'
    <3>1. \A x \in Replicas, field \in {"sha256", "version"} :
             info'[x][field] = IF x = p THEN "unread" ELSE info[x][field]
      BY <2>1 DEF TypeOK, Unread
    <3> QED
      BY <2>1, <3>1 DEF IdentityStays
  <2>4. TemporariesOwned'
    <3>1. \A x \in Replicas :
             pc[x] \in MayWrite \cup MayStage => pc'[x] = pc[x] /\ tag'[x] = tag[x]
      BY <2>1 DEF TypeOK, MayWrite, MayStage
    <3> SUFFICES ASSUME NEW t \in Tags
                 PROVE  /\ archive'[t] # "absent" => FileOwned(t)'
                        /\ staging'[t].there => DirOwned(t)'
      BY DEF TemporariesOwned
    <3>2. FileOwned(t) => FileOwned(t)'
      BY <2>1, <3>1 DEF FileOwned
    <3>3. DirOwned(t) => DirOwned(t)'
      BY <2>1, <3>1 DEF DirOwned
    <3> QED
      BY <2>1, <3>2, <3>3 DEF TemporariesOwned
  <2> QED
    BY <2>2, <2>3, <2>4
<1>2. CASE Crash(p)
  <2>1. TypeOK'
    BY <1>2, ArchiveAssumption DEF Crash, TypeOK, PC, Present, disk
  <2>2. IdentityStays'
    BY <1>2 DEF Crash, IdentityStays, disk
  <2>3. TemporariesOwned'
    <3> SUFFICES ASSUME NEW t \in Tags
                 PROVE  /\ archive'[t] # "absent" => FileOwned(t)'
                        /\ staging'[t].there => DirOwned(t)'
      BY DEF TemporariesOwned
    <3>1. /\ pc' = [pc EXCEPT ![p] = "off"] /\ pc \in [Replicas -> PC]
          /\ leftover' = leftover \cup {x \in Present : x[2] = tag[p]}
          /\ UNCHANGED <<tag, archive, staging>>
      BY <1>2 DEF Crash, TypeOK, disk
    <3>2. CASE t = tag[p]
      BY <3>1, <3>2 DEF Present, Temporaries, FileOwned, DirOwned
    <3>3. CASE t # tag[p]
      BY <3>1, <3>3 DEF TemporariesOwned, FileOwned, DirOwned
    <3> QED
      BY <3>2, <3>3
  <2> QED
    BY <2>1, <2>2, <2>3
<1> QED
  BY <1>1, <1>2

LEMMA ArchiveNext == ArchiveInv /\ [Next]_vars => ArchiveInv'
<1> SUFFICES ASSUME ArchiveInv, [Next]_vars PROVE ArchiveInv'
  OBVIOUS
<1>1. CASE UNCHANGED vars
  BY <1>1 DEF vars, volume, disk, ArchiveInv, TypeOK, IdentityStays,
              TemporariesOwned, FileOwned, DirOwned
<1>2. ASSUME NEW p \in Replicas, Install(p)
      PROVE  ArchiveInv'
  BY <1>2, TypeStep, InstallKeepsIdentity, InstallKeepsOwners DEF ArchiveInv
<1> QED
  BY <1>1, <1>2, ContainerInv DEF Next

LEMMA ArchiveInvariance == Spec => []ArchiveInv
BY ArchiveInit, ArchiveNext, PTL DEF Spec

-----------------------------------------------------------------------------
(* Every variable keeps its type, and a ready replica has an identity.     *)
THEOREM TypeCorrect == Spec => []TypeOK
BY ArchiveInvariance, PTL DEF ArchiveInv

(* The hash and the version that a replica reports are those of what is    *)
(* installed, even if others install and even if they share its process id *)
(* (browser_archive.rs:124-133, chromium.rs:22-25).                        *)
THEOREM IdentityIsTrue == Spec => []IdentityTrue
<1>1. ASSUME ArchiveInv
      PROVE  IdentityTrue
  <2> SUFFICES ASSUME NEW p \in Replicas, pc[p] = "ready",
                      NEW seen \in Range(info[p]) \ {"none"}
               PROVE  <<"chrome", seen>> \in install.files
    BY DEF IdentityTrue
  <2>1. seen # "unread" /\ \E field \in {"sha256", "version"} : seen = info[p][field]
    BY <1>1 DEF ArchiveInv, TypeOK, Range
  <2> QED
    BY <1>1, <2>1 DEF ArchiveInv, IdentityStays
<1> QED
  BY <1>1, ArchiveInvariance, PTL

(* Every temporary on the volume is that of an installation that has yet   *)
(* to clean up, or a kill or a failed removal left it behind, even if      *)
(* process ids are shared (browser_archive.rs:72-87).                      *)
THEOREM TemporariesAreRemoved == Spec => []TemporariesRemoved
<1>1. ASSUME ArchiveInv
      PROVE  TemporariesRemoved
  <2> SUFFICES ASSUME NEW x \in Present \ leftover
               PROVE  \E p \in Replicas : tag[p] = x[2] /\ CleaningUpAhead(p)
    BY DEF TemporariesRemoved
  <2>1. PICK t \in Tags : x = <<"archive", t>> \/ x = <<"staging", t>>
    BY DEF Present, Temporaries
  <2>2. \A p \in Replicas : pc[p] \in MayWrite \cup MayStage => CleaningUpAhead(p)
    BY DEF MayWrite, MayStage, CleaningUpAhead
  <2>3. CASE x = <<"archive", t>>
    BY <1>1, <2>2, <2>3 DEF Present, ArchiveInv, TemporariesOwned, FileOwned
  <2>4. CASE x = <<"staging", t>>
    BY <1>1, <2>2, <2>4 DEF Present, ArchiveInv, TemporariesOwned, DirOwned
  <2> QED
    BY <2>1, <2>3, <2>4
<1> QED
  BY <1>1, ArchiveInvariance, PTL

-----------------------------------------------------------------------------
(* Replicas with distinct process ids.                                     *)

(* Nobody else works on the temporaries of a running replica, so its step  *)
(* has only to leave its own in the state its next label stands for.       *)
LEMMA OwnerMoves ==
    ASSUME TypeOK, OwnerInv, NEW p \in Live, NEW label \in PC, Goto(p, label),
           UNCHANGED <<tag, expected>>,
           \A x \in Replicas \ {p} : content'[x] = content[x],
           \A t \in Tags \ {tag[p]} :
              archive'[t] = archive[t] /\ staging'[t] = staging[t],
           label = "writing" => archive'[tag[p]] = "partial",
           label \in {"verify", "clear", "unpack", "unpackLibs"}
              => archive'[tag[p]] = content'[p],
           label = "unpack" => staging'[tag[p]].files = {},
           label = "unpackLibs" =>
              staging'[tag[p]].files = {<<"chrome", content'[p]>>},
           label = "rename" => staging'[tag[p]].files =
                                  {<<"chrome", content'[p]>>, <<"libs", content'[p]>>},
           label \in {"clear", "unpack", "unpackLibs", "rename"} /\ expected[p] = "good"
              => content'[p] = "good"
    PROVE  DistinctTags' /\ FileIsStream' /\ StagingIsArchive' /\ ContentVerified'
<1>1. /\ p \in Replicas /\ pc'[p] = label
      /\ \A x \in Replicas \ {p} : pc'[x] = pc[x] /\ content'[x] = content[x]
  BY DEF Live, Goto, TypeOK
<1>2. \A x \in Live \ {p} : /\ tag[x] \in Tags \ {tag[p]}
                            /\ archive'[tag[x]] = archive[tag[x]]
                            /\ staging'[tag[x]] = staging[tag[x]]
  BY DEF OwnerInv, DistinctTags, Live, TypeOK
<1>3. \A x \in Replicas : pc[x] \notin {"off", "failed"} => x \in Live
  BY DEF Live
<1>4. DistinctTags'
  BY <1>1 DEF OwnerInv, DistinctTags, Live
<1>5. FileIsStream'
  BY <1>1, <1>2, <1>3 DEF OwnerInv, FileIsStream
<1>6. StagingIsArchive'
  BY <1>1, <1>2, <1>3 DEF OwnerInv, StagingIsArchive
<1>7. ContentVerified'
  BY <1>1 DEF OwnerInv, ContentVerified
<1> QED
  BY <1>4, <1>5, <1>6, <1>7

LEMMA InstallUntouched ==
    ASSUME OwnerInv, UNCHANGED install
    PROVE  InstalledIsComplete' /\ InstallIsDir'
BY DEF OwnerInv, InstalledIsComplete, InstallIsDir

LEMMA OwnerStep ==
    ASSUME TypeOK, OwnerInv, NEW p \in Replicas, Install(p)
    PROVE  OwnerInv'
<1> USE DEF PC, Proceed, Fail, volume, disk
<1>0. /\ p \in Live /\ tag[p] \in Tags /\ content[p] \in Origins
      /\ archive \in [Tags -> Origins \cup {"absent", "partial"}]
      /\ staging \in [Tags -> Dir] /\ content \in [Replicas -> Origins]
  BY DEF TypeOK, Live, Install, CheckInstalled, BeginDownload, FinishDownload,
         Verify, ClearStaging, Unpack, UnpackLibs, Rename, RemoveArchive,
         RemoveStaging, Confirm, Identify
<1>1. CASE CheckInstalled(p)
  <2>1. DistinctTags' /\ FileIsStream' /\ StagingIsArchive' /\ ContentVerified'
    BY <1>0, <1>1, OwnerMoves DEF CheckInstalled
  <2> QED
    BY <1>1, <2>1, InstallUntouched DEF CheckInstalled, OwnerInv
<1>2. CASE BeginDownload(p)
  <2>1. DistinctTags' /\ FileIsStream' /\ StagingIsArchive' /\ ContentVerified'
    BY <1>0, <1>2, OwnerMoves DEF BeginDownload
  <2> QED
    BY <1>2, <2>1, InstallUntouched DEF BeginDownload, OwnerInv
<1>3. CASE FinishDownload(p)
  <2>1. CASE Fail(p) /\ UNCHANGED <<content, archive>>
    <3>1. DistinctTags' /\ FileIsStream' /\ StagingIsArchive' /\ ContentVerified'
      BY <1>0, <1>3, <2>1, OwnerMoves DEF FinishDownload
    <3> QED
      BY <1>3, <3>1, InstallUntouched DEF FinishDownload, OwnerInv
  <2>2. CASE ~(Fail(p) /\ UNCHANGED <<content, archive>>)
    (* Nobody else writes the file and nobody removed its name: it gets    *)
    (* the stream that was hashed.                                         *)
    <3>1. archive[tag[p]] = "partial" /\ pc[p] = "writing"
      BY <1>3 DEF FinishDownload, OwnerInv, FileIsStream
    <3>2. ~ \E q \in Replicas \ {p} : pc[q] = "writing" /\ tag[q] = tag[p]
      BY <1>0 DEF OwnerInv, DistinctTags, Live
    <3>3. PICK o \in Origins : /\ content' = [content EXCEPT ![p] = o]
                               /\ archive' = [archive EXCEPT ![tag[p]] = o]
      BY <1>0, <1>3, <2>2, <3>1, <3>2 DEF FinishDownload
    <3>4. Goto(p, "verify") /\ UNCHANGED <<tag, expected, staging, install>>
      BY <1>3, <2>2 DEF FinishDownload
    <3>5. DistinctTags' /\ FileIsStream' /\ StagingIsArchive' /\ ContentVerified'
      BY <1>0, <3>3, <3>4, OwnerMoves
    <3> QED
      BY <3>4, <3>5, InstallUntouched DEF OwnerInv
  <2> QED
    BY <2>1, <2>2
<1>4. CASE Verify(p)
  <2>1. archive[tag[p]] = content[p]
    BY <1>4 DEF Verify, OwnerInv, FileIsStream
  <2>2. DistinctTags' /\ FileIsStream' /\ StagingIsArchive' /\ ContentVerified'
    BY <1>0, <1>4, <2>1, OwnerMoves DEF Verify
  <2> QED
    BY <1>4, <2>2, InstallUntouched DEF Verify, OwnerInv
<1>5. CASE ClearStaging(p)
  <2>1. /\ archive[tag[p]] = content[p]
        /\ expected[p] = "good" => content[p] = "good"
    BY <1>5 DEF ClearStaging, OwnerInv, FileIsStream, ContentVerified
  <2>2. DistinctTags' /\ FileIsStream' /\ StagingIsArchive' /\ ContentVerified'
    BY <1>0, <1>5, <2>1, OwnerMoves DEF ClearStaging
  <2> QED
    BY <1>5, <2>2, InstallUntouched DEF ClearStaging, OwnerInv
<1>6. CASE Unpack(p)
  <2>1. /\ archive[tag[p]] = content[p] /\ staging[tag[p]].files = {}
        /\ expected[p] = "good" => content[p] = "good"
    BY <1>6 DEF Unpack, OwnerInv, FileIsStream, StagingIsArchive, ContentVerified
  <2>2. With(staging[tag[p]], "chrome", content[p]).files = {<<"chrome", content[p]>>}
    BY <2>1 DEF With
  <2>3. DistinctTags' /\ FileIsStream' /\ StagingIsArchive' /\ ContentVerified'
    <3>1. CASE Fail(p) /\ UNCHANGED <<content, staging>>
      BY <1>0, <1>6, <3>1, OwnerMoves DEF Unpack
    <3>2. CASE /\ content' = [content EXCEPT ![p] = archive[tag[p]]]
               /\ staging' =
                     [staging EXCEPT ![tag[p]] = With(@, "chrome", archive[tag[p]])]
               /\ Proceed(p, "unpackLibs")
      <4>1. /\ content' = content
            /\ staging'[tag[p]].files = {<<"chrome", content[p]>>}
            /\ \A t \in Tags \ {tag[p]} : staging'[t] = staging[t]
        BY <1>0, <2>1, <2>2, <3>2
      <4> QED
        BY <1>0, <1>6, <2>1, <3>2, <4>1, OwnerMoves DEF Unpack
    <3> QED
      BY <1>6, <3>1, <3>2 DEF Unpack
  <2> QED
    BY <1>6, <2>3, InstallUntouched DEF Unpack, OwnerInv
<1>7. CASE UnpackLibs(p)
  <2> DEFINE unpacked == With(staging[tag[p]], "libs", content[p])
  <2>1. /\ staging[tag[p]].files = {<<"chrome", content[p]>>}
        /\ expected[p] = "good" => content[p] = "good"
    BY <1>7 DEF UnpackLibs, OwnerInv, StagingIsArchive, ContentVerified
  <2>2. unpacked.files = {<<"chrome", content[p]>>, <<"libs", content[p]>>}
    BY <2>1 DEF With
  <2> HIDE DEF unpacked
  <2>3. /\ \/ staging' = [staging EXCEPT ![tag[p]] = unpacked] /\ Goto(p, "rename")
           \/ staging' = [staging EXCEPT ![tag[p]] = unpacked] /\ Goto(p, "removeArchive")
           \/ UNCHANGED staging /\ Goto(p, "removeArchive")
        /\ UNCHANGED <<tag, expected, content, archive, install>>
    BY <1>7 DEF UnpackLibs, unpacked
  <2>4. DistinctTags' /\ FileIsStream' /\ StagingIsArchive' /\ ContentVerified'
    BY <1>0, <2>1, <2>2, <2>3, OwnerMoves
  <2> QED
    BY <2>3, <2>4, InstallUntouched DEF OwnerInv
<1>8. CASE Rename(p)
  <2>1. staging[tag[p]].files = {<<"chrome", content[p]>>, <<"libs", content[p]>>}
    BY <1>8 DEF Rename, OwnerInv, StagingIsArchive
  <2>2. /\ Goto(p, "removeArchive")
        /\ UNCHANGED <<tag, expected, content, archive>>
        /\ \A t \in Tags \ {tag[p]} : staging'[t] = staging[t]
    BY <1>0, <1>8 DEF Rename
  <2>3. DistinctTags' /\ FileIsStream' /\ StagingIsArchive' /\ ContentVerified'
    BY <1>0, <2>2, OwnerMoves
  <2>4. CASE staging[tag[p]].there /\ install' = staging[tag[p]]
    <3>1. InstalledIsComplete' /\ InstallIsDir'
      BY <1>0, <2>1, <2>4 DEF InstalledIsComplete, InstallIsDir
    <3> QED
      BY <2>3, <3>1 DEF OwnerInv
  <2>5. CASE UNCHANGED install
    BY <2>3, <2>5, InstallUntouched DEF OwnerInv
  <2> QED
    BY <1>8, <2>4, <2>5 DEF Rename
<1>9. CASE RemoveArchive(p)
  <2>1. DistinctTags' /\ FileIsStream' /\ StagingIsArchive' /\ ContentVerified'
    BY <1>0, <1>9, OwnerMoves DEF RemoveArchive
  <2> QED
    BY <1>9, <2>1, InstallUntouched DEF RemoveArchive, OwnerInv
<1>10. CASE RemoveStaging(p)
  <2>1. DistinctTags' /\ FileIsStream' /\ StagingIsArchive' /\ ContentVerified'
    BY <1>0, <1>10, OwnerMoves DEF RemoveStaging
  <2> QED
    BY <1>10, <2>1, InstallUntouched DEF RemoveStaging, OwnerInv
<1>11. CASE Confirm(p)
  <2>1. DistinctTags' /\ FileIsStream' /\ StagingIsArchive' /\ ContentVerified'
    BY <1>0, <1>11, OwnerMoves DEF Confirm
  <2> QED
    BY <1>11, <2>1, InstallUntouched DEF Confirm, OwnerInv
<1>12. CASE Identify(p)
  <2>1. Goto(p, "identify") \/ Goto(p, "ready")
    BY <1>0, <1>12 DEF Identify, Goto, TypeOK
  <2>2. DistinctTags' /\ FileIsStream' /\ StagingIsArchive' /\ ContentVerified'
    BY <1>0, <1>12, <2>1, OwnerMoves DEF Identify
  <2> QED
    BY <1>12, <2>2, InstallUntouched DEF Identify, OwnerInv
<1> QED
  BY <1>1, <1>2, <1>3, <1>4, <1>5, <1>6, <1>7, <1>8, <1>9, <1>10, <1>11,
     <1>12 DEF Install

LEMMA OwnerInit == Init => OwnerInv
BY NoDirIsDir DEF Init, OwnerInv, InstalledIsComplete, DistinctTags, Live,
   FileIsStream, StagingIsArchive, ContentVerified, InstallIsDir

LEMMA OwnerNext ==
    ASSUME ~SharedIds
    PROVE  TypeOK /\ OwnerInv /\ [Next]_vars => OwnerInv'
<1> SUFFICES ASSUME TypeOK, OwnerInv, [Next]_vars PROVE OwnerInv'
  OBVIOUS
<1> USE DEF OwnerInv, InstalledIsComplete, DistinctTags, Live, FileIsStream,
            StagingIsArchive, ContentVerified, InstallIsDir, Goto, volume, disk
<1>1. CASE UNCHANGED vars
  BY <1>1 DEF vars
<1>2. ASSUME NEW p \in Replicas, Start(p)
      PROVE  OwnerInv'
  BY <1>2 DEF Start, TypeOK
<1>3. ASSUME NEW p \in Replicas, Crash(p)
      PROVE  OwnerInv'
  BY <1>3 DEF Crash, TypeOK
<1> QED
  BY <1>1, <1>2, <1>3, OwnerStep DEF Next

LEMMA OwnerInvariance ==
    ASSUME ~SharedIds
    PROVE  Spec => []OwnerInv
<1>1. ArchiveInv /\ OwnerInv /\ [Next]_vars => OwnerInv'
  BY OwnerNext DEF ArchiveInv
<1> QED
  BY <1>1, OwnerInit, ArchiveInvariance, PTL DEF Spec

(* Whatever is killed and whoever else installs, the install directory is  *)
(* whole and from one archive, or not there (browser_archive.rs:124-129):  *)
(* every replica renames a directory that only it has written, unpacked    *)
(* from a file that only it has written.  With equal process ids this      *)
(* fails, as the run MCArchiveSharedIds shows.                             *)
THEOREM InstalledIsWhole ==
    ASSUME ~SharedIds
    PROVE  Spec => []InstalledIsComplete
<1>1. OwnerInv => InstalledIsComplete
  BY DEF OwnerInv
<1> QED
  BY <1>1, OwnerInvariance, PTL

(* What a start with a checksum installs has this checksum, although it    *)
(* hashes a stream and unpacks a file (browser_archive.rs:101-116).        *)
THEOREM InstallIsVerified ==
    ASSUME ~SharedIds
    PROVE  Spec => InstallVerified
<1>1. ASSUME OwnerInv, NEW p \in Replicas, Rename(p), install' # install,
             expected[p] = "good"
      PROVE  \A f \in install'.files : f[2] = "good"
  <2>1. install' = staging[tag[p]] /\ content[p] = "good"
    BY <1>1 DEF Rename, OwnerInv, ContentVerified
  <2>2. staging[tag[p]].files = {<<"chrome", "good">>, <<"libs", "good">>}
    BY <1>1, <2>1 DEF Rename, OwnerInv, StagingIsArchive
  <2> QED
    BY <2>1, <2>2
<1>2. OwnerInv /\ [Next]_vars =>
         [\A p \in Replicas :
             Rename(p) /\ install' # install /\ expected[p] = "good"
                => \A f \in install'.files : f[2] = "good"]_vars
  BY <1>1
<1> QED
  BY <1>2, OwnerInvariance, PTL DEF Spec, InstallVerified
=============================================================================
