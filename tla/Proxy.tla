------------------------------- MODULE Proxy -------------------------------
(***************************************************************************)
(* The relay of one session (proxy.rs): a single task that moves WebSocket *)
(* frames between the client and Chromium until one side ends, the session *)
(* timeout fires or the server cancels it, and then says goodbye to both.  *)
(*                                                                         *)
(* Text, binary, ping and pong frames are treated alike; such a frame is   *)
(* the number Data gives it in its direction.  A Close frame is its code,  *)
(* a number below those.  The sockets are FIFO buffers of Window frames: a *)
(* send waits for room, and fails on a socket that is lost or closing,     *)
(* where tungstenite refuses it.                                           *)
(***************************************************************************)
EXTENDS Integers, Sequences, SequencesExt

CONSTANTS MaxFrames,    \* bound on the frames each side sends
          Window,       \* frames a socket buffers before a send blocks
          PeerCodes     \* Close codes the two sides use

ASSUME ProxyAssumption == /\ MaxFrames \in Nat
                          /\ Window \in Nat \ {0}
                          /\ PeerCodes \subseteq 1000 .. 4999

VARIABLES pc,           \* where the relay task is
          held,         \* the frame it is sending
          from,         \* the side that frame, or the end, came from
          reason,       \* why the loop ended
          inbox,        \* frames sent by each side and not read by the relay
          outbox,       \* frames sent by the relay and not read by that side
          got,          \* frames each side has read
          sent,         \* number of frames each side has sent
          peer,         \* state of each side
          expired,      \* CONNECTION_TIMEOUT_MS has passed
          cancelled     \* session_cancel is cancelled

relayVars == <<pc, held, from, reason>>
stops == <<expired, cancelled>>
vars == <<relayVars, inbox, outbox, got, sent, peer, stops>>

Sides == {"client", "chromium"}
Other(s) == IF s = "client" THEN "chromium" ELSE "client"
PC == {"select", "send", "closeClient", "closeUpstream", "done"}
Reasons == {"none", "ClientDisconnected", "ClientError", "ChromiumClosed",
            "ChromiumError", "SessionTimeout", "ServerShutdown"}

Data(n) == 4999 + n
IsClose(frame) == frame < 5000
Delivered(s) == got[s] \o outbox[s]
Room(s) == Len(outbox[s]) < Window

(* s has closed the connection, or it is lost; s has sent what the relay   *)
(* cannot read, or the connection is lost.                                 *)
HasClosed(s) == peer[s] \in {"closing", "gone"}
HasFailed(s) == peer[s] \in {"broken", "gone"}

(* The relay has sent a Close to s, or read the Close of s, its last frame. *)
Closing(s) ==
    \/ \E i \in DOMAIN Delivered(s) : IsClose(Delivered(s)[i])
    \/ peer[s] = "closing" /\ inbox[s] = <<>>

Init ==
    /\ pc = "select" /\ held = 0 /\ from = "client" /\ reason = "none"
    /\ inbox = [s \in Sides |-> <<>>]
    /\ outbox = [s \in Sides |-> <<>>]
    /\ got = [s \in Sides |-> <<>>]
    /\ sent = [s \in Sides |-> 0]
    /\ peer = [s \in Sides |-> "open"]
    /\ expired = FALSE /\ cancelled = FALSE

-----------------------------------------------------------------------------
(* The two sides and the two timers.                                       *)

PeerSends(s) ==
    /\ peer[s] = "open"
    /\ sent[s] < MaxFrames
    /\ Len(inbox[s]) < Window
    /\ sent' = [sent EXCEPT ![s] = @ + 1]
    /\ inbox' = [inbox EXCEPT ![s] = Append(@, Data(sent[s] + 1))]
    /\ UNCHANGED <<relayVars, outbox, got, peer, stops>>

PeerCloses(s) ==
    /\ peer[s] = "open"
    /\ Len(inbox[s]) < Window
    /\ \E code \in PeerCodes : inbox' = [inbox EXCEPT ![s] = Append(@, code)]
    /\ peer' = [peer EXCEPT ![s] = "closing"]
    /\ UNCHANGED <<relayVars, outbox, got, sent, stops>>

(* A frame or message beyond the caps of server.rs:179-181, 204-205, or    *)
(* against the protocol: the relay will get an error from a connection     *)
(* that lives on.                                                          *)
PeerOffends(s) ==
    /\ peer[s] = "open"
    /\ peer' = [peer EXCEPT ![s] = "broken"]
    /\ UNCHANGED <<relayVars, inbox, outbox, got, sent, stops>>

(* The connection is lost, perhaps with the last frames on it.             *)
PeerFails(s) ==
    /\ peer[s] # "gone"
    /\ peer' = [peer EXCEPT ![s] = "gone"]
    /\ \E n \in 0 .. Len(inbox[s]) :
          inbox' = [inbox EXCEPT ![s] = SubSeq(@, 1, n)]
    /\ UNCHANGED <<relayVars, outbox, got, sent, stops>>

PeerReads(s) ==
    /\ peer[s] # "gone"
    /\ outbox[s] # <<>>
    /\ got' = [got EXCEPT ![s] = Append(@, Head(outbox[s]))]
    /\ outbox' = [outbox EXCEPT ![s] = Tail(@)]
    /\ UNCHANGED <<relayVars, inbox, sent, peer, stops>>

Expire ==
    /\ ~expired /\ expired' = TRUE
    /\ UNCHANGED <<relayVars, inbox, outbox, got, sent, peer, cancelled>>

Cancel ==
    /\ ~cancelled /\ cancelled' = TRUE
    /\ UNCHANGED <<relayVars, inbox, outbox, got, sent, peer, expired>>

-----------------------------------------------------------------------------
(* The relay task.                                                         *)

Break(why) == reason' = why /\ pc' = "closeClient" /\ held' = 0

(* A ready branch of the select: the next frame of one side ...            *)
ReadFrom(s) ==
    /\ pc = "select"
    /\ inbox[s] # <<>>
    /\ held' = Head(inbox[s])
    /\ inbox' = [inbox EXCEPT ![s] = Tail(@)]
    /\ from' = s
    /\ pc' = "send"
    /\ UNCHANGED <<reason, outbox, got, sent, peer, stops>>

(* ... its end, with an error or without ...                               *)
StreamEnds(s) ==
    /\ pc = "select"
    /\ HasFailed(s) /\ inbox[s] = <<>>
    /\ \/ Break(IF s = "client" THEN "ClientError" ELSE "ChromiumError")
       \/ /\ peer[s] = "gone"
          /\ Break(IF s = "client" THEN "ClientDisconnected" ELSE "ChromiumClosed")
    /\ UNCHANGED <<from, inbox, outbox, got, sent, peer, stops>>

(* ... or one of the two stops.                                            *)
StopBetweenFrames ==
    /\ pc = "select"
    /\ \/ expired /\ Break("SessionTimeout")
       \/ cancelled /\ Break("ServerShutdown")
    /\ UNCHANGED <<from, inbox, outbox, got, sent, peer, stops>>

(* Mutant: the relay drops a frame it cannot send at once.                 *)
SendHeldOrDrop ==
    /\ pc = "send"
    /\ IF Room(Other(from))
       THEN outbox' = [outbox EXCEPT ![Other(from)] = Append(@, held)]
       ELSE UNCHANGED outbox
    /\ pc' = "select" /\ held' = 0
    /\ UNCHANGED <<from, reason, inbox, got, sent, peer, stops>>

(* The frame is sent to the other side, and nothing else happens before    *)
(* it is: the loop neither reads nor looks at its timeout here.            *)
SendHeld ==
    /\ pc = "send"
    /\ \/ /\ Room(Other(from))
          /\ outbox' = [outbox EXCEPT ![Other(from)] = Append(@, held)]
          /\ \/ ~IsClose(held) /\ pc' = "select" /\ held' = 0 /\ UNCHANGED reason
             \/ IsClose(held) /\ from = "client" /\ Break("ClientDisconnected")
             \/ IsClose(held) /\ from = "chromium" /\ Break("ChromiumClosed")
       \/ /\ peer[Other(from)] = "gone"
          /\ \/ from = "client" /\ Break("ChromiumError")
             \/ from = "chromium" /\ Break("ClientDisconnected")
          /\ UNCHANGED outbox
    /\ UNCHANGED <<from, inbox, got, sent, peer, stops>>

(* Mutant: the codes of a failure and of a stop are swapped.               *)
CloseCodeSwapped(why) ==
    CASE why = "ChromiumClosed" -> 1000
      [] why \in {"SessionTimeout", "ServerShutdown"} -> 1011
      [] why = "ChromiumError" -> 1001
      [] OTHER -> 0

(* 0 stands for no Close frame at all.                                     *)
CloseCode(why) ==
    CASE why = "ChromiumClosed" -> 1000
      [] why \in {"SessionTimeout", "ServerShutdown"} -> 1001
      [] why = "ChromiumError" -> 1011
      [] OTHER -> 0

(* Mutant: the Close frame is pushed out although there is no room.        *)
SayCloseAnyway(s, code) ==
    outbox' = IF Closing(s) THEN outbox ELSE [outbox EXCEPT ![s] = Append(@, code)]

(* Mutant: the Close frame is written past the socket's own state.         *)
SayCloseAgain(s, code) ==
    IF Room(s) THEN outbox' = [outbox EXCEPT ![s] = Append(@, code)]
               ELSE UNCHANGED outbox

(* A Close frame, given up after a second (half a second for Chromium)     *)
(* when there is no room, or at once when the socket refuses it.           *)
SayClose(s, code) ==
    \/ /\ Room(s) /\ ~Closing(s)
       /\ outbox' = [outbox EXCEPT ![s] = Append(@, code)]
    \/ /\ ~Room(s) \/ Closing(s) \/ HasFailed(s)
       /\ UNCHANGED outbox

(* Mutant: the Close frame waits for the client, however long.             *)
CloseClientPatient ==
    /\ pc = "closeClient"
    /\ Room("client") \/ peer["client"] = "gone"
    /\ SayClose("client", 1001)
    /\ pc' = "closeUpstream"
    /\ UNCHANGED <<held, from, reason, inbox, got, sent, peer, stops>>

CloseClient ==
    /\ pc = "closeClient"
    /\ IF CloseCode(reason) # 0
       THEN SayClose("client", CloseCode(reason)) ELSE UNCHANGED outbox
    /\ pc' = "closeUpstream"
    /\ UNCHANGED <<held, from, reason, inbox, got, sent, peer, stops>>

(* Close(None): 1005 means no code.                                        *)
CloseUpstream ==
    /\ pc = "closeUpstream"
    /\ SayClose("chromium", 1005)
    /\ pc' = "done"
    /\ UNCHANGED <<held, from, reason, inbox, got, sent, peer, stops>>

Ended == pc = "done" /\ UNCHANGED vars

Relay ==
    \/ \E s \in Sides : ReadFrom(s) \/ StreamEnds(s)
    \/ StopBetweenFrames \/ SendHeld \/ CloseClient \/ CloseUpstream

Environment ==
    \/ \E s \in Sides :
          PeerSends(s) \/ PeerCloses(s) \/ PeerOffends(s) \/ PeerFails(s) \/ PeerReads(s)
    \/ Expire \/ Cancel

Next == Relay \/ Environment \/ Ended

Spec == Init /\ [][Next]_vars

(* The task goes on whenever it can, and select, which polls its branches  *)
(* in random order, does not pass over a stop for ever.                    *)
FairSpec == Spec /\ WF_vars(Relay) /\ SF_vars(StopBetweenFrames)

(* Both sides read what they are sent; nothing in the code makes them.     *)
SidesRead == \A s \in Sides : WF_vars(PeerReads(s))

-----------------------------------------------------------------------------
Codes == PeerCodes \cup {1000, 1001, 1005, 1011}
Frames == {Data(n) : n \in 1 .. MaxFrames} \cup Codes
Numbered(n) == [i \in 1 .. n |-> Data(i)]

(* What s has sent, from what the other side has read of it to what the    *)
(* relay has not read yet.                                                 *)
Held(s) == IF pc = "send" /\ from = s THEN <<held>> ELSE <<>>
Flow(s) == Delivered(Other(s)) \o (Held(s) \o inbox[s])

(* Every variable keeps its type, and a reason means the loop has ended.   *)
TypeOK ==
    /\ pc \in PC
    /\ held \in Frames \cup {0}
    /\ from \in Sides
    /\ reason \in Reasons
    /\ inbox \in [Sides -> Seq(Frames)]
    /\ outbox \in [Sides -> Seq(Frames)]
    /\ got \in [Sides -> Seq(Frames)]
    /\ \A s \in Sides : Len(inbox[s]) <= Window /\ Len(outbox[s]) <= Window
    /\ sent \in [Sides -> 0 .. MaxFrames]
    /\ peer \in [Sides -> {"open", "closing", "broken", "gone"}]
    /\ expired \in BOOLEAN /\ cancelled \in BOOLEAN
    /\ held # 0 <=> pc = "send"
    /\ reason # "none" <=> pc \notin {"select", "send"}

(* README.md:43, proxy.rs:90-94: while the relay runs, every frame a side  *)
(* sent on a live connection, its Close included, has reached the other    *)
(* side's socket, is being sent, or has not been read yet, once each and   *)
(* in the order sent, however slowly either side reads, and whatever it    *)
(* sends after them that the relay cannot read.                            *)
NothingLost ==
    \A s \in Sides :
        reason = "none" =>
           /\ peer[s] \in {"open", "broken"} => Flow(s) = Numbered(sent[s])
           /\ peer[s] = "closing" =>
                 \E code \in PeerCodes : Flow(s) = Append(Numbered(sent[s]), code)

(* Nothing follows a Close frame on a socket, so that it is the last frame *)
(* and the only Close a side ever sees (proxy.rs:115-117, 130-132).        *)
CloseIsLast ==
    \A s \in Sides : \A i \in DOMAIN Delivered(s) :
        IsClose(Delivered(s)[i]) => i = Len(Delivered(s))

(* README.md:79: the client is told 1001 only after a stop; 1011, which    *)
(* that line calls a Chromium error, only when Chromium's connection is    *)
(* lost or Chromium has sent what the relay cannot read; anything else     *)
(* only when Chromium has closed the connection or it is lost.             *)
CloseCodesTrue ==
    \A i \in DOMAIN Delivered("client") :
        LET code == Delivered("client")[i]
        IN  IsClose(code) =>
               \/ code \in PeerCodes \cup {1000} /\ HasClosed("chromium")
               \/ code = 1001 /\ (expired \/ cancelled)
               \/ code = 1011 /\ HasFailed("chromium")

(* main.rs:69-70, proxy.rs:150-168: a session that times out or is         *)
(* cancelled ends, if both sides read, and once it has left its loop the   *)
(* two goodbyes end, whatever the sides do.                                *)
StopEndsSession ==
    /\ SidesRead => (expired \/ cancelled ~> pc = "done")
    /\ pc = "closeClient" ~> pc = "done"

(* .env.example:18, README.md:92: CONNECTION_TIMEOUT_MS is the maximum     *)
(* lifetime of an active session.                                          *)
LifetimeBounded == expired ~> pc = "done"
=============================================================================
