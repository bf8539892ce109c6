---------------------------- MODULE ProxyProofs ----------------------------
(***************************************************************************)
(* The relay delivers what it reads, whole and in order, and says goodbye  *)
(* once and truthfully, for every bound on the frames and on the sockets   *)
(* and for every set of codes that the two sides close with.               *)
(***************************************************************************)
EXTENDS Proxy, SequenceLemmas

(* A Close frame that the relay has not passed on yet is one of the codes  *)
(* of a side that has closed.                                              *)
CloseIsSent ==
    /\ \A s \in Sides : \A i \in DOMAIN inbox[s] :
          IsClose(inbox[s][i]) => inbox[s][i] \in PeerCodes /\ HasClosed(s)
    /\ pc = "send" /\ IsClose(held) => held \in PeerCodes /\ HasClosed(from)

(* While the loop runs, no side has been sent a Close frame.               *)
NoCloseYet ==
    reason = "none" =>
        \A s \in Sides : \A i \in DOMAIN Delivered(s) : ~IsClose(Delivered(s)[i])

(* The reason the loop ended for is what happened.                         *)
ReasonIsTrue ==
    /\ reason = "ChromiumClosed" => HasClosed("chromium")
    /\ reason = "ChromiumError" => HasFailed("chromium")
    /\ reason = "SessionTimeout" => expired
    /\ reason = "ServerShutdown" => cancelled

(* The inductive invariant.                                                *)
ProxyInv ==
    /\ TypeOK
    /\ NothingLost
    /\ CloseIsSent /\ NoCloseYet /\ ReasonIsTrue
    /\ CloseIsLast
    /\ CloseCodesTrue

-----------------------------------------------------------------------------
(* What the relay's own operators return.                                  *)

LEMMA FrameFacts ==
    /\ Frames \subseteq Nat \ {0}
    /\ PeerCodes \subseteq Frames /\ \A code \in PeerCodes : IsClose(code)
    /\ {1000, 1001, 1005, 1011} \subseteq Frames
    /\ \A n \in 1 .. MaxFrames : Data(n) \in Frames /\ ~IsClose(Data(n))
<1>1. \A code \in Codes : code \in Nat \ {0} /\ code < 5000
  <2>1. \A code \in PeerCodes : code \in Nat \ {0} /\ code < 5000
    BY ProxyAssumption
  <2> QED
    BY <2>1 DEF Codes
<1>2. \A n \in 1 .. MaxFrames : Data(n) \in Nat \ {0} /\ ~IsClose(Data(n))
  BY ProxyAssumption DEF Data, IsClose
<1>3. \A frame \in Frames : frame \in Codes \/ \E n \in 1 .. MaxFrames : frame = Data(n)
  BY DEF Frames
<1>4. Frames \subseteq Nat \ {0}
  BY <1>1, <1>2, <1>3
<1>5. Codes \subseteq Frames /\ \A n \in 1 .. MaxFrames : Data(n) \in Frames
  BY DEF Frames
<1>6. \A code \in Codes : IsClose(code)
  BY <1>1 DEF IsClose
<1>7. PeerCodes \subseteq Codes /\ {1000, 1001, 1005, 1011} \subseteq Codes
  BY DEF Codes
<1> QED
  BY <1>2, <1>4, <1>5, <1>6, <1>7

LEMMA SideFacts ==
    /\ "client" \in Sides /\ "chromium" \in Sides
    /\ \A s \in Sides : Other(s) \in Sides /\ Other(s) # s /\ Other(Other(s)) = s
    /\ \A s, t \in Sides : t # s => t = Other(s)
  BY DEF Sides, Other

LEMMA BufferTypes ==
    ASSUME TypeOK, NEW s \in Sides
    PROVE  /\ inbox[s] \in Seq(Frames) /\ Len(inbox[s]) \in Nat
           /\ outbox[s] \in Seq(Frames) /\ Len(outbox[s]) \in Nat
           /\ got[s] \in Seq(Frames)
           /\ Held(s) \in Seq(Frames)
           /\ Delivered(s) \in Seq(Frames)
<1>1. inbox[s] \in Seq(Frames) /\ outbox[s] \in Seq(Frames) /\ got[s] \in Seq(Frames)
  BY DEF TypeOK
<1>2. Len(inbox[s]) \in Nat /\ Len(outbox[s]) \in Nat
  BY <1>1, LenProperties
<1>3. Delivered(s) \in Seq(Frames)
  BY <1>1, ConcatProperties DEF Delivered
<1>4. pc = "send" => held \in Frames
  BY FrameFacts DEF TypeOK
<1>5. Held(s) \in Seq(Frames)
  BY <1>4 DEF Held
<1> QED
  BY <1>1, <1>2, <1>3, <1>5

(* A frame that is sent to s is the last of what s has been sent.          *)
LEMMA SendDelivers ==
    ASSUME TypeOK, NEW s \in Sides, NEW frame \in Frames,
           outbox' = [outbox EXCEPT ![s] = Append(@, frame)], got' = got
    PROVE  /\ Delivered(s)' = Append(Delivered(s), frame)
           /\ \A t \in Sides : t # s => Delivered(t)' = Delivered(t)
<1>1. /\ outbox'[s] = Append(outbox[s], frame)
      /\ \A t \in Sides : t # s => outbox'[t] = outbox[t]
  BY DEF TypeOK
<1>2. got[s] \o Append(outbox[s], frame) = Append(got[s] \o outbox[s], frame)
  <2>1. \A g, o \in Seq(Frames) : g \o Append(o, frame) = Append(g \o o, frame)
    BY ConcatAppend
  <2> QED
    BY <2>1, BufferTypes, Zenon
<1> QED
  BY <1>1, <1>2 DEF Delivered

(* A side that reads changes where its frames are and not what they are.   *)
LEMMA ReadKeepsDelivered ==
    ASSUME TypeOK, NEW s \in Sides, PeerReads(s)
    PROVE  \A t \in Sides : Delivered(t)' = Delivered(t)
<1>1. /\ outbox[s] # <<>>
      /\ got'[s] = Append(got[s], Head(outbox[s])) /\ outbox'[s] = Tail(outbox[s])
      /\ \A t \in Sides : t # s => got'[t] = got[t] /\ outbox'[t] = outbox[t]
  BY DEF PeerReads, TypeOK
<1>2. Append(got[s], Head(outbox[s])) \o Tail(outbox[s]) = got[s] \o outbox[s]
  BY <1>1, BufferTypes, HeadMoves
<1> QED
  BY <1>1, <1>2 DEF Delivered

LEMMA KeepsDelivered ==
    ASSUME UNCHANGED <<outbox, got>>
    PROVE  \A s \in Sides : Delivered(s)' = Delivered(s)
  BY DEF Delivered

(* A goodbye is sent to a side that was sent none before, or not at all.   *)
LEMMA SayCloseEffect ==
    ASSUME NEW s \in Sides, NEW code \in Frames, SayClose(s, code)
    PROVE  \/ outbox' = outbox
           \/ /\ outbox' = [outbox EXCEPT ![s] = Append(@, code)] /\ Room(s)
              /\ \A i \in DOMAIN Delivered(s) : ~IsClose(Delivered(s)[i])
  BY DEF SayClose, Closing

LEMMA CloseCodeFacts ==
    CloseCode(reason) # 0 =>
        /\ CloseCode(reason) \in Frames
        /\ \/ reason = "ChromiumClosed" /\ CloseCode(reason) = 1000
           \/ reason \in {"SessionTimeout", "ServerShutdown"} /\ CloseCode(reason) = 1001
           \/ reason = "ChromiumError" /\ CloseCode(reason) = 1011
  BY FrameFacts DEF CloseCode

-----------------------------------------------------------------------------
(* Every step keeps the types.                                             *)

LEMMA TypeInit == Init => TypeOK
<1> SUFFICES ASSUME Init PROVE TypeOK
  OBVIOUS
<1> DEFINE empty == [s \in Sides |-> <<>>]
<1>1. empty \in [Sides -> Seq(Frames)] /\ \A s \in Sides : Len(empty[s]) <= Window
  BY ProxyAssumption, EmptySeq
<1>2. inbox = empty /\ outbox = empty /\ got = empty
  BY DEF Init
<1> HIDE DEF empty
<1>3. /\ inbox \in [Sides -> Seq(Frames)] /\ outbox \in [Sides -> Seq(Frames)]
      /\ got \in [Sides -> Seq(Frames)]
      /\ \A s \in Sides : Len(inbox[s]) <= Window /\ Len(outbox[s]) <= Window
  BY <1>1, <1>2
<1>4. sent \in [Sides -> 0 .. MaxFrames]
  BY ProxyAssumption DEF Init
<1> QED
  BY <1>3, <1>4 DEF Init, TypeOK, PC, Reasons, Sides

(* A buffer of one side, replaced by another of its type.                  *)
LEMMA BufferReplaced ==
    ASSUME NEW f \in [Sides -> Seq(Frames)], NEW s \in Sides, NEW b \in Seq(Frames),
           Len(b) <= Window, \A t \in Sides : Len(f[t]) <= Window
    PROVE  /\ [f EXCEPT ![s] = b] \in [Sides -> Seq(Frames)]
           /\ \A t \in Sides : Len([f EXCEPT ![s] = b][t]) <= Window
  OBVIOUS

LEMMA SendKeepsOutbox ==
    ASSUME TypeOK, NEW s \in Sides, NEW frame \in Frames, Room(s)
    PROVE  LET next == [outbox EXCEPT ![s] = Append(@, frame)]
           IN  /\ next \in [Sides -> Seq(Frames)]
               /\ \A t \in Sides : Len(next[t]) <= Window
<1>1. Append(outbox[s], frame) \in Seq(Frames)
      /\ Len(Append(outbox[s], frame)) <= Window
  <2>1. Append(outbox[s], frame) \in Seq(Frames)
        /\ Len(Append(outbox[s], frame)) = Len(outbox[s]) + 1
    BY BufferTypes, AppendElements
  <2> QED
    BY <2>1, BufferTypes, ProxyAssumption DEF Room
<1> QED
  BY <1>1, BufferReplaced DEF TypeOK

LEMMA SentFacts ==
    ASSUME TypeOK, NEW s \in Sides, PeerSends(s)
    PROVE  sent[s] + 1 \in 1 .. MaxFrames /\ sent[s] + 1 \in 0 .. MaxFrames
<1>1. sent[s] \in 0 .. MaxFrames /\ sent[s] < MaxFrames
  BY DEF TypeOK, PeerSends
<1> QED
  BY <1>1, ProxyAssumption

LEMMA TypeNext == TypeOK /\ [Next]_vars => TypeOK'
<1> SUFFICES ASSUME TypeOK, [Next]_vars PROVE TypeOK'
  OBVIOUS
<1>1. ASSUME NEW s \in Sides, ReadFrom(s) PROVE TypeOK'
  <2>1. /\ Head(inbox[s]) \in Frames /\ Tail(inbox[s]) \in Seq(Frames)
        /\ Len(Tail(inbox[s])) <= Window
    <3>1. /\ Head(inbox[s]) \in Frames /\ Tail(inbox[s]) \in Seq(Frames)
          /\ Len(Tail(inbox[s])) = Len(inbox[s]) - 1
      BY <1>1, BufferTypes, TailElements DEF ReadFrom
    <3>2. Len(inbox[s]) <= Window
      BY DEF TypeOK
    <3> QED
      BY <3>1, <3>2, BufferTypes, ProxyAssumption
  <2>2. /\ inbox' \in [Sides -> Seq(Frames)]
        /\ \A t \in Sides : Len(inbox'[t]) <= Window
    BY <1>1, <2>1, BufferReplaced DEF ReadFrom, TypeOK
  <2> QED
    BY <1>1, <2>1, <2>2, FrameFacts DEF ReadFrom, TypeOK, PC, stops
<1>2. ASSUME NEW s \in Sides, StreamEnds(s) PROVE TypeOK'
  BY <1>2 DEF StreamEnds, Break, TypeOK, PC, Reasons, stops
<1>3. CASE StopBetweenFrames
  BY <1>3 DEF StopBetweenFrames, Break, TypeOK, PC, Reasons, stops
<1>4. CASE SendHeld
  <2>1. Other(from) \in Sides /\ held \in Frames
    BY <1>4, SideFacts, FrameFacts DEF SendHeld, TypeOK
  <2>2. /\ outbox' \in [Sides -> Seq(Frames)]
        /\ \A t \in Sides : Len(outbox'[t]) <= Window
    <3>1. CASE outbox' = outbox
      BY <3>1 DEF TypeOK
    <3>2. CASE /\ Room(Other(from))
               /\ outbox' = [outbox EXCEPT ![Other(from)] = Append(@, held)]
      BY <3>2, <2>1, SendKeepsOutbox
    <3> QED
      BY <1>4, <3>1, <3>2 DEF SendHeld
  <2>3. /\ pc' \in {"select", "closeClient"} /\ held' = 0 /\ reason' \in Reasons
        /\ reason' # "none" <=> pc' = "closeClient"
    BY <1>4 DEF SendHeld, Break, TypeOK, Reasons
  <2> QED
    BY <1>4, <2>2, <2>3 DEF SendHeld, TypeOK, PC, stops
<1>5. CASE CloseClient
  <2>1. /\ outbox' \in [Sides -> Seq(Frames)]
        /\ \A t \in Sides : Len(outbox'[t]) <= Window
    <3>1. CASE outbox' = outbox
      BY <3>1 DEF TypeOK
    <3>2. CASE outbox' # outbox
      <4>1. /\ CloseCode(reason) \in Frames /\ Room("client")
            /\ outbox' = [outbox EXCEPT !["client"] = Append(@, CloseCode(reason))]
        BY <1>5, <3>2, SayCloseEffect, SideFacts, CloseCodeFacts DEF CloseClient
      <4> QED
        BY <4>1, SideFacts, SendKeepsOutbox
    <3> QED
      BY <3>1, <3>2
  <2> QED
    BY <1>5, <2>1 DEF CloseClient, TypeOK, PC, stops
<1>6. CASE CloseUpstream
  <2>1. /\ outbox' \in [Sides -> Seq(Frames)]
        /\ \A t \in Sides : Len(outbox'[t]) <= Window
    <3>1. CASE outbox' = outbox
      BY <3>1 DEF TypeOK
    <3>2. CASE outbox' # outbox
      <4>1. /\ 1005 \in Frames /\ Room("chromium")
            /\ outbox' = [outbox EXCEPT !["chromium"] = Append(@, 1005)]
        BY <1>6, <3>2, SayCloseEffect, SideFacts, FrameFacts DEF CloseUpstream
      <4> QED
        BY <4>1, SideFacts, SendKeepsOutbox
    <3> QED
      BY <3>1, <3>2
  <2> QED
    BY <1>6, <2>1 DEF CloseUpstream, TypeOK, PC, stops
<1>7. ASSUME NEW s \in Sides, PeerSends(s) \/ PeerCloses(s) PROVE TypeOK'
  <2>1. PICK frame \in Frames : inbox' = [inbox EXCEPT ![s] = Append(@, frame)]
    <3>1. CASE PeerSends(s)
      <4>1. Data(sent[s] + 1) \in Frames
        BY <3>1, SentFacts, FrameFacts
      <4> QED
        BY <3>1, <4>1 DEF PeerSends
    <3>2. CASE PeerCloses(s)
      <4>1. PICK code \in PeerCodes : inbox' = [inbox EXCEPT ![s] = Append(@, code)]
        BY <3>2 DEF PeerCloses
      <4>2. code \in Frames
        BY FrameFacts
      <4> QED
        BY <4>1, <4>2, Zenon
    <3> QED
      BY <1>7, <3>1, <3>2
  <2>2. Append(inbox[s], frame) \in Seq(Frames)
        /\ Len(Append(inbox[s], frame)) <= Window
    <3>1. Append(inbox[s], frame) \in Seq(Frames)
          /\ Len(Append(inbox[s], frame)) = Len(inbox[s]) + 1
      BY BufferTypes, AppendElements
    <3> QED
      BY <1>7, <3>1, BufferTypes, ProxyAssumption DEF PeerSends, PeerCloses
  <2>3. /\ inbox' \in [Sides -> Seq(Frames)]
        /\ \A t \in Sides : Len(inbox'[t]) <= Window
    BY <2>1, <2>2, BufferReplaced DEF TypeOK
  <2>4. CASE PeerSends(s)
    <3>1. sent' \in [Sides -> 0 .. MaxFrames]
      BY <2>4, SentFacts DEF PeerSends, TypeOK
    <3> QED
      BY <2>3, <2>4, <3>1 DEF PeerSends, TypeOK, relayVars, stops
  <2>5. CASE PeerCloses(s)
    BY <2>3, <2>5 DEF PeerCloses, TypeOK, relayVars, stops
  <2> QED
    BY <1>7, <2>4, <2>5
<1>8. ASSUME NEW s \in Sides, PeerFails(s) PROVE TypeOK'
  <2>1. PICK n \in 0 .. Len(inbox[s]) :
           inbox' = [inbox EXCEPT ![s] = SubSeq(@, 1, n)]
    BY <1>8 DEF PeerFails
  <2>2. SubSeq(inbox[s], 1, n) \in Seq(Frames) /\ Len(SubSeq(inbox[s], 1, n)) <= Window
    <3>1. /\ SubSeq(inbox[s], 1, n) \in Seq(Frames)
          /\ Len(SubSeq(inbox[s], 1, n)) <= Len(inbox[s])
      BY BufferTypes, PrefixElements
    <3>2. Len(inbox[s]) <= Window /\ Len(SubSeq(inbox[s], 1, n)) \in Nat
      BY <3>1, LenProperties DEF TypeOK
    <3>3. Window \in Nat /\ Len(inbox[s]) \in Nat
      BY BufferTypes, ProxyAssumption
    <3> QED
      BY <3>1, <3>2, <3>3
  <2>3. /\ inbox' \in [Sides -> Seq(Frames)]
        /\ \A t \in Sides : Len(inbox'[t]) <= Window
    BY <2>1, <2>2, BufferReplaced DEF TypeOK
  <2> QED
    BY <1>8, <2>3 DEF PeerFails, TypeOK, relayVars, stops
<1>9. ASSUME NEW s \in Sides, PeerReads(s) PROVE TypeOK'
  <2>1. /\ Head(outbox[s]) \in Frames /\ Tail(outbox[s]) \in Seq(Frames)
        /\ Len(Tail(outbox[s])) <= Window
    <3>1. /\ Head(outbox[s]) \in Frames /\ Tail(outbox[s]) \in Seq(Frames)
          /\ Len(Tail(outbox[s])) = Len(outbox[s]) - 1
      BY <1>9, BufferTypes, TailElements DEF PeerReads
    <3>2. Len(outbox[s]) <= Window
      BY DEF TypeOK
    <3> QED
      BY <3>1, <3>2, BufferTypes, ProxyAssumption
  <2>2. /\ outbox' \in [Sides -> Seq(Frames)]
        /\ \A t \in Sides : Len(outbox'[t]) <= Window
    BY <1>9, <2>1, BufferReplaced DEF PeerReads, TypeOK
  <2>3. got' \in [Sides -> Seq(Frames)]
    BY <1>9, <2>1, BufferTypes, AppendProperties DEF PeerReads, TypeOK
  <2> QED
    BY <1>9, <2>2, <2>3 DEF PeerReads, TypeOK, relayVars, stops
<1>10. CASE Expire \/ Cancel
  BY <1>10 DEF Expire, Cancel, TypeOK, relayVars
<1>11. ASSUME NEW s \in Sides, PeerOffends(s) PROVE TypeOK'
  BY <1>11 DEF PeerOffends, TypeOK, relayVars, stops
<1>12. CASE UNCHANGED vars
  BY <1>12 DEF TypeOK, vars, relayVars, stops
<1> QED
  BY <1>1, <1>2, <1>3, <1>4, <1>5, <1>6, <1>7, <1>8, <1>9, <1>10, <1>11, <1>12
     DEF Next, Relay, Environment, Ended

-----------------------------------------------------------------------------
(* The loop passes every frame on.                                         *)

LEMMA NumberedTypes ==
    ASSUME NEW n \in 0 .. MaxFrames
    PROVE  /\ Numbered(n) \in Seq(Frames)
           /\ n + 1 \in 1 .. MaxFrames
                 => Numbered(n + 1) = Append(Numbered(n), Data(n + 1))
<1>1. n \in Nat /\ \A i \in 1 .. n : i \in 1 .. MaxFrames
  BY ProxyAssumption
<1>2. Numbered(n) \in Seq(Frames)
  BY <1>1, FrameFacts DEF Numbered
<1> QED
  <2> SUFFICES ASSUME n + 1 \in 1 .. MaxFrames
               PROVE  Numbered(n + 1) = Append(Numbered(n), Data(n + 1))
    BY <1>2
  <2> DEFINE s == Numbered(n + 1)  t == Append(Numbered(n), Data(n + 1))
  <2>1. n + 1 \in Nat /\ \A i \in 1 .. (n + 1) : Data(i) \in Frames
    BY ProxyAssumption, FrameFacts
  <2>2. s \in Seq(Frames) /\ Len(s) = n + 1 /\ \A i \in 1 .. (n + 1) : s[i] = Data(i)
    BY <2>1 DEF Numbered
  <2>3. Len(Numbered(n)) = n /\ \A i \in 1 .. n : Numbered(n)[i] = Data(i)
    BY <1>1 DEF Numbered
  <2>4. /\ t \in Seq(Frames) /\ Len(t) = n + 1
        /\ \A i \in 1 .. n : t[i] = Data(i)
        /\ t[n + 1] = Data(n + 1)
    BY <1>2, <2>1, <2>3, AppendProperties
  <2> HIDE DEF s, t
  <2>5. \A i \in 1 .. (n + 1) : s[i] = t[i]
    <3>1. \A i \in 1 .. (n + 1) : i \in 1 .. n \/ i = n + 1
      BY <1>1
    <3> QED
      BY <3>1, <2>2, <2>4
  <2>6. s = t
    BY <2>2, <2>4, <2>5, SeqEqual
  <2> QED
    BY <2>6 DEF s, t

(* A frame that s sends is the last of its flow.                           *)
LEMMA SendExtendsFlow ==
    ASSUME TypeOK, NEW s \in Sides, NEW frame \in Frames,
           inbox' = [inbox EXCEPT ![s] = Append(@, frame)],
           UNCHANGED <<relayVars, outbox, got>>
    PROVE  /\ Flow(s)' = Append(Flow(s), frame)
           /\ \A t \in Sides : t # s => Flow(t)' = Flow(t)
<1>1. /\ inbox'[s] = Append(inbox[s], frame)
      /\ \A t \in Sides : t # s => inbox'[t] = inbox[t]
  BY DEF TypeOK
<1>2. \A t \in Sides : Held(t)' = Held(t) /\ Delivered(Other(t))' = Delivered(Other(t))
  BY DEF Held, Delivered, relayVars
<1> DEFINE d == Delivered(Other(s))  h == Held(s)  b == inbox[s]
<1>3. d \in Seq(Frames) /\ h \in Seq(Frames) /\ b \in Seq(Frames)
  BY BufferTypes, SideFacts
<1> HIDE DEF d, h, b
<1>4. h \o b \in Seq(Frames)
  BY <1>3, ConcatProperties
<1>5. /\ h \o Append(b, frame) = Append(h \o b, frame)
      /\ d \o Append(h \o b, frame) = Append(d \o (h \o b), frame)
  <2>1. \A u, v \in Seq(Frames) : u \o Append(v, frame) = Append(u \o v, frame)
    BY ConcatAppend
  <2> QED
    BY <1>3, <1>4, <2>1, Zenon
<1>6. Flow(s)' = d \o (h \o Append(b, frame)) /\ Flow(s) = d \o (h \o b)
  BY <1>1, <1>2, Zenon DEF Flow, d, h, b
<1>7. \A t \in Sides : t # s => Flow(t)' = Flow(t)
  BY <1>1, <1>2 DEF Flow
<1> QED
  BY <1>5, <1>6, <1>7

(* The relay keeps every flow while its loop goes on.                      *)
LEMMA RelayKeepsFlow ==
    ASSUME TypeOK, (\E s \in Sides : ReadFrom(s)) \/ SendHeld, reason' = "none"
    PROVE  \A t \in Sides : Flow(t)' = Flow(t)
<1>1. ASSUME NEW s \in Sides, ReadFrom(s), NEW t \in Sides PROVE Flow(t)' = Flow(t)
  <2>1. Delivered(Other(t))' = Delivered(Other(t)) /\ Held(t) = <<>>
    BY <1>1 DEF ReadFrom, Delivered, Held
  <2>2. CASE t = s
    <3>1. /\ Held(t)' = <<Head(inbox[s])>> /\ inbox'[t] = Tail(inbox[s])
          /\ inbox[s] # <<>>
      BY <1>1, <2>2 DEF ReadFrom, Held, TypeOK
    <3>2. <<Head(inbox[s])>> \o Tail(inbox[s]) = inbox[s] /\ <<>> \o inbox[s] = inbox[s]
      BY <3>1, BufferTypes, HeadAndTail, ConcatEmptySeq
    <3> QED
      BY <2>1, <2>2, <3>1, <3>2 DEF Flow
  <2>3. CASE t # s
    <3>1. Held(t)' = <<>> /\ inbox'[t] = inbox[t]
      BY <1>1, <2>3 DEF ReadFrom, Held, TypeOK
    <3> QED
      BY <2>1, <3>1 DEF Flow
  <2> QED
    BY <2>2, <2>3
<1>2. ASSUME SendHeld, NEW t \in Sides PROVE Flow(t)' = Flow(t)
  <2>1. PICK s \in Sides : s = from
    BY DEF TypeOK
  <2>2. /\ pc = "send" /\ pc' = "select" /\ inbox' = inbox /\ got' = got
        /\ outbox' = [outbox EXCEPT ![Other(s)] = Append(@, held)]
    BY <1>2, <2>1 DEF SendHeld, Break
  <2>3. Other(s) \in Sides /\ held \in Frames
    BY <2>2, SideFacts, FrameFacts DEF TypeOK
  <2>4. /\ Delivered(Other(s))' = Append(Delivered(Other(s)), held)
        /\ \A u \in Sides : u # Other(s) => Delivered(u)' = Delivered(u)
    BY <2>2, <2>3, SendDelivers
  <2>5. Held(t)' = <<>>
    BY <2>2 DEF Held
  <2>6. CASE t = s
    <3> DEFINE d == Delivered(Other(s))  b == inbox[s]
    <3>1. Flow(t) = d \o (<<held>> \o b) /\ Flow(t)' = Append(d, held) \o (<<>> \o b)
      BY <2>1, <2>2, <2>4, <2>5, <2>6, Zenon DEF Flow, Held
    <3>2. d \in Seq(Frames) /\ b \in Seq(Frames) /\ <<held>> \in Seq(Frames)
      BY <2>3, BufferTypes
    <3> HIDE DEF d, b
    <3>3. <<>> \o b = b /\ Append(d, held) = d \o <<held>>
      BY <2>3, <3>2, ConcatEmptySeq, AppendIsConcat
    <3>4. (d \o <<held>>) \o b = d \o (<<held>> \o b)
      BY <3>2, ConcatAssociative
    <3> QED
      BY <3>1, <3>3, <3>4
  <2>7. CASE t # s
    <3>1. Other(t) \in Sides /\ Other(t) # Other(s)
      BY <2>7, SideFacts
    <3>2. Held(t) = <<>>
      BY <2>1, <2>7 DEF Held
    <3> QED
      BY <2>2, <2>4, <2>5, <3>1, <3>2 DEF Flow
  <2> QED
    BY <2>6, <2>7
<1> QED
  BY <1>1, <1>2

LEMMA LostNext == TypeOK /\ NothingLost /\ [Next]_vars => NothingLost'
<1> SUFFICES ASSUME TypeOK, NothingLost, [Next]_vars, reason' = "none", NEW s \in Sides
             PROVE  /\ peer'[s] \in {"open", "broken"} => Flow(s)' = Numbered(sent'[s])
                    /\ peer'[s] = "closing" =>
                          \E code \in PeerCodes :
                             Flow(s)' = Append(Numbered(sent'[s]), code)
  BY DEF NothingLost, Numbered
<1> DEFINE Goal == /\ peer'[s] \in {"open", "broken"} => Flow(s)' = Numbered(sent'[s])
                   /\ peer'[s] = "closing" =>
                         \E code \in PeerCodes :
                            Flow(s)' = Append(Numbered(sent'[s]), code)
<1> SUFFICES Goal
  OBVIOUS
<1> HIDE DEF Goal
<1>1. reason = "none"
  BY DEF Next, Relay, Environment, Ended, ReadFrom, StreamEnds, StopBetweenFrames,
         SendHeld, CloseClient, CloseUpstream, PeerSends, PeerCloses, PeerOffends,
         PeerFails, PeerReads, Expire, Cancel, Break, vars, relayVars
<1>2. /\ peer[s] \in {"open", "broken"} => Flow(s) = Numbered(sent[s])
      /\ peer[s] = "closing" =>
            \E code \in PeerCodes : Flow(s) = Append(Numbered(sent[s]), code)
  BY <1>1 DEF NothingLost
<1>3. ASSUME Flow(s)' = Flow(s), peer'[s] = peer[s], sent'[s] = sent[s] PROVE Goal
  BY <1>2, <1>3 DEF Goal
<1>4. CASE (\E t \in Sides : ReadFrom(t)) \/ SendHeld
  <2>1. Flow(s)' = Flow(s)
    BY <1>4, RelayKeepsFlow
  <2>2. peer' = peer /\ sent' = sent
    BY <1>4 DEF ReadFrom, SendHeld
  <2> QED
    BY <1>3, <2>1, <2>2
<1>5. CASE (\E t \in Sides : StreamEnds(t)) \/ StopBetweenFrames
  BY <1>5 DEF StreamEnds, StopBetweenFrames, Break
<1>6. CASE CloseClient \/ CloseUpstream
  BY <1>1, <1>6 DEF CloseClient, CloseUpstream, TypeOK
<1>7. ASSUME NEW t \in Sides, PeerSends(t) PROVE Goal
  <2>1. /\ Data(sent[t] + 1) \in Frames /\ sent[t] + 1 \in 1 .. MaxFrames
        /\ sent[t] \in 0 .. MaxFrames
    <3>1. sent[t] + 1 \in 1 .. MaxFrames
      BY <1>7, SentFacts
    <3>2. sent[t] \in 0 .. MaxFrames
      BY DEF TypeOK
    <3> QED
      BY <3>1, <3>2, FrameFacts
  <2>2. /\ Flow(t)' = Append(Flow(t), Data(sent[t] + 1))
        /\ s # t => Flow(s)' = Flow(s)
    <3>1. PICK frame \in Frames : frame = Data(sent[t] + 1)
      BY <2>1
    <3>2. inbox' = [inbox EXCEPT ![t] = Append(@, frame)]
      BY <1>7, <3>1 DEF PeerSends
    <3>3. Flow(t)' = Append(Flow(t), frame) /\ (s # t => Flow(s)' = Flow(s))
      BY <1>7, <3>2, SendExtendsFlow DEF PeerSends
    <3> QED
      BY <3>1, <3>3
  <2>3. CASE s = t
    <3>1. /\ peer'[s] = "open" /\ peer[s] = "open" /\ sent'[s] = sent[s] + 1
      BY <1>7, <2>3 DEF PeerSends, TypeOK
    <3>2. Numbered(sent[s] + 1) = Append(Numbered(sent[s]), Data(sent[s] + 1))
      BY <2>1, <2>3, NumberedTypes
    <3>3. Flow(s)' = Numbered(sent'[s])
      BY <1>2, <2>2, <2>3, <3>1, <3>2
    <3> QED
      BY <3>1, <3>3 DEF Goal
  <2>4. CASE s # t
    <3>1. peer'[s] = peer[s] /\ sent'[s] = sent[s]
      BY <1>7, <2>4 DEF PeerSends, TypeOK
    <3> QED
      BY <1>3, <2>2, <2>4, <3>1
  <2> QED
    BY <2>3, <2>4
<1>8. ASSUME NEW t \in Sides, PeerCloses(t) PROVE Goal
  <2>1. PICK code \in PeerCodes : inbox' = [inbox EXCEPT ![t] = Append(@, code)]
    BY <1>8 DEF PeerCloses
  <2>2. code \in Frames
    BY FrameFacts
  <2>3. Flow(t)' = Append(Flow(t), code) /\ (s # t => Flow(s)' = Flow(s))
    BY <1>8, <2>1, <2>2, SendExtendsFlow DEF PeerCloses
  <2>4. CASE s = t
    <3>1. /\ peer'[s] = "closing" /\ peer[s] = "open" /\ sent'[s] = sent[s]
      BY <1>8, <2>4 DEF PeerCloses, TypeOK
    <3>2. Flow(s)' = Append(Numbered(sent'[s]), code)
      BY <1>2, <2>3, <2>4, <3>1
    <3> QED
      BY <3>1, <3>2 DEF Goal
  <2>5. CASE s # t
    <3>1. peer'[s] = peer[s] /\ sent'[s] = sent[s]
      BY <1>8, <2>5 DEF PeerCloses, TypeOK
    <3> QED
      BY <1>3, <2>3, <2>5, <3>1
  <2> QED
    BY <2>4, <2>5
<1>9. ASSUME NEW t \in Sides, PeerFails(t) PROVE Goal
  <2>1. CASE s = t
    <3>1. peer'[s] = "gone"
      BY <1>9, <2>1 DEF PeerFails, TypeOK
    <3> QED
      BY <3>1 DEF Goal
  <2>2. CASE s # t
    <3>1. peer'[s] = peer[s] /\ sent'[s] = sent[s] /\ inbox'[s] = inbox[s]
      BY <1>9, <2>2 DEF PeerFails, TypeOK
    <3>2. Delivered(Other(s))' = Delivered(Other(s)) /\ Held(s)' = Held(s)
      BY <1>9 DEF PeerFails, Delivered, Held, relayVars
    <3> QED
      BY <1>3, <3>1, <3>2 DEF Flow
  <2> QED
    BY <2>1, <2>2
<1>10. ASSUME NEW t \in Sides, PeerReads(t) PROVE Goal
  <2>1. Delivered(Other(s))' = Delivered(Other(s))
    BY <1>10, ReadKeepsDelivered, SideFacts
  <2>2. /\ Held(s)' = Held(s) /\ inbox'[s] = inbox[s]
        /\ peer'[s] = peer[s] /\ sent'[s] = sent[s]
    BY <1>10 DEF PeerReads, Held, relayVars
  <2> QED
    BY <1>3, <2>1, <2>2 DEF Flow
<1>11. ASSUME NEW t \in Sides, PeerOffends(t) PROVE Goal
  <2>1. Flow(s)' = Flow(s) /\ sent' = sent
    BY <1>11 DEF PeerOffends, Flow, Delivered, Held, relayVars
  <2>2. \/ peer'[s] = peer[s]
        \/ peer[s] = "open" /\ peer'[s] = "broken"
    BY <1>11 DEF PeerOffends, TypeOK
  <2> QED
    BY <1>2, <1>3, <2>1, <2>2 DEF Goal
<1>12. CASE Expire \/ Cancel \/ UNCHANGED vars
  <2>1. UNCHANGED <<relayVars, inbox, outbox, got, sent, peer>>
    BY <1>12 DEF Expire, Cancel, vars
  <2>2. Flow(s)' = Flow(s)
    BY <2>1 DEF Flow, Delivered, Held, relayVars
  <2> QED
    BY <1>3, <2>1, <2>2
<1> QED
  BY <1>4, <1>5, <1>6, <1>7, <1>8, <1>9, <1>10, <1>11, <1>12
     DEF Next, Relay, Environment, Ended

-----------------------------------------------------------------------------
(* The relay invents no Close frame and no reason.                         *)

LEMMA CloseSentNext == TypeOK /\ CloseIsSent /\ [Next]_vars => CloseIsSent'
<1> SUFFICES ASSUME TypeOK, CloseIsSent, [Next]_vars PROVE CloseIsSent'
  OBVIOUS
<1> DEFINE Sent(t) == \A i \in DOMAIN inbox[t] :
              IsClose(inbox[t][i]) => inbox[t][i] \in PeerCodes /\ HasClosed(t)
           HeldSent == pc = "send" /\ IsClose(held) =>
                           held \in PeerCodes /\ HasClosed(from)
<1>1. CloseIsSent <=> (\A t \in Sides : Sent(t)) /\ HeldSent
  BY DEF CloseIsSent
<1>2. CloseIsSent' <=> (\A t \in Sides : Sent(t)') /\ HeldSent'
  BY DEF CloseIsSent
<1>3. ASSUME NEW t \in Sides, inbox'[t] = inbox[t], HasClosed(t) => HasClosed(t)'
      PROVE  Sent(t)'
  BY <1>1, <1>3
<1>4. ASSUME UNCHANGED <<pc, held, from>>, \A t \in Sides : HasClosed(t) => HasClosed(t)'
      PROVE  HeldSent'
  BY <1>1, <1>4 DEF TypeOK
<1> HIDE DEF Sent, HeldSent
<1>5. ASSUME NEW s \in Sides, ReadFrom(s) PROVE CloseIsSent'
  <2>1. /\ inbox[s] # <<>> /\ inbox'[s] = Tail(inbox[s]) /\ held' = Head(inbox[s])
        /\ from' = s /\ peer' = peer
        /\ \A t \in Sides : t # s => inbox'[t] = inbox[t]
    BY <1>5 DEF ReadFrom, TypeOK
  <2>2. /\ 1 \in DOMAIN inbox[s] /\ Head(inbox[s]) = inbox[s][1]
        /\ \A i \in DOMAIN Tail(inbox[s]) :
              i + 1 \in DOMAIN inbox[s] /\ Tail(inbox[s])[i] = inbox[s][i + 1]
    BY <2>1, BufferTypes, TailElements
  <2>3. Sent(s)' /\ HeldSent'
    BY <1>1, <2>1, <2>2 DEF Sent, HeldSent, HasClosed
  <2>4. \A t \in Sides : t # s => Sent(t)'
    BY <1>3, <2>1 DEF HasClosed
  <2> QED
    BY <1>2, <2>3, <2>4
<1>6. CASE (\E s \in Sides : StreamEnds(s)) \/ StopBetweenFrames \/ SendHeld
           \/ CloseClient \/ CloseUpstream
  <2>1. inbox' = inbox /\ peer' = peer /\ pc' # "send"
    BY <1>6 DEF StreamEnds, StopBetweenFrames, SendHeld, CloseClient, CloseUpstream,
                Break
  <2> QED
    BY <1>2, <1>3, <2>1 DEF HeldSent, HasClosed
<1>7. ASSUME NEW s \in Sides, PeerSends(s) \/ PeerCloses(s) PROVE CloseIsSent'
  <2>1. PICK frame \in Frames :
           /\ inbox' = [inbox EXCEPT ![s] = Append(@, frame)]
           /\ IsClose(frame) => frame \in PeerCodes /\ HasClosed(s)'
    <3>1. CASE PeerSends(s)
      <4>1. Data(sent[s] + 1) \in Frames /\ ~IsClose(Data(sent[s] + 1))
        BY <3>1, SentFacts, FrameFacts
      <4> QED
        BY <3>1, <4>1 DEF PeerSends
    <3>2. CASE PeerCloses(s)
      <4>1. PICK code \in PeerCodes : inbox' = [inbox EXCEPT ![s] = Append(@, code)]
        BY <3>2 DEF PeerCloses
      <4>2. code \in Frames /\ HasClosed(s)'
        BY <3>2, FrameFacts DEF PeerCloses, HasClosed, TypeOK
      <4> QED
        BY <4>1, <4>2, Zenon
    <3> QED
      BY <1>7, <3>1, <3>2
  <2>2. /\ inbox'[s] = Append(inbox[s], frame)
        /\ \A t \in Sides : t # s => inbox'[t] = inbox[t]
    BY <2>1 DEF TypeOK
  <2>3. \A t \in Sides : HasClosed(t) => HasClosed(t)'
    BY <1>7 DEF PeerSends, PeerCloses, HasClosed, TypeOK
  <2>4. \A i \in DOMAIN Append(inbox[s], frame) :
           \/ i \in DOMAIN inbox[s] /\ Append(inbox[s], frame)[i] = inbox[s][i]
           \/ Append(inbox[s], frame)[i] = frame
    BY BufferTypes, AppendElements
  <2>5. Sent(s)'
    BY <1>1, <2>1, <2>2, <2>3, <2>4 DEF Sent
  <2>6. \A t \in Sides : t # s => Sent(t)'
    BY <1>3, <2>2, <2>3
  <2>7. HeldSent'
    BY <1>4, <1>7, <2>3 DEF PeerSends, PeerCloses, relayVars
  <2> QED
    BY <1>2, <2>5, <2>6, <2>7
<1>8. ASSUME NEW s \in Sides, PeerFails(s) PROVE CloseIsSent'
  <2>1. PICK n \in 0 .. Len(inbox[s]) :
           inbox' = [inbox EXCEPT ![s] = SubSeq(@, 1, n)]
    BY <1>8 DEF PeerFails
  <2>2. /\ inbox'[s] = SubSeq(inbox[s], 1, n)
        /\ \A t \in Sides : t # s => inbox'[t] = inbox[t]
    BY <2>1 DEF TypeOK
  <2>3. \A i \in DOMAIN SubSeq(inbox[s], 1, n) :
           i \in DOMAIN inbox[s] /\ SubSeq(inbox[s], 1, n)[i] = inbox[s][i]
    BY BufferTypes, PrefixElements
  <2>4. \A t \in Sides : HasClosed(t) => HasClosed(t)'
    BY <1>8 DEF PeerFails, HasClosed, TypeOK
  <2>5. Sent(s)'
    BY <1>1, <2>2, <2>3, <2>4 DEF Sent
  <2>6. \A t \in Sides : t # s => Sent(t)'
    BY <1>3, <2>2, <2>4
  <2>7. HeldSent'
    BY <1>4, <1>8, <2>4 DEF PeerFails, relayVars
  <2> QED
    BY <1>2, <2>5, <2>6, <2>7
<1>9. CASE (\E s \in Sides : PeerReads(s)) \/ Expire \/ Cancel \/ UNCHANGED vars
  <2>1. UNCHANGED <<pc, held, from, inbox, peer>>
    BY <1>9 DEF PeerReads, Expire, Cancel, vars, relayVars
  <2> QED
    BY <1>2, <1>3, <1>4, <2>1 DEF HasClosed
<1>10. ASSUME NEW s \in Sides, PeerOffends(s) PROVE CloseIsSent'
  <2>1. UNCHANGED <<pc, held, from, inbox>>
    BY <1>10 DEF PeerOffends, relayVars
  <2>2. \A t \in Sides : HasClosed(t) => HasClosed(t)'
    BY <1>10 DEF PeerOffends, HasClosed, TypeOK
  <2> QED
    BY <1>2, <1>3, <1>4, <2>1, <2>2
<1> QED
  BY <1>5, <1>6, <1>7, <1>8, <1>9, <1>10 DEF Next, Relay, Environment, Ended

(* A side that turns from open has ended in one way, and a loss leaves     *)
(* both ways possible.                                                     *)
LEMMA PeerTurns ==
    ASSUME TypeOK, NEW s \in Sides, PeerCloses(s) \/ PeerOffends(s) \/ PeerFails(s)
    PROVE  /\ UNCHANGED <<reason, stops>>
           /\ HasClosed("chromium") => HasClosed("chromium")'
           /\ HasFailed("chromium") => HasFailed("chromium")'
<1>1. UNCHANGED <<reason, stops>>
  BY DEF PeerCloses, PeerOffends, PeerFails, relayVars
<1>2. PICK state \in {"closing", "broken", "gone"} :
          /\ peer' = [peer EXCEPT ![s] = state]
          /\ peer[s] = "open" \/ state = "gone"
  <2>1. CASE PeerCloses(s)
    BY <2>1 DEF PeerCloses
  <2>2. CASE PeerOffends(s)
    BY <2>2 DEF PeerOffends
  <2>3. CASE PeerFails(s)
    BY <2>3 DEF PeerFails
  <2> QED
    BY <2>1, <2>2, <2>3
<1>3. \A t \in Sides : \/ peer'[t] = peer[t]
                      \/ peer[t] = "open" \/ peer'[t] = "gone"
  BY <1>2 DEF TypeOK
<1> QED
  BY <1>1, <1>3, SideFacts DEF HasClosed, HasFailed

LEMMA ReasonNext ==
    TypeOK /\ CloseIsSent /\ ReasonIsTrue /\ [Next]_vars => ReasonIsTrue'
<1> SUFFICES ASSUME TypeOK, CloseIsSent, ReasonIsTrue, [Next]_vars
             PROVE  ReasonIsTrue'
  OBVIOUS
<1>1. ASSUME NEW s \in Sides, StreamEnds(s) PROVE ReasonIsTrue'
  BY <1>1 DEF StreamEnds, Break, ReasonIsTrue, Sides, HasClosed, HasFailed, stops
<1>2. CASE StopBetweenFrames
  BY <1>2 DEF StopBetweenFrames, Break, ReasonIsTrue, stops
<1>3. CASE SendHeld
  BY <1>3 DEF SendHeld, Break, ReasonIsTrue, CloseIsSent, Other, HasClosed, HasFailed, stops
<1>4. CASE (\E s \in Sides : ReadFrom(s) \/ PeerSends(s) \/ PeerReads(s))
           \/ CloseClient \/ CloseUpstream \/ Expire \/ Cancel \/ UNCHANGED vars
  <2>1. /\ UNCHANGED <<reason, peer>>
        /\ (expired => expired') /\ (cancelled => cancelled')
    BY <1>4 DEF ReadFrom, PeerSends, PeerReads, CloseClient, CloseUpstream, Expire,
                Cancel, vars, relayVars, stops
  <2> QED
    BY <2>1 DEF ReasonIsTrue, HasClosed, HasFailed
<1>5. ASSUME NEW s \in Sides, PeerCloses(s) \/ PeerOffends(s) \/ PeerFails(s)
      PROVE  ReasonIsTrue'
  BY <1>5, PeerTurns DEF ReasonIsTrue, stops
<1> QED
  BY <1>1, <1>2, <1>3, <1>4, <1>5 DEF Next, Relay, Environment, Ended

-----------------------------------------------------------------------------
(* One goodbye to each side, the last frame it is sent, and the client's   *)
(* says what happened.                                                     *)

Truthful(code) ==
    \/ code \in PeerCodes \cup {1000} /\ HasClosed("chromium")
    \/ code = 1001 /\ (expired \/ cancelled)
    \/ code = 1011 /\ HasFailed("chromium")

(* What happened stays so.                                                 *)
LEMMA HappenedStays ==
    ASSUME TypeOK, [Next]_vars
    PROVE  /\ reason' = "none" => reason = "none"
           /\ HasClosed("chromium") => HasClosed("chromium")'
           /\ HasFailed("chromium") => HasFailed("chromium")'
           /\ (expired => expired') /\ (cancelled => cancelled')
<1>1. CASE Relay \/ UNCHANGED vars
  BY <1>1 DEF Relay, ReadFrom, StreamEnds, StopBetweenFrames, SendHeld, CloseClient,
              CloseUpstream, Break, HasClosed, HasFailed, vars, relayVars, stops
<1>2. ASSUME NEW s \in Sides, PeerSends(s) \/ PeerReads(s)
      PROVE  UNCHANGED <<reason, peer, stops>>
  BY <1>2 DEF PeerSends, PeerReads, relayVars
<1>3. ASSUME NEW s \in Sides, PeerCloses(s) \/ PeerOffends(s) \/ PeerFails(s)
      PROVE  /\ UNCHANGED <<reason, stops>>
             /\ HasClosed("chromium") => HasClosed("chromium")'
             /\ HasFailed("chromium") => HasFailed("chromium")'
  BY <1>3, PeerTurns
<1>4. CASE Expire \/ Cancel
  BY <1>4 DEF Expire, Cancel, HasClosed, HasFailed, relayVars
<1> QED
  BY <1>1, <1>2, <1>3, <1>4 DEF Next, Environment, Ended, HasClosed, HasFailed, stops

LEMMA StepDelivers ==
    ASSUME TypeOK, CloseIsSent, NoCloseYet, ReasonIsTrue, [Next]_vars,
           NEW t \in Sides, Delivered(t)' # Delivered(t)
    PROVE  \E frame \in Frames :
              /\ Delivered(t)' = Append(Delivered(t), frame)
              /\ \A i \in DOMAIN Delivered(t) : ~IsClose(Delivered(t)[i])
              /\ IsClose(frame) => reason' # "none" /\ (t = "client" => Truthful(frame)')
<1>1. CASE SendHeld
  <2>1. PICK s \in Sides : s = Other(from)
    BY SideFacts DEF TypeOK
  <2>2. PICK frame \in Frames : frame = held
    BY <1>1, FrameFacts DEF SendHeld, TypeOK
  <2>3. outbox' # outbox /\ got' = got
    BY <1>1, KeepsDelivered DEF SendHeld
  <2>4. /\ outbox' = [outbox EXCEPT ![s] = Append(@, frame)]
        /\ IsClose(frame) => reason' # "none"
    BY <1>1, <2>1, <2>2, <2>3 DEF SendHeld, Break
  <2>5. /\ Delivered(s)' = Append(Delivered(s), frame)
        /\ t = s
    BY <2>3, <2>4, SendDelivers
  <2>6. reason = "none"
    BY <1>1 DEF SendHeld, TypeOK
  <2>7. IsClose(frame) /\ s = "client" => Truthful(frame)'
    <3>1. SUFFICES ASSUME IsClose(frame), s = "client" PROVE Truthful(frame)'
      OBVIOUS
    <3>2. from = "chromium" /\ peer' = peer
      BY <1>1, <2>1, <3>1 DEF SendHeld, Other, TypeOK, Sides
    <3>3. frame \in PeerCodes /\ HasClosed("chromium")
      BY <1>1, <2>2, <3>1, <3>2 DEF SendHeld, CloseIsSent
    <3> QED
      BY <3>2, <3>3 DEF Truthful, HasClosed
  <2> QED
    BY <2>4, <2>5, <2>6, <2>7 DEF NoCloseYet
<1>2. CASE CloseClient
  <2>1. got' = got /\ outbox' # outbox /\ reason' = reason /\ reason # "none"
        /\ peer' = peer /\ UNCHANGED stops
    BY <1>2, KeepsDelivered DEF CloseClient, TypeOK
  <2>2. PICK code \in Frames :
           /\ code = CloseCode(reason)
           /\ outbox' = [outbox EXCEPT !["client"] = Append(@, code)]
           /\ \A i \in DOMAIN Delivered("client") : ~IsClose(Delivered("client")[i])
    <3>1. CloseCode(reason) # 0
      BY <1>2, <2>1 DEF CloseClient
    <3>2. PICK code \in Frames : code = CloseCode(reason)
      BY <3>1, CloseCodeFacts
    <3>3. SayClose("client", code)
      BY <1>2, <3>1, <3>2 DEF CloseClient
    <3> QED
      BY <2>1, <3>2, <3>3, SayCloseEffect, SideFacts
  <2>3. Delivered("client")' = Append(Delivered("client"), code) /\ t = "client"
    BY <2>1, <2>2, SendDelivers, SideFacts
  <2>4. Truthful(code)
    BY <2>2, CloseCodeFacts, FrameFacts DEF ReasonIsTrue, Truthful
  <2>5. Truthful(code)'
    BY <2>1, <2>4 DEF Truthful, HasClosed, HasFailed, stops
  <2> QED
    BY <2>1, <2>2, <2>3, <2>5
<1>3. CASE CloseUpstream
  <2>1. got' = got /\ outbox' # outbox /\ reason' = reason /\ reason # "none"
    BY <1>3, KeepsDelivered DEF CloseUpstream, TypeOK
  <2>2. PICK code \in Frames : SayClose("chromium", code)
    BY <1>3, FrameFacts DEF CloseUpstream
  <2>3. /\ outbox' = [outbox EXCEPT !["chromium"] = Append(@, code)]
        /\ \A i \in DOMAIN Delivered("chromium") : ~IsClose(Delivered("chromium")[i])
    BY <2>1, <2>2, SayCloseEffect, SideFacts
  <2>4. Delivered("chromium")' = Append(Delivered("chromium"), code) /\ t = "chromium"
    BY <2>1, <2>3, SendDelivers, SideFacts
  <2> QED
    BY <2>1, <2>2, <2>3, <2>4
<1>4. CASE \E s \in Sides : PeerReads(s)
  BY <1>4, ReadKeepsDelivered
<1>5. CASE (\E s \in Sides : \/ ReadFrom(s) \/ StreamEnds(s)
                             \/ PeerSends(s) \/ PeerCloses(s)
                             \/ PeerOffends(s) \/ PeerFails(s))
           \/ StopBetweenFrames \/ Expire \/ Cancel \/ UNCHANGED vars
  <2>1. UNCHANGED <<outbox, got>>
    BY <1>5 DEF ReadFrom, StreamEnds, PeerSends, PeerCloses, PeerOffends, PeerFails,
                StopBetweenFrames, Expire, Cancel, vars
  <2> QED
    BY <2>1, KeepsDelivered
<1> QED
  BY <1>1, <1>2, <1>3, <1>4, <1>5 DEF Next, Relay, Environment, Ended

LEMMA GoodbyeNext ==
    /\ TypeOK /\ CloseIsSent /\ NoCloseYet /\ ReasonIsTrue /\ CloseIsLast
    /\ CloseCodesTrue /\ [Next]_vars
    => NoCloseYet' /\ CloseIsLast' /\ CloseCodesTrue'
<1> SUFFICES ASSUME TypeOK, CloseIsSent, NoCloseYet, ReasonIsTrue, CloseIsLast,
                    CloseCodesTrue, [Next]_vars
             PROVE  NoCloseYet' /\ CloseIsLast' /\ CloseCodesTrue'
  OBVIOUS
<1> DEFINE Silent(t) == \A i \in DOMAIN Delivered(t) : ~IsClose(Delivered(t)[i])
           LastClose(t) == \A i \in DOMAIN Delivered(t) :
                              IsClose(Delivered(t)[i]) => i = Len(Delivered(t))
           True(t) == \A i \in DOMAIN Delivered(t) :
                         IsClose(Delivered(t)[i]) => Truthful(Delivered(t)[i])
<1>1. ASSUME NEW t \in Sides
      PROVE  /\ reason' = "none" => Silent(t)'
             /\ LastClose(t)'
             /\ t = "client" => True(t)'
  <2>1. /\ reason' = "none" => Silent(t)
        /\ LastClose(t)
        /\ t = "client" => True(t)
    BY HappenedStays DEF NoCloseYet, CloseIsLast, CloseCodesTrue, Truthful
  <2>2. \A frame \in Frames : Truthful(frame) => Truthful(frame)'
    BY HappenedStays DEF Truthful
  <2>3. Delivered(t) \in Seq(Frames) /\ \A i \in DOMAIN Delivered(t) : Delivered(t)[i] \in Frames
    BY BufferTypes, LenProperties, ElementOfSeq
  <2>4. CASE Delivered(t)' = Delivered(t)
    BY <2>1, <2>2, <2>3, <2>4
  <2>5. CASE Delivered(t)' # Delivered(t)
    <3>1. PICK frame \in Frames :
              /\ Delivered(t)' = Append(Delivered(t), frame)
              /\ Silent(t)
              /\ IsClose(frame) => reason' # "none" /\ (t = "client" => Truthful(frame)')
      BY <2>5, StepDelivers
    <3>2. \A i \in DOMAIN Append(Delivered(t), frame) :
             \/ /\ i \in DOMAIN Delivered(t)
                /\ Append(Delivered(t), frame)[i] = Delivered(t)[i]
             \/ /\ i = Len(Append(Delivered(t), frame))
                /\ Append(Delivered(t), frame)[i] = frame
      BY <2>3, AppendElements
    <3> QED
      BY <3>1, <3>2
  <2> QED
    BY <2>4, <2>5
<1> QED
  BY <1>1, SideFacts DEF NoCloseYet, CloseIsLast, CloseCodesTrue, Truthful

-----------------------------------------------------------------------------
LEMMA ProxyInitInv == Init => ProxyInv
<1> SUFFICES ASSUME Init PROVE ProxyInv
  OBVIOUS
<1>1. TypeOK
  BY TypeInit
<1>2. \A s \in Sides : inbox[s] = <<>> /\ outbox[s] = <<>> /\ got[s] = <<>>
  BY DEF Init
<1>3. \A s \in Sides : Delivered(s) = <<>>
  BY <1>2 DEF Delivered
<1>4. NothingLost
  <2>1. Numbered(0) = <<>>
    BY DEF Numbered
  <2>2. \A s \in Sides : Flow(s) = <<>>
    BY <1>2, <1>3, SideFacts DEF Init, Flow, Held
  <2> QED
    BY <2>1, <2>2 DEF Init, NothingLost
<1>5. CloseIsSent /\ NoCloseYet /\ ReasonIsTrue
  BY <1>2, <1>3 DEF Init, CloseIsSent, NoCloseYet, ReasonIsTrue
<1>6. CloseIsLast /\ CloseCodesTrue
  BY <1>3, SideFacts DEF CloseIsLast, CloseCodesTrue
<1> QED
  BY <1>1, <1>4, <1>5, <1>6 DEF ProxyInv

LEMMA ProxyNextInv == ProxyInv /\ [Next]_vars => ProxyInv'
  BY TypeNext, LostNext, CloseSentNext, ReasonNext, GoodbyeNext DEF ProxyInv

LEMMA ProxyInvariant == Spec => []ProxyInv
  BY ProxyInitInv, ProxyNextInv, PTL DEF Spec

(* Every variable of the relay keeps its type.                             *)
THEOREM TypeCorrect == Spec => []TypeOK
<1>1. ProxyInv => TypeOK
  BY DEF ProxyInv
<1> QED
  BY <1>1, ProxyInvariant, PTL

(* While the relay runs, it neither loses, repeats nor reorders a frame of *)
(* a live connection (proxy.rs:107-140), whatever room the sockets have.   *)
THEOREM FramesAreDelivered == Spec => []NothingLost
<1>1. ProxyInv => NothingLost
  BY DEF ProxyInv
<1> QED
  BY <1>1, ProxyInvariant, PTL

(* No side is sent anything after a Close frame (proxy.rs:115-164).        *)
THEOREM GoodbyeIsLast == Spec => []CloseIsLast
<1>1. ProxyInv => CloseIsLast
  BY DEF ProxyInv
<1> QED
  BY <1>1, ProxyInvariant, PTL

(* The code the client is closed with is true (proxy.rs:115-160).          *)
THEOREM GoodbyeIsTrue == Spec => []CloseCodesTrue
<1>1. ProxyInv => CloseCodesTrue
  BY DEF ProxyInv
<1> QED
  BY <1>1, ProxyInvariant, PTL
=============================================================================
