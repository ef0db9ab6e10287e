------------------------ MODULE XpcFlowControlProofs ------------------------
(***************************************************************************)
(* Proofs about XpcFlowControl, for every set of streams, every window and *)
(* frame size and every bound.                                             *)
(***************************************************************************)
EXTENDS XpcFlowControl, SequenceTheorems, TLAPS

-----------------------------------------------------------------------------
(* Facts about the operators. *)

\* sendWindow returns a number for every window.
LEMMA SendWindowType ==
    ASSUME TypeOK, NEW w \in Windows
    PROVE  sendWindow(w) \in Int
  BY StreamsAssumption DEF TypeOK, sendWindow, Windows

\* What was sent on, debited later and granted for a window are natural numbers.
LEMMA GrantedType ==
    ASSUME TypeOK, NEW w \in Windows
    PROVE  Granted(w) \in Nat /\ sent[w] \in Nat /\ dataBytesSent[w] \in Nat
  <1>1. credit[w] \in Nat /\ peerInitialWindowSize \in Nat
    BY DEF TypeOK
  <1>2. sent[w] \in Nat /\ dataBytesSent[w] \in Nat
    BY DEF TypeOK
  <1> QED  BY <1>1, <1>2, SizesAssumption DEF Granted

\* The same of the state after a step.
LEMMA GrantedTypePrime ==
    ASSUME TypeOK', NEW w \in Windows
    PROVE  Granted(w)' \in Nat /\ sent'[w] \in Nat /\ dataBytesSent'[w] \in Nat
  <1>1. credit'[w] \in Nat /\ peerInitialWindowSize' \in Nat
    BY DEF TypeOK
  <1>2. sent'[w] \in Nat /\ dataBytesSent'[w] \in Nat
    BY DEF TypeOK
  <1> QED  BY <1>1, <1>2, SizesAssumption DEF Granted

\* The frame flushPendingSends cuts is an integer below all four limits, one of them.
LEMMA FrameSizeLeast ==
    ASSUME TypeOK, NEW send \in [streamId : Streams, payload : Seq(Bytes)]
    PROVE  LET m == FrameSize(send)
               l == Len(send.payload)
               c == sendWindow(0)
               s == sendWindow(send.streamId)
           IN  /\ m \in Int /\ m <= l /\ m <= peerMaxFrameSize /\ m <= c /\ m <= s
               /\ m = l \/ m = peerMaxFrameSize \/ m = c \/ m = s
  <1>1. sendWindow(0) \in Int /\ sendWindow(send.streamId) \in Int
    BY SendWindowType DEF Windows
  <1>2. Len(send.payload) \in Int /\ peerMaxFrameSize \in Int
    BY DEF TypeOK
  <1> QED  BY <1>1, <1>2 DEF FrameSize, Least

\* Counting bytes keeps a table of byte counts one.
LEMMA CountType ==
    ASSUME NEW f \in [Windows -> Nat], NEW s \in Streams, NEW n \in Nat
    PROVE  Count(f, s, n) \in [Windows -> Nat]
  BY DEF Count, Windows

\* Adjusting windows of streams keeps streamSendWindows a Map of streams to numbers.
LEMMA AdjustedType ==
    ASSUME TypeOK, NEW S \in SUBSET Streams, NEW d \in [S -> Int]
    PROVE  /\ DOMAIN Adjusted(d) \subseteq Streams
           /\ Adjusted(d) \in [DOMAIN Adjusted(d) -> Int]
  <1>1. \A s \in S : sendWindow(s) \in Int
    BY SendWindowType DEF Windows
  <1>2. DOMAIN Adjusted(d) = DOMAIN streamSendWindows \cup S
    BY DEF Adjusted
  <1>3. \A s \in DOMAIN Adjusted(d) :
            Adjusted(d)[s] = IF s \in S THEN sendWindow(s) + d[s] ELSE streamSendWindows[s]
    BY DEF Adjusted
  <1>4. ASSUME NEW s \in DOMAIN Adjusted(d) PROVE Adjusted(d)[s] \in Int
    <2>1. CASE s \in S
      <3>1. Adjusted(d)[s] = sendWindow(s) + d[s]  BY <1>3, <2>1
      <3>2. sendWindow(s) \in Int /\ d[s] \in Int  BY <1>1, <2>1
      <3> QED  BY <3>1, <3>2
    <2>2. CASE s \notin S
      <3>1. Adjusted(d)[s] = streamSendWindows[s]  BY <1>3, <2>2
      <3>2. streamSendWindows[s] \in Int  BY <1>2, <2>2 DEF TypeOK
      <3> QED  BY <3>1, <3>2
    <2> QED  BY <2>1, <2>2
  <1>5. Adjusted(d) = [s \in DOMAIN Adjusted(d) |-> Adjusted(d)[s]]
    BY <1>2 DEF Adjusted
  <1>6. DOMAIN streamSendWindows \subseteq Streams
    BY DEF TypeOK
  <1>7. Adjusted(d) \in [DOMAIN Adjusted(d) -> Int]
    BY <1>4, <1>5
  <1> QED  BY <1>2, <1>6, <1>7

\* The types one by one.
LEMMA Types ==
    ASSUME TypeOK
    PROVE  /\ peerMaxFrameSize \in Nat \ {0} /\ peerInitialWindowSize \in Nat
           /\ connectionSendWindow \in Int
           /\ sent \in [Windows -> Nat] /\ credit \in [Windows -> Nat]
           /\ dataBytesSent \in [Windows -> Nat]
           /\ sendQueue \in Seq([streamId : Streams, payload : Seq(Bytes)])
           /\ wire \in Seq(Bytes) /\ accepted \in Seq(Bytes)
           /\ payloads \in Nat /\ settings \in Nat /\ connects \in Nat
  BY DEF TypeOK

\* What keeps its value keeps its type.
LEMMA Retyped ==
    ASSUME TypeOK, UNCHANGED <<phase, handshakeVars, windowVars, sent, credit, wire, settings,
                               connects>>,
           sendQueue' \in Seq([streamId : Streams, payload : Seq(Bytes)]),
           accepted' \in Seq(Bytes), payloads' \in Nat, flushing' \in BOOLEAN
    PROVE  TypeOK'
  <1>1. UNCHANGED <<phase, handshakeNext, dataBytesSent, peerMaxFrameSize, peerInitialWindowSize,
                    connectionSendWindow, streamSendWindows, sent, credit, wire, settings, connects>>
    BY DEF handshakeVars, windowVars
  <1> QED  BY <1>1 DEF TypeOK

\* An empty Map is one of streams to numbers.
LEMMA EmptyMap ==
    LET e == [s \in {} |-> 0]
    IN  DOMAIN e \subseteq Streams /\ e \in [DOMAIN e -> Int]
  OBVIOUS

\* The handshake's DATA frames are on its two streams.
LEMMA HandshakeFrameStreams ==
    /\ Len(HandshakeFrames) = 9
    /\ \A i \in 1..9 : HandshakeFrames[i].type = "data" =>
                           HandshakeFrames[i].stream \in {Root, Reply}
  BY StreamsAssumption DEF HandshakeFrames

\* SubSeq of a byte sequence from 1 or up to its end is a byte sequence.
LEMMA SliceType ==
    ASSUME NEW b \in Seq(Bytes), NEW m \in Int, m <= Len(b)
    PROVE  /\ SubSeq(b, 1, m) \in Seq(Bytes)
           /\ Len(SubSeq(b, 1, m)) = IF m < 0 THEN 0 ELSE m
           /\ 0 <= m => /\ SubSeq(b, m + 1, Len(b)) \in Seq(Bytes)
                        /\ Len(SubSeq(b, m + 1, Len(b))) = Len(b) - m
  OBVIOUS

-----------------------------------------------------------------------------
(* Type correctness. *)

Sends == [streamId : Streams, payload : Seq(Bytes)]

\* One iteration of the flush loop keeps every variable in its type.
LEMMA FlushStepType ==
    ASSUME TypeOK, FlushStep
    PROVE  TypeOK'
  <1> DEFINE send == Head(sendQueue)
             size == FrameSize(send)
             bytes == SubSeq(send.payload, 1, size)
  <1>0. sendQueue \in Seq(Sends) /\ sendQueue # <<>>
    BY DEF TypeOK, FlushStep, Sends
  <1>1. send \in Sends /\ Tail(sendQueue) \in Seq(Sends)
    BY <1>0
  <1>2. size \in Int /\ size <= Len(send.payload)
    BY <1>1, FrameSizeLeast DEF Sends
  <1>3. bytes \in Seq(Bytes) /\ Len(bytes) \in Nat
    BY <1>1, <1>2, SliceType DEF Sends
  <1>4. connectionSendWindow' \in Int
    BY <1>2 DEF TypeOK, FlushStep
  <1>5. /\ DOMAIN streamSendWindows' \subseteq Streams
        /\ streamSendWindows' \in [DOMAIN streamSendWindows' -> Int]
    <2>1. [s \in {send.streamId} |-> -size] \in [{send.streamId} -> Int]
      BY <1>2
    <2>2. {send.streamId} \in SUBSET Streams
      BY <1>1 DEF Sends
    <2>3. streamSendWindows' = Adjusted([s \in {send.streamId} |-> -size])
      BY DEF FlushStep
    <2> QED  BY <2>1, <2>2, <2>3, AdjustedType
  <1>6. sendQueue' \in Seq(Sends)
    <2>1. CASE size = Len(send.payload)
      BY <1>1, <2>1 DEF FlushStep
    <2>2. CASE size # Len(send.payload)
      <3> DEFINE rest == IF size < 0 THEN send.payload
                         ELSE SubSeq(send.payload, size + 1, Len(send.payload))
      <3>1. rest \in Seq(Bytes)
        BY <1>1, <1>2, SliceType DEF Sends
      <3>2. sendQueue' = [sendQueue EXCEPT ![1].payload =
                              IF size < 0 THEN @ ELSE SubSeq(@, size + 1, Len(@))]
        BY <2>2 DEF FlushStep
      <3>3. 1 \in DOMAIN sendQueue /\ sendQueue[1] = send
        BY <1>0
      <3>4. sendQueue' = [sendQueue EXCEPT ![1] = [send EXCEPT !.payload = rest]]
        BY <3>2, <3>3
      <3>5. [send EXCEPT !.payload = rest] \in Sends
        BY <1>1, <3>1 DEF Sends
      <3> HIDE DEF rest, size
      <3> QED  BY <1>0, <3>3, <3>4, <3>5
    <2> QED  BY <2>1, <2>2
  <1>7. sent' \in [Windows -> Nat]
    <2>1. sent' = Count(sent, send.streamId, Len(bytes))
      BY DEF FlushStep
    <2>2. sent \in [Windows -> Nat] /\ send.streamId \in Streams
      BY <1>1 DEF TypeOK, Sends
    <2> QED  BY <1>3, <2>1, <2>2, CountType
  <1>8. wire' \in Seq(Bytes)
    BY <1>3 DEF TypeOK, FlushStep
  <1>9. UNCHANGED <<phase, handshakeVars, peerMaxFrameSize, peerInitialWindowSize,
                    flushing, credit, accepted, payloads, settings, connects>>
    BY DEF FlushStep
  <1> QED  BY <1>4, <1>5, <1>6, <1>7, <1>8, <1>9 DEF TypeOK, Sends, handshakeVars

\* Every variable of the sending side keeps its type.
THEOREM TypeCorrect == Spec => []TypeOK
  <1>1. Init => TypeOK
    <2> SUFFICES ASSUME Init PROVE TypeOK
      OBVIOUS
    <2>1. /\ DOMAIN streamSendWindows \subseteq Streams
          /\ streamSendWindows \in [DOMAIN streamSendWindows -> Int]
      BY EmptyMap DEF Init
    <2>2. handshakeNext \in 1..(Len(HandshakeFrames) + 1)
      BY HandshakeFrameStreams DEF Init
    <2>3. NoBytes \in [Windows -> Nat]
      BY DEF NoBytes
    <2>4. /\ sendQueue \in Seq([streamId : Streams, payload : Seq(Bytes)])
          /\ wire \in Seq(Bytes) /\ accepted \in Seq(Bytes)
      BY DEF Init
    <2>5. /\ phase = "closed"
          /\ peerMaxFrameSize = DefaultFrame
          /\ peerInitialWindowSize = DefaultWindow
          /\ connectionSendWindow = DefaultWindow
          /\ dataBytesSent = NoBytes /\ sent = NoBytes /\ credit = NoBytes
          /\ payloads = 0 /\ settings = 0 /\ connects = 0
      BY DEF Init
    <2>6. /\ phase \in {"closed", "connecting", "handshake", "connected"}
          /\ peerMaxFrameSize \in Nat \ {0} /\ peerInitialWindowSize \in Nat
          /\ connectionSendWindow \in Int
          /\ payloads \in Nat /\ settings \in Nat /\ connects \in Nat
      BY <2>5, SizesAssumption
    <2>7. /\ dataBytesSent \in [Windows -> Nat]
          /\ sent \in [Windows -> Nat] /\ credit \in [Windows -> Nat]
      BY <2>3, <2>5
    <2>8. flushing \in BOOLEAN
      BY Zenon DEF Init
    <2> QED
      BY <2>1, <2>2, <2>4, <2>6, <2>7, <2>8 DEF TypeOK
  <1>2. TypeOK /\ [Next]_vars => TypeOK'
    <2> SUFFICES ASSUME TypeOK, [Next]_vars PROVE TypeOK'
      OBVIOUS
    <2>1. CASE Connect
      <3>1. /\ DOMAIN streamSendWindows' \subseteq Streams
            /\ streamSendWindows' \in [DOMAIN streamSendWindows' -> Int]
        BY <2>1, EmptyMap DEF Connect, resetConnectionState
      <3>2. handshakeNext' \in 1..(Len(HandshakeFrames)' + 1)
        BY <2>1, HandshakeFrameStreams DEF Connect, HandshakeFrames
      <3>3. NoBytes \in [Windows -> Nat]
        BY DEF NoBytes
      <3>4. /\ sendQueue' \in Seq([streamId : Streams, payload : Seq(Bytes)])
            /\ wire' \in Seq(Bytes) /\ accepted' \in Seq(Bytes)
        BY <2>1 DEF Connect, resetConnectionState, NewSocket
      <3>5. /\ phase' \in {"closed", "connecting", "handshake", "connected"}
            /\ peerMaxFrameSize' \in Nat \ {0} /\ peerInitialWindowSize' \in Nat
            /\ connectionSendWindow' \in Int /\ flushing' \in BOOLEAN
            /\ payloads' \in Nat /\ settings' \in Nat /\ connects' \in Nat
        <4>1. payloads \in Nat /\ connects \in Nat /\ settings \in Nat
          BY Types
        <4>2. /\ phase' = "connecting"
              /\ peerMaxFrameSize' = DefaultFrame /\ peerInitialWindowSize' = DefaultWindow
              /\ connectionSendWindow' = DefaultWindow
          BY <2>1 DEF Connect, resetConnectionState
        <4>3. flushing' \in BOOLEAN
          BY <2>1, Zenon DEF Connect, resetConnectionState, TypeOK
        <4>4. payloads' \in Nat /\ settings' \in Nat /\ connects' \in Nat
          BY <2>1, <4>1 DEF Connect, NewSocket
        <4>5. /\ peerMaxFrameSize' \in Nat \ {0} /\ peerInitialWindowSize' \in Nat
              /\ connectionSendWindow' \in Int
          BY <4>2, SizesAssumption
        <4> QED
          BY <4>2, <4>3, <4>4, <4>5
      <3>6. /\ dataBytesSent' \in [Windows -> Nat] /\ sent' \in [Windows -> Nat]
            /\ credit' \in [Windows -> Nat]
        BY <2>1, <3>3 DEF Connect, resetConnectionState, NewSocket
      <3> QED
        BY <3>1, <3>2, <3>4, <3>5, <3>6 DEF TypeOK
    <2>2. CASE SocketConnected
      BY <2>2 DEF SocketConnected, TypeOK, handshakeVars, windowVars
    <2>3. CASE HandshakeStep
      <3> DEFINE frame == HandshakeFrames[handshakeNext]
      <3>1. handshakeNext \in 1..9 /\ handshakeNext' = handshakeNext + 1
        BY <2>3, HandshakeFrameStreams DEF HandshakeStep, TypeOK
      <3>2. dataBytesSent' \in [Windows -> Nat] /\ sent' \in [Windows -> Nat]
        <4>1. CASE frame.type = "data"
          <5>1. frame.stream \in Streams
            BY <3>1, <4>1, HandshakeFrameStreams, StreamsAssumption
          <5>2. /\ dataBytesSent' = Count(dataBytesSent, frame.stream, HandshakeBytes)
                /\ sent' = Count(sent, frame.stream, HandshakeBytes)
            BY <2>3, <4>1 DEF HandshakeStep
          <5> QED  BY <5>1, <5>2, CountType, SizesAssumption DEF TypeOK
        <4>2. CASE frame.type # "data"
          BY <2>3, <4>2 DEF HandshakeStep, TypeOK
        <4> QED  BY <4>1, <4>2
      <3>3. UNCHANGED <<phase, windowVars, sendQueue, flushing, credit,
                        wire, accepted, payloads, settings, connects>>
        BY <2>3 DEF HandshakeStep
      <3>4. handshakeNext' \in 1..(Len(HandshakeFrames)' + 1)
        BY <3>1, HandshakeFrameStreams DEF HandshakeFrames
      <3> QED  BY <3>2, <3>3, <3>4 DEF TypeOK, windowVars
    <2>4. CASE HandshakeDone
      <3> DEFINE deltas == [s \in {Root, Reply} |-> -dataBytesSent[s]]
      <3>1. \A w \in Windows : dataBytesSent[w] \in Nat
        BY DEF TypeOK
      <3>2. deltas \in [{Root, Reply} -> Int] /\ {Root, Reply} \in SUBSET Streams
        BY <3>1, StreamsAssumption DEF Windows
      <3>3. streamSendWindows' = Adjusted(deltas)
        BY <2>4 DEF HandshakeDone
      <3>4. /\ DOMAIN streamSendWindows' \subseteq Streams
            /\ streamSendWindows' \in [DOMAIN streamSendWindows' -> Int]
        BY <3>2, <3>3, AdjustedType
      <3>5. connectionSendWindow' \in Int
        BY <2>4, <3>1 DEF HandshakeDone, TypeOK, Windows
      <3> QED  BY <2>4, <3>4, <3>5 DEF HandshakeDone, TypeOK, NoBytes
    <2>5. CASE Close
      BY <2>5 DEF Close, TypeOK, handshakeVars, windowVars
    <2>6. ASSUME NEW s \in Streams, NEW n \in PayloadSizes, sendDataFrame(s, n)
          PROVE  TypeOK'
      <3> DEFINE payload == [k \in 1..n |-> <<s, payloads + 1, k>>]
      <3>1. payload \in Seq(Bytes)
        <4>1. n \in Nat /\ payloads + 1 \in Nat
          BY SizesAssumption, Types
        <4>2. ASSUME NEW k \in 1..n PROVE <<s, payloads + 1, k>> \in Bytes
          BY <4>1 DEF Bytes
        <4> QED  BY <4>1, <4>2
      <3>2. /\ sendQueue' = Append(sendQueue, [streamId |-> s, payload |-> payload])
            /\ accepted' = accepted \o payload
            /\ payloads' = payloads + 1
            /\ flushing' = TRUE
        BY <2>6 DEF sendDataFrame
      <3>3. sendQueue' \in Seq([streamId : Streams, payload : Seq(Bytes)])
        BY <3>1, <3>2, Types
      <3>4. accepted' \in Seq(Bytes)
        BY <3>1, <3>2, Types
      <3>5. UNCHANGED <<phase, handshakeVars, windowVars, sent, credit, wire,
                        settings, connects>>
        BY <2>6 DEF sendDataFrame
      <3>6. payloads' \in Nat /\ flushing' \in BOOLEAN
        BY <3>2, Types
      <3> QED  BY <3>3, <3>4, <3>5, <3>6, Retyped
    <2>7. CASE FlushStep
      BY <2>7, FlushStepType
    <2>8. CASE FlushReturn
      BY <2>8 DEF FlushReturn, TypeOK, handshakeVars, windowVars
    <2>9. ASSUME NEW maxFrame \in FrameSizes \cup {peerMaxFrameSize},
                 NEW initial \in WindowSizes \cup {peerInitialWindowSize},
                 applyPeerSettings(maxFrame, initial)
          PROVE  TypeOK'
      <3>1. maxFrame \in Nat \ {0} /\ initial \in Nat
        BY SizesAssumption DEF TypeOK
      <3>2. streamSendWindows' = [s \in DOMAIN streamSendWindows |->
                                    streamSendWindows[s] + (initial - peerInitialWindowSize)]
        BY <2>9 DEF applyPeerSettings
      <3>3. \A s \in DOMAIN streamSendWindows :
              streamSendWindows[s] + (initial - peerInitialWindowSize) \in Int
        <4>1. /\ streamSendWindows \in [DOMAIN streamSendWindows -> Int]
              /\ peerInitialWindowSize \in Int
          BY DEF TypeOK
        <4> QED  BY <3>1, <4>1
      <3>4. /\ DOMAIN streamSendWindows' = DOMAIN streamSendWindows
            /\ streamSendWindows' \in [DOMAIN streamSendWindows -> Int]
        BY <3>2, <3>3
      <3>5. /\ DOMAIN streamSendWindows' \subseteq Streams
            /\ streamSendWindows' \in [DOMAIN streamSendWindows' -> Int]
        BY <3>4 DEF TypeOK
      <3>6. /\ peerMaxFrameSize' \in Nat \ {0} /\ peerInitialWindowSize' \in Nat
            /\ settings' \in Nat /\ flushing' \in BOOLEAN
        <4>1. /\ peerMaxFrameSize' = maxFrame /\ peerInitialWindowSize' = initial
              /\ settings' = settings + 1 /\ flushing' \in BOOLEAN
          BY <2>9 DEF applyPeerSettings
        <4>2. settings \in Nat
          BY DEF TypeOK
        <4> QED  BY <3>1, <4>1, <4>2
      <3>7. UNCHANGED <<phase, handshakeNext, dataBytesSent, connectionSendWindow, sendQueue, sent,
                        credit, wire, accepted, payloads, connects>>
        BY <2>9 DEF applyPeerSettings, handshakeVars
      <3> QED  BY <3>5, <3>6, <3>7 DEF TypeOK
    <2>10. ASSUME NEW w \in Windows, NEW n \in Increments, WindowUpdate(w, n)
           PROVE  TypeOK'
      <3>1. n \in Nat /\ credit' = [credit EXCEPT ![w] = @ + n]
        BY <2>10, SizesAssumption DEF WindowUpdate
      <3>2. credit' \in [Windows -> Nat]
        <4>1. credit \in [Windows -> Nat]
          BY Types
        <4> QED  BY <3>1, <4>1
      <3>3. connectionSendWindow' \in Int
        <4>1. connectionSendWindow' \in {connectionSendWindow, connectionSendWindow + n}
          BY <2>10 DEF WindowUpdate, adjustSendWindow
        <4> QED  BY <3>1, <4>1, Types, SMTT(30)
      <3>4. /\ DOMAIN streamSendWindows' \subseteq Streams
            /\ streamSendWindows' \in [DOMAIN streamSendWindows' -> Int]
        <4>1. CASE w = 0
          BY <2>10, <4>1 DEF WindowUpdate, adjustSendWindow, TypeOK
        <4>2. CASE w # 0
          <5>1. streamSendWindows' = Adjusted([s \in {w} |-> n])
            BY <2>10, <4>2 DEF WindowUpdate, adjustSendWindow
          <5>2. [s \in {w} |-> n] \in [{w} -> Int] /\ {w} \in SUBSET Streams
            BY <3>1, <4>2 DEF Windows
          <5> QED  BY <5>1, <5>2, AdjustedType
        <4> QED  BY <4>1, <4>2
      <3> QED  BY <2>10, <3>2, <3>3, <3>4 DEF WindowUpdate, TypeOK, handshakeVars
    <2>11. CASE UNCHANGED vars
      BY <2>11 DEF vars, TypeOK, handshakeVars, windowVars
    <2> QED
      BY <2>1, <2>2, <2>3, <2>4, <2>5, <2>6, <2>7, <2>8, <2>9, <2>10, <2>11 DEF Next
  <1> QED  BY <1>1, <1>2, PTL DEF Spec

-----------------------------------------------------------------------------
(* Window accounting. *)

\* Where a table of byte counts grows.
LEMMA CountAt ==
    ASSUME NEW f \in [Windows -> Nat], NEW s \in Streams, NEW n \in Nat, NEW w \in Windows
    PROVE  Count(f, s, n)[w] = IF w = 0 \/ w = s THEN f[w] + n ELSE f[w]
  BY DEF Count

\* Adjusting some streams moves their windows by the given amounts, whether or
\* not they had an entry, and no other stream's window.
LEMMA AdjustedWindow ==
    ASSUME TypeOK, NEW S \in SUBSET Streams, NEW d \in [S -> Int], NEW w \in Streams,
           streamSendWindows' = Adjusted(d), peerInitialWindowSize' = peerInitialWindowSize
    PROVE  sendWindow(w)' = IF w \in S THEN sendWindow(w) + d[w] ELSE sendWindow(w)
  <1>1. DOMAIN streamSendWindows' = DOMAIN streamSendWindows \cup S
    BY DEF Adjusted
  <1>2. \A s \in DOMAIN streamSendWindows' : streamSendWindows'[s] =
           IF s \in S THEN sendWindow(s) + d[s] ELSE streamSendWindows[s]
    BY DEF Adjusted
  <1>3. w # 0
    BY StreamsAssumption
  <1>4. sendWindow(w)' = IF w \in DOMAIN streamSendWindows' THEN streamSendWindows'[w]
                         ELSE peerInitialWindowSize
    BY <1>3 DEF sendWindow
  <1>5. CASE w \in S
    BY <1>1, <1>2, <1>4, <1>5
  <1>6. CASE w \notin S
    BY <1>1, <1>2, <1>3, <1>4, <1>6 DEF sendWindow
  <1> QED  BY <1>5, <1>6

\* Taking n from one stream's window.
LEMMA AdjustedOne ==
    ASSUME TypeOK, NEW s \in Streams, NEW n \in Int,
           streamSendWindows' = Adjusted([r \in {s} |-> -n]),
           peerInitialWindowSize' = peerInitialWindowSize
    PROVE  sendWindow(s)' = sendWindow(s) - n
  <1> DEFINE d == [r \in {s} |-> -n]
  <1>1. d \in [{s} -> Int] /\ d[s] = -n /\ {s} \in SUBSET Streams /\ s \in {s}
    OBVIOUS
  <1>2. streamSendWindows' = Adjusted(d)
    OBVIOUS
  <1> HIDE DEF d
  <1>3. sendWindow(s)' = sendWindow(s) + d[s]
    BY <1>1, <1>2, AdjustedWindow
  <1>4. sendWindow(s) \in Int
    BY SendWindowType DEF Windows
  <1> QED  BY <1>1, <1>3, <1>4

\* Every queued payload has bytes left to send.
NonEmptySends == \A i \in DOMAIN sendQueue : Len(sendQueue[i].payload) > 0

\* The handshake counts DATA on its own two streams only.
OnlyHandshakeStreams == \A w \in Streams \ {Root, Reply} : dataBytesSent[w] = 0

\* The inductive invariant: the accounting is exact and, as flushPendingSends
\* adds a negative size back to the windows of an empty payload, none is queued.
AccountingInv == TypeOK /\ OnlyHandshakeStreams /\ NonEmptySends /\ WindowAccounting

\* What a step of the flush loop writes when no queued payload is empty: at least
\* one byte and no more than either window has.
LEMMA FlushedFrame ==
    ASSUME TypeOK, NonEmptySends, FlushStep
    PROVE  LET send == Head(sendQueue)
               size == FrameSize(send)
           IN  /\ send \in Sends
               /\ size \in Nat /\ size > 0 /\ size <= Len(send.payload)
               /\ size <= sendWindow(0) /\ size <= sendWindow(send.streamId)
               /\ Len(SubSeq(send.payload, 1, size)) = size
               /\ sent' = Count(sent, send.streamId, size)
               /\ connectionSendWindow' = connectionSendWindow - size
               /\ streamSendWindows' = Adjusted([s \in {send.streamId} |-> -size])
  <1> DEFINE send == Head(sendQueue)
             size == FrameSize(send)
  <1>1. sendQueue \in Seq(Sends) /\ sendQueue # <<>>
    BY DEF TypeOK, FlushStep, Sends
  <1>2. send \in Sends /\ 1 \in DOMAIN sendQueue /\ send = sendQueue[1]
    BY <1>1
  <1>3. Len(send.payload) > 0
    BY <1>2 DEF NonEmptySends
  <1>4. /\ size \in Int /\ size <= Len(send.payload)
        /\ size <= sendWindow(0) /\ size <= sendWindow(send.streamId)
    BY <1>2, FrameSizeLeast DEF Sends
  <1>5. ~Blocked(send)
    BY DEF FlushStep
  <1>6. size > 0
    BY <1>3, <1>4, <1>5 DEF Blocked
  <1>7. Len(SubSeq(send.payload, 1, size)) = size
    <2>1. send.payload \in Seq(Bytes)
      BY <1>2 DEF Sends
    <2> HIDE DEF send, size
    <2> QED  BY <1>4, <1>6, <2>1, SliceType
  <1>8. /\ sent' = Count(sent, send.streamId, size)
        /\ connectionSendWindow' = connectionSendWindow - size
        /\ streamSendWindows' = Adjusted([s \in {send.streamId} |-> -size])
    BY <1>7 DEF FlushStep
  <1> QED  BY <1>2, <1>4, <1>6, <1>7, <1>8

\* A step of the flush loop debits both windows by what it writes.
LEMMA FlushStepAccounting ==
    ASSUME TypeOK, NonEmptySends, WindowAccounting, FlushStep
    PROVE  WindowAccounting'
  <1> DEFINE send == Head(sendQueue)
             size == FrameSize(send)
             d == [s \in {send.streamId} |-> -size]
  <1>1. send \in Sends /\ size \in Nat
    BY FlushedFrame
  <1>2. sent' = Count(sent, send.streamId, size)
    BY FlushedFrame
  <1>3. /\ connectionSendWindow' = connectionSendWindow - size
        /\ streamSendWindows' = Adjusted(d)
    BY FlushedFrame
  <1>4. UNCHANGED <<credit, peerInitialWindowSize, dataBytesSent>>
    BY DEF FlushStep, handshakeVars
  <1> SUFFICES ASSUME NEW w \in Windows
               PROVE  sendWindow(w)' = Granted(w)' - sent'[w] + dataBytesSent'[w]
    BY DEF WindowAccounting
  <1>5. send.streamId \in Streams
    BY <1>1 DEF Sends
  <1>6. sent'[w] = IF w = 0 \/ w = send.streamId THEN sent[w] + size ELSE sent[w]
    <2>1. sent \in [Windows -> Nat]
      BY DEF TypeOK
    <2> HIDE DEF send, size
    <2> QED  BY <1>1, <1>2, <1>5, <2>1, CountAt
  <1>7. Granted(w)' = Granted(w) /\ dataBytesSent'[w] = dataBytesSent[w]
    BY <1>4 DEF Granted
  <1>8. sendWindow(w)' = IF w = 0 \/ w = send.streamId
                         THEN sendWindow(w) - size ELSE sendWindow(w)
    <2>1. CASE w = 0
      BY <1>3, <2>1 DEF sendWindow
    <2>2. CASE w # 0
      <3>1. w \in Streams /\ {send.streamId} \in SUBSET Streams
        BY <1>5, <2>2 DEF Windows
      <3>2. d \in [{send.streamId} -> Int]
        BY <1>1
      <3>3. sendWindow(w)' = IF w \in {send.streamId}
                             THEN sendWindow(w) + d[w] ELSE sendWindow(w)
        BY <1>3, <1>4, <3>1, <3>2, AdjustedWindow
      <3>4. sendWindow(w) \in Int
        BY SendWindowType
      <3>5. w = send.streamId => d[w] = -size
        OBVIOUS
      <3> HIDE DEF send, size, d
      <3> QED  BY <1>1, <2>2, <3>3, <3>4, <3>5
    <2> QED  BY <2>1, <2>2
  <1>9. sendWindow(w) = Granted(w) - sent[w] + dataBytesSent[w]
    BY DEF WindowAccounting
  <1>10. /\ sent[w] \in Nat /\ dataBytesSent[w] \in Nat
         /\ Granted(w) \in Nat /\ sendWindow(w) \in Int
    BY GrantedType, SendWindowType
  <1> HIDE DEF send, size, d
  <1> QED  BY <1>1, <1>6, <1>7, <1>8, <1>9, <1>10

\* Every step keeps the accounting exact.
LEMMA AccountingStep ==
    ASSUME AccountingInv, TypeOK', [Next]_vars
    PROVE  WindowAccounting'
  <1> USE DEF AccountingInv
  <1>1. CASE Connect
    <2> SUFFICES ASSUME NEW w \in Windows
                 PROVE  sendWindow(w)' = Granted(w)' - sent'[w] + dataBytesSent'[w]
      BY DEF WindowAccounting
    <2>1. /\ connectionSendWindow' = DefaultWindow
          /\ peerInitialWindowSize' = DefaultWindow
          /\ streamSendWindows' = [s \in {} |-> 0]
          /\ sent' = NoBytes /\ credit' = NoBytes /\ dataBytesSent' = NoBytes
      BY <1>1 DEF Connect, resetConnectionState, NewSocket
    <2>2. DOMAIN streamSendWindows' = {}
      BY <2>1
    <2>3. sendWindow(w)' = DefaultWindow
      BY <2>1, <2>2 DEF sendWindow
    <2>4. sent'[w] = 0 /\ credit'[w] = 0 /\ dataBytesSent'[w] = 0
      BY <2>1 DEF NoBytes
    <2>5. Granted(w)' = DefaultWindow
      BY <2>1, <2>4, SizesAssumption DEF Granted
    <2> QED  BY <2>3, <2>4, <2>5, SizesAssumption
  <1>2. CASE HandshakeStep
    <2> SUFFICES ASSUME NEW w \in Windows
                 PROVE  sendWindow(w)' = Granted(w)' - sent'[w] + dataBytesSent'[w]
      BY DEF WindowAccounting
    <2> DEFINE frame == HandshakeFrames[handshakeNext]
    <2>1. sendWindow(w)' = sendWindow(w) /\ Granted(w)' = Granted(w)
      BY <1>2 DEF HandshakeStep, windowVars, sendWindow, Granted
    <2>2. sendWindow(w) = Granted(w) - sent[w] + dataBytesSent[w]
      BY DEF WindowAccounting
    <2>3. Granted(w) \in Nat /\ sent[w] \in Nat /\ dataBytesSent[w] \in Nat
      BY GrantedType
    <2>4. CASE frame.type = "data"
      <3>1. handshakeNext \in 1..9
        BY <1>2, HandshakeFrameStreams DEF HandshakeStep, TypeOK
      <3>2. frame.stream \in Streams
        BY <2>4, <3>1, HandshakeFrameStreams, StreamsAssumption
      <3>3. /\ dataBytesSent' = Count(dataBytesSent, frame.stream, HandshakeBytes)
            /\ sent' = Count(sent, frame.stream, HandshakeBytes)
        BY <1>2, <2>4 DEF HandshakeStep
      <3>4. /\ sent \in [Windows -> Nat] /\ dataBytesSent \in [Windows -> Nat]
            /\ HandshakeBytes \in Nat
        BY SizesAssumption DEF TypeOK
      <3> DEFINE s == frame.stream
      <3>5. sent'[w] - dataBytesSent'[w] = sent[w] - dataBytesSent[w]
        <4>1. /\ sent'[w] = IF w = 0 \/ w = s THEN sent[w] + HandshakeBytes ELSE sent[w]
              /\ dataBytesSent'[w] = IF w = 0 \/ w = s
                    THEN dataBytesSent[w] + HandshakeBytes ELSE dataBytesSent[w]
          BY <3>2, <3>3, <3>4, CountAt
        <4> HIDE DEF s
        <4> QED  BY <2>3, <3>4, <4>1
      <3>6. sent'[w] \in Nat /\ dataBytesSent'[w] \in Nat
        BY DEF TypeOK
      <3> QED  BY <2>1, <2>2, <2>3, <3>5, <3>6
    <2>5. CASE frame.type # "data"
      BY <1>2, <2>1, <2>2, <2>5 DEF HandshakeStep
    <2> QED  BY <2>4, <2>5
  <1>3. CASE HandshakeDone
    <2> SUFFICES ASSUME NEW w \in Windows
                 PROVE  sendWindow(w)' = Granted(w)' - sent'[w] + dataBytesSent'[w]
      BY DEF WindowAccounting
    <2> DEFINE d == [s \in {Root, Reply} |-> -dataBytesSent[s]]
    <2>1. sendWindow(w) = Granted(w) - sent[w] + dataBytesSent[w]
      BY DEF WindowAccounting
    <2>2. Granted(w) \in Nat /\ sent[w] \in Nat /\ sendWindow(w) \in Int
      BY GrantedType, SendWindowType
    <2>3. \A x \in Windows : dataBytesSent[x] \in Nat
      BY DEF TypeOK
    <2>4. /\ dataBytesSent' = NoBytes /\ sent' = sent /\ credit' = credit
          /\ peerInitialWindowSize' = peerInitialWindowSize
          /\ connectionSendWindow' = connectionSendWindow - dataBytesSent[0]
          /\ streamSendWindows' = Adjusted(d)
      BY <1>3 DEF HandshakeDone
    <2>5. Granted(w)' = Granted(w) /\ dataBytesSent'[w] = 0
      BY <2>4 DEF Granted, NoBytes
    <2>6. sendWindow(w)' = sendWindow(w) - dataBytesSent[w]
      <3>1. CASE w = 0
        BY <2>4, <3>1 DEF sendWindow
      <3>2. CASE w # 0
        <4>1. w \in Streams /\ {Root, Reply} \in SUBSET Streams
          BY <3>2, StreamsAssumption DEF Windows
        <4>2. d \in [{Root, Reply} -> Int]
          <5>1. \A s \in {Root, Reply} : dataBytesSent[s] \in Nat
            BY <2>3, <4>1 DEF Windows
          <5> QED  BY <5>1
        <4>3. sendWindow(w)' = IF w \in {Root, Reply}
                               THEN sendWindow(w) + d[w] ELSE sendWindow(w)
          BY <2>4, <4>1, <4>2, AdjustedWindow
        <4>4. CASE w \in {Root, Reply}
          BY <2>2, <2>3, <4>3, <4>4 DEF Windows
        <4>5. CASE w \notin {Root, Reply}
          <5>1. dataBytesSent[w] = 0
            BY <3>2, <4>1, <4>5 DEF OnlyHandshakeStreams
          <5> QED  BY <2>2, <4>3, <4>5, <5>1
        <4> QED  BY <4>4, <4>5
      <3> QED  BY <3>1, <3>2
    <2> QED  BY <2>1, <2>2, <2>3, <2>4, <2>5, <2>6
  <1>4. CASE FlushStep
    BY <1>4, FlushStepAccounting
  <1>5. ASSUME NEW maxFrame \in FrameSizes \cup {peerMaxFrameSize},
               NEW initial \in WindowSizes \cup {peerInitialWindowSize},
               applyPeerSettings(maxFrame, initial)
        PROVE  WindowAccounting'
    <2> SUFFICES ASSUME NEW w \in Windows
                 PROVE  sendWindow(w)' = Granted(w)' - sent'[w] + dataBytesSent'[w]
      BY DEF WindowAccounting
    <2> DEFINE change == IF w = 0 THEN 0 ELSE initial - peerInitialWindowSize
    <2>1. initial \in Nat /\ peerInitialWindowSize \in Nat
      BY SizesAssumption DEF TypeOK
    <2>2. /\ peerInitialWindowSize' = initial
          /\ streamSendWindows' =
               [s \in DOMAIN streamSendWindows |->
                   streamSendWindows[s] + (initial - peerInitialWindowSize)]
          /\ UNCHANGED <<connectionSendWindow, dataBytesSent, sent, credit>>
      BY <1>5 DEF applyPeerSettings, handshakeVars
    <2>3. credit[w] \in Nat
      BY DEF TypeOK
    <2>4. Granted(w)' = Granted(w) + change
      BY <2>1, <2>2, <2>3, SizesAssumption DEF Granted
    <2>5. sendWindow(w)' = sendWindow(w) + change
      <3>1. sendWindow(w) \in Int
        BY SendWindowType
      <3>2. CASE w = 0
        BY <2>2, <3>1, <3>2 DEF sendWindow
      <3>3. CASE w # 0 /\ w \in DOMAIN streamSendWindows
        BY <2>2, <3>3 DEF sendWindow
      <3>4. CASE w # 0 /\ w \notin DOMAIN streamSendWindows
        BY <2>1, <2>2, <3>4 DEF sendWindow
      <3> QED  BY <3>2, <3>3, <3>4
    <2>6. sendWindow(w) = Granted(w) - sent[w] + dataBytesSent[w]
      BY DEF WindowAccounting
    <2>7. Granted(w) \in Nat /\ sent[w] \in Nat /\ dataBytesSent[w] \in Nat
      BY GrantedType
    <2>8. change \in Int
      BY <2>1
    <2> HIDE DEF change
    <2> QED  BY <2>2, <2>4, <2>5, <2>6, <2>7, <2>8
  <1>6. ASSUME NEW v \in Windows, NEW n \in Increments, WindowUpdate(v, n)
        PROVE  WindowAccounting'
    <2> SUFFICES ASSUME NEW w \in Windows
                 PROVE  sendWindow(w)' = Granted(w)' - sent'[w] + dataBytesSent'[w]
      BY DEF WindowAccounting
    <2> DEFINE gain == IF w = v THEN n ELSE 0
    <2>1. n \in Nat
      BY SizesAssumption
    <2>2. /\ credit' = [credit EXCEPT ![v] = @ + n]
          /\ UNCHANGED <<peerInitialWindowSize, dataBytesSent, sent>>
      BY <1>6 DEF WindowUpdate, handshakeVars
    <2>3. credit \in [Windows -> Nat] /\ peerInitialWindowSize \in Nat
      BY DEF TypeOK
    <2>4. Granted(w)' = Granted(w) + gain
      BY <2>1, <2>2, <2>3, SizesAssumption DEF Granted
    <2>5. sendWindow(w)' = sendWindow(w) + gain
      <3>1. sendWindow(w) \in Int
        BY SendWindowType
      <3>2. CASE v = 0
        <4>1. connectionSendWindow' = connectionSendWindow + n /\ UNCHANGED streamSendWindows
          BY <1>6, <3>2 DEF WindowUpdate, adjustSendWindow
        <4> QED  BY <2>2, <3>1, <3>2, <4>1 DEF sendWindow
      <3>3. CASE v # 0
        <4>1. /\ streamSendWindows' = Adjusted([s \in {v} |-> n])
              /\ UNCHANGED connectionSendWindow
          BY <1>6, <3>3 DEF WindowUpdate, adjustSendWindow
        <4>2. CASE w = 0
          BY <3>1, <3>3, <4>1, <4>2 DEF sendWindow
        <4>3. CASE w # 0
          <5>1. w \in Streams /\ {v} \in SUBSET Streams
            BY <3>3, <4>3 DEF Windows
          <5>2. [s \in {v} |-> n] \in [{v} -> Int]
            BY <2>1
          <5>3. sendWindow(w)' = IF w \in {v} THEN sendWindow(w) + [s \in {v} |-> n][w]
                                 ELSE sendWindow(w)
            BY <2>2, <4>1, <5>1, <5>2, AdjustedWindow
          <5> QED  BY <3>1, <5>3
        <4> QED  BY <4>2, <4>3
      <3> QED  BY <3>2, <3>3
    <2>6. sendWindow(w) = Granted(w) - sent[w] + dataBytesSent[w]
      BY DEF WindowAccounting
    <2>7. Granted(w) \in Nat /\ sent[w] \in Nat /\ dataBytesSent[w] \in Nat /\ gain \in Nat
      BY <2>1, GrantedType
    <2> HIDE DEF gain
    <2> QED  BY <2>2, <2>4, <2>5, <2>6, <2>7
  <1>7. ASSUME UNCHANGED <<peerInitialWindowSize, connectionSendWindow, streamSendWindows,
                           credit, sent, dataBytesSent>>
        PROVE  WindowAccounting'
    BY <1>7 DEF WindowAccounting, sendWindow, Granted
  <1>8. CASE SocketConnected \/ Close \/ FlushReturn \/ UNCHANGED vars
    BY <1>7, <1>8 DEF SocketConnected, Close, FlushReturn, vars, handshakeVars, windowVars
  <1>9. ASSUME NEW s \in Streams, NEW n \in PayloadSizes, sendDataFrame(s, n)
        PROVE  WindowAccounting'
    BY <1>7, <1>9 DEF sendDataFrame, handshakeVars, windowVars
  <1> QED  BY <1>1, <1>2, <1>3, <1>4, <1>5, <1>6, <1>8, <1>9 DEF Next

\* The queue holds no empty payload if callers send none.
LEMMA NonEmptyStep ==
    ASSUME AccountingInv, 0 \notin PayloadSizes, [Next]_vars
    PROVE  NonEmptySends'
  <1> USE DEF AccountingInv
  <1>1. CASE Connect
    BY <1>1 DEF Connect, resetConnectionState, NonEmptySends
  <1>2. ASSUME NEW s \in Streams, NEW n \in PayloadSizes, sendDataFrame(s, n)
        PROVE  NonEmptySends'
    <2> DEFINE payload == [k \in 1..n |-> <<s, payloads + 1, k>>]
               new == [streamId |-> s, payload |-> payload]
    <2>1. n \in Nat /\ n > 0
      BY SizesAssumption
    <2>2. Len(new.payload) = n
      BY <2>1
    <2>3. sendQueue' = Append(sendQueue, new)
      BY <1>2 DEF sendDataFrame
    <2>4. sendQueue \in Seq(Sends)
      BY DEF TypeOK, Sends
    <2> HIDE DEF new
    <2>5. DOMAIN sendQueue' = 1..(Len(sendQueue) + 1) /\ DOMAIN sendQueue = 1..Len(sendQueue)
      BY <2>3, <2>4
    <2>6. ASSUME NEW i \in DOMAIN sendQueue'
          PROVE  Len(sendQueue'[i].payload) > 0
      <3>1. CASE i = Len(sendQueue) + 1
        BY <2>1, <2>2, <2>3, <2>4, <3>1
      <3>2. CASE i # Len(sendQueue) + 1
        <4>1. i \in DOMAIN sendQueue
          BY <2>4, <2>5, <3>2
        <4>2. sendQueue'[i] = sendQueue[i]
          BY <2>3, <2>4, <2>5, <3>2
        <4> QED  BY <4>1, <4>2 DEF NonEmptySends
      <3> QED  BY <3>1, <3>2
    <2> QED  BY <2>6 DEF NonEmptySends
  <1>3. CASE FlushStep
    <2> DEFINE send == Head(sendQueue)
               size == FrameSize(send)
               rest == SubSeq(send.payload, size + 1, Len(send.payload))
    <2>1. sendQueue \in Seq(Sends) /\ sendQueue # <<>>
      BY <1>3 DEF TypeOK, FlushStep, Sends
    <2>2. send \in Sends /\ size \in Nat /\ size > 0 /\ size <= Len(send.payload)
      BY <1>3, FlushedFrame
    <2>3. 1 \in DOMAIN sendQueue /\ sendQueue[1] = send
      BY <2>1
    <2>4. CASE size = Len(send.payload)
      <3>1. sendQueue' = Tail(sendQueue)
        BY <1>3, <2>4 DEF FlushStep
      <3> HIDE DEF send, size
      <3>2. \A i \in DOMAIN sendQueue' :
                i + 1 \in DOMAIN sendQueue /\ sendQueue'[i] = sendQueue[i + 1]
        BY <2>1, <3>1
      <3> QED  BY <3>2 DEF NonEmptySends
    <2>5. CASE size # Len(send.payload)
      <3>1. sendQueue' = [sendQueue EXCEPT ![1].payload =
                              IF size < 0 THEN @ ELSE SubSeq(@, size + 1, Len(@))]
        BY <1>3, <2>5 DEF FlushStep
      <3>2. sendQueue' = [sendQueue EXCEPT ![1] = [send EXCEPT !.payload = rest]]
        <4>1. (size < 0) = FALSE
          BY <2>2
        <4>2. sendQueue' = [sendQueue EXCEPT ![1].payload = SubSeq(@, size + 1, Len(@))]
          BY <3>1, <4>1
        <4> QED  BY <2>3, <4>2
      <3>3. send.payload \in Seq(Bytes)
        BY <2>2 DEF Sends
      <3>4. Len(rest) > 0
        <4> DEFINE b == send.payload
        <4>1. Len(rest) = Len(b) - size
          <5> HIDE DEF send, size
          <5> QED  BY <2>2, <3>3, SliceType
        <4>2. Len(b) \in Nat
          BY <3>3
        <4> HIDE DEF b, size, rest
        <4> QED  BY <2>2, <2>5, <4>1, <4>2 DEF b
      <3>5. [send EXCEPT !.payload = rest].payload = rest
        BY <2>2 DEF Sends
      <3> HIDE DEF send, size, rest
      <3>6. \A i \in DOMAIN sendQueue' :
              /\ i \in DOMAIN sendQueue
              /\ sendQueue'[i] = IF i = 1 THEN [send EXCEPT !.payload = rest] ELSE sendQueue[i]
        BY <2>1, <2>3, <3>2
      <3> QED  BY <3>4, <3>5, <3>6 DEF NonEmptySends
    <2> QED  BY <2>4, <2>5
  <1>4. ASSUME UNCHANGED sendQueue PROVE NonEmptySends'
    BY <1>4 DEF NonEmptySends
  <1>5. CASE SocketConnected \/ HandshakeStep \/ HandshakeDone \/ Close \/ FlushReturn
             \/ UNCHANGED vars
    BY <1>4, <1>5
    DEF SocketConnected, HandshakeStep, HandshakeDone, Close, FlushReturn, vars
  <1>6. ASSUME NEW maxFrame, NEW initial, applyPeerSettings(maxFrame, initial)
        PROVE  NonEmptySends'
    BY <1>4, <1>6 DEF applyPeerSettings
  <1>7. ASSUME NEW w, NEW n, WindowUpdate(w, n) PROVE NonEmptySends'
    BY <1>4, <1>7 DEF WindowUpdate
  <1> QED  BY <1>1, <1>2, <1>3, <1>5, <1>6, <1>7 DEF Next

\* The handshake counts DATA on its own two streams only.
LEMMA OnlyHandshakeStreamsStep ==
    ASSUME AccountingInv, [Next]_vars
    PROVE  OnlyHandshakeStreams'
  <1> USE DEF AccountingInv
  <1>1. ASSUME dataBytesSent' = NoBytes PROVE OnlyHandshakeStreams'
    BY <1>1 DEF OnlyHandshakeStreams, NoBytes, Windows
  <1>2. ASSUME UNCHANGED dataBytesSent PROVE OnlyHandshakeStreams'
    BY <1>2 DEF OnlyHandshakeStreams
  <1>3. CASE Connect \/ HandshakeDone
    BY <1>1, <1>3 DEF Connect, HandshakeDone
  <1>4. CASE HandshakeStep
    <2> DEFINE frame == HandshakeFrames[handshakeNext]
    <2>1. CASE frame.type = "data"
      <3>1. handshakeNext \in 1..9
        BY <1>4, HandshakeFrameStreams DEF HandshakeStep, TypeOK
      <3>2. frame.stream \in {Root, Reply}
        BY <2>1, <3>1, HandshakeFrameStreams
      <3>3. dataBytesSent' = Count(dataBytesSent, frame.stream, HandshakeBytes)
        BY <1>4, <2>1 DEF HandshakeStep
      <3> HIDE DEF frame
      <3>4. ASSUME NEW w \in Streams \ {Root, Reply}
            PROVE  dataBytesSent'[w] = dataBytesSent[w]
        BY <3>2, <3>3, StreamsAssumption DEF Count, Windows
      <3> QED  BY <3>4 DEF OnlyHandshakeStreams
    <2>2. CASE frame.type # "data"
      BY <1>2, <1>4, <2>2 DEF HandshakeStep
    <2> QED  BY <2>1, <2>2
  <1>5. CASE SocketConnected \/ Close \/ FlushStep \/ FlushReturn \/ UNCHANGED vars
    BY <1>2, <1>5
    DEF SocketConnected, Close, FlushStep, FlushReturn, vars, handshakeVars
  <1>6. ASSUME NEW s, NEW n, sendDataFrame(s, n) PROVE OnlyHandshakeStreams'
    BY <1>2, <1>6 DEF sendDataFrame, handshakeVars
  <1>7. ASSUME NEW maxFrame, NEW initial, applyPeerSettings(maxFrame, initial)
        PROVE  OnlyHandshakeStreams'
    BY <1>2, <1>7 DEF applyPeerSettings, handshakeVars
  <1>8. ASSUME NEW w, NEW n, WindowUpdate(w, n) PROVE OnlyHandshakeStreams'
    BY <1>2, <1>8 DEF WindowUpdate, handshakeVars
  <1> QED  BY <1>3, <1>4, <1>5, <1>6, <1>7, <1>8 DEF Next

\* AccountingInv is inductive when callers send no empty payload.
LEMMA AccountingInductive ==
    ASSUME 0 \notin PayloadSizes
    PROVE  Spec => []AccountingInv
  <1>1. Init => OnlyHandshakeStreams /\ NonEmptySends /\ WindowAccounting
    <2> SUFFICES ASSUME Init
                 PROVE  OnlyHandshakeStreams /\ NonEmptySends /\ WindowAccounting
      OBVIOUS
    <2>1. OnlyHandshakeStreams /\ NonEmptySends
      BY DEF Init, OnlyHandshakeStreams, NonEmptySends, NoBytes, Windows
    <2>2. ASSUME NEW w \in Windows
          PROVE  sendWindow(w) = Granted(w) - sent[w] + dataBytesSent[w]
      <3>1. DOMAIN streamSendWindows = {}
        BY DEF Init
      <3>2. sent[w] = 0 /\ credit[w] = 0 /\ dataBytesSent[w] = 0
        BY DEF Init, NoBytes
      <3>3. sendWindow(w) = DefaultWindow
        BY <3>1 DEF Init, sendWindow
      <3>4. Granted(w) = DefaultWindow
        BY <3>2, SizesAssumption DEF Init, Granted
      <3> QED  BY <3>2, <3>3, <3>4, SizesAssumption
    <2> QED  BY <2>1, <2>2 DEF WindowAccounting
  <1>2. AccountingInv /\ TypeOK' /\ [Next]_vars => AccountingInv'
    BY AccountingStep, NonEmptyStep, OnlyHandshakeStreamsStep DEF AccountingInv
  <1>3. Spec => []TypeOK
    BY TypeCorrect
  <1> QED  BY <1>1, <1>2, <1>3, PTL DEF Spec, AccountingInv

\* The send windows are exact at every moment on every connection, if no caller
\* sends an empty payload (encodeMessage never makes one).
THEOREM AccountingCorrect ==
    ASSUME 0 \notin PayloadSizes
    PROVE  Spec => []WindowAccounting
  <1>1. AccountingInv => WindowAccounting
    BY DEF AccountingInv
  <1> QED  BY <1>1, AccountingInductive, PTL

\* No DATA frame cut from the queue exceeds what the device has granted, for the
\* connection and for the stream, under the same condition.
THEOREM FlushSafe ==
    ASSUME 0 \notin PayloadSizes
    PROVE  Spec => FlushWithinGrant
  <1>1. ASSUME AccountingInv, AccountingInv', [Next]_vars, flushing
        PROVE  \A w \in Windows : \/ sent'[w] = sent[w]
                                  \/ sent'[w] - dataBytesSent'[w] <= Granted(w)'
    <2> USE <1>1 DEF AccountingInv
    <2>1. CASE FlushStep
      <3> SUFFICES ASSUME NEW w \in Windows, sent'[w] # sent[w]
                   PROVE  sent'[w] - dataBytesSent'[w] <= Granted(w)'
        OBVIOUS
      <3> DEFINE send == Head(sendQueue)
                 size == FrameSize(send)
                 d == [s \in {send.streamId} |-> -size]
      <3>1. /\ send \in Sends /\ size \in Nat
            /\ size <= sendWindow(0) /\ size <= sendWindow(send.streamId)
            /\ sent' = Count(sent, send.streamId, size)
            /\ connectionSendWindow' = connectionSendWindow - size
            /\ streamSendWindows' = Adjusted(d)
        BY <2>1, FlushedFrame
      <3>2. w = 0 \/ w = send.streamId
        BY <3>1 DEF Count
      <3>3. sendWindow(w)' >= 0
        <4>1. CASE w = 0
          <5>1. sendWindow(w)' = sendWindow(0) - size
            BY <3>1, <4>1 DEF sendWindow
          <5>2. sendWindow(0) \in Int
            BY SendWindowType DEF Windows
          <5> HIDE DEF send, size
          <5> QED  BY <3>1, <5>1, <5>2
        <4>2. CASE w # 0
          <5>1. w \in Streams /\ w = send.streamId /\ {send.streamId} \in SUBSET Streams
            BY <3>2, <4>2 DEF Windows
          <5>2. d \in [{send.streamId} -> Int] /\ d[w] = -size
            BY <3>1, <5>1
          <5>3. peerInitialWindowSize' = peerInitialWindowSize
            BY <2>1 DEF FlushStep
          <5> HIDE DEF send, size, d
          <5>4. sendWindow(w)' = sendWindow(w) + d[w]
            BY <3>1, <5>1, <5>2, <5>3, AdjustedWindow
          <5>5. sendWindow(w) \in Int
            BY SendWindowType
          <5> QED  BY <3>1, <5>1, <5>2, <5>4, <5>5
        <4> QED  BY <4>1, <4>2
      <3>4. sendWindow(w)' = Granted(w)' - sent'[w] + dataBytesSent'[w]
        BY DEF WindowAccounting
      <3>5. Granted(w)' \in Nat /\ sent'[w] \in Nat /\ dataBytesSent'[w] \in Nat
        BY GrantedTypePrime
      <3> QED  BY <3>3, <3>4, <3>5
    <2>2. ASSUME UNCHANGED sent PROVE \A w \in Windows : sent'[w] = sent[w]
      BY <2>2
    <2>3. CASE FlushReturn \/ UNCHANGED vars
      BY <2>2, <2>3 DEF FlushReturn, vars
    <2>4. ~(Connect \/ SocketConnected \/ HandshakeStep \/ HandshakeDone \/ Close)
      BY <1>1 DEF Connect, SocketConnected, HandshakeStep, HandshakeDone, Close
    <2>5. ~(\E s \in Streams, n \in PayloadSizes : sendDataFrame(s, n))
      BY <1>1 DEF sendDataFrame
    <2>6. ~(\E maxFrame \in FrameSizes \cup {peerMaxFrameSize},
               initial \in WindowSizes \cup {peerInitialWindowSize} :
                 applyPeerSettings(maxFrame, initial))
      BY <1>1 DEF applyPeerSettings
    <2>7. ~(\E w \in Windows, n \in Increments : WindowUpdate(w, n))
      BY <1>1 DEF WindowUpdate
    <2> QED  BY <1>1, <2>1, <2>3, <2>4, <2>5, <2>6, <2>7 DEF Next
  <1>2. AccountingInv /\ AccountingInv' /\ [Next]_vars =>
            [flushing => \A w \in Windows :
                \/ sent'[w] = sent[w]
                \/ sent'[w] - dataBytesSent'[w] <= Granted(w)']_vars
    BY <1>1
  <1> QED  BY <1>2, AccountingInductive, PTL DEF Spec, FlushWithinGrant

\* While no handler runs, a payload stays queued on a live socket only because a
\* window is exhausted: no SETTINGS, WINDOW_UPDATE or send leaves it behind.
THEOREM NoLostWakeup == Spec => []WorkConserving
  <1>1. Init => WorkConserving
    BY DEF Init, WorkConserving
  <1>2. TypeOK /\ WorkConserving /\ [Next]_vars => WorkConserving'
    <2> SUFFICES ASSUME TypeOK, WorkConserving, [Next]_vars PROVE WorkConserving'
      OBVIOUS
    <2>1. CASE Connect
      BY <2>1 DEF Connect, resetConnectionState, WorkConserving
    <2>2. CASE SocketConnected
      BY <2>2
      DEF SocketConnected, WorkConserving, writable, sendWindow, windowVars
    <2>3. CASE HandshakeStep
      BY <2>3
      DEF HandshakeStep, WorkConserving, writable, sendWindow, windowVars
    <2>4. CASE HandshakeDone
      <3> SUFFICES ASSUME sendQueue # <<>>, NEW s, s = Head(sendQueue).streamId
                   PROVE  sendWindow(0)' <= 0 \/ sendWindow(s)' <= 0
        BY <2>4 DEF HandshakeDone, WorkConserving
      <3> DEFINE d == [x \in {Root, Reply} |-> -dataBytesSent[x]]
      <3>1. s \in Streams
        <4>1. sendQueue \in Seq(Sends)
          BY DEF TypeOK, Sends
        <4>2. Head(sendQueue) \in Sends
          BY <4>1
        <4> QED  BY <4>2 DEF Sends
      <3>2. \A x \in Windows : dataBytesSent[x] \in Nat
        BY DEF TypeOK
      <3>3. sendWindow(0) <= 0 \/ sendWindow(s) <= 0
        BY <2>4 DEF HandshakeDone, WorkConserving, writable
      <3>4. sendWindow(0)' = sendWindow(0) - dataBytesSent[0]
        BY <2>4 DEF HandshakeDone, sendWindow
      <3>5. sendWindow(s)' = IF s \in {Root, Reply} THEN sendWindow(s) + d[s] ELSE sendWindow(s)
        <4>1. \A x \in {Root, Reply} : dataBytesSent[x] \in Nat
          BY <3>2, StreamsAssumption DEF Windows
        <4>2. d \in [{Root, Reply} -> Int] /\ {Root, Reply} \in SUBSET Streams
          BY <4>1, StreamsAssumption
        <4>3. /\ streamSendWindows' = Adjusted(d)
              /\ peerInitialWindowSize' = peerInitialWindowSize
          BY <2>4 DEF HandshakeDone
        <4> QED  BY <3>1, <4>2, <4>3, AdjustedWindow
      <3>6. s \in {Root, Reply} => d[s] = -dataBytesSent[s]
        OBVIOUS
      <3>7. s \in Windows /\ 0 \in Windows
        BY <3>1 DEF Windows
      <3>8. sendWindow(0) \in Int /\ sendWindow(s) \in Int
        BY <3>7, SendWindowType
      <3> HIDE DEF d
      <3> QED  BY <3>2, <3>3, <3>4, <3>5, <3>6, <3>7, <3>8
    <2>5. CASE Close
      BY <2>5 DEF Close, WorkConserving, writable
    <2>6. ASSUME flushing' PROVE WorkConserving'
      BY <2>6 DEF WorkConserving
    <2>7. ASSUME NEW s \in Streams, NEW n \in PayloadSizes, sendDataFrame(s, n)
          PROVE  WorkConserving'
      BY <2>6, <2>7 DEF sendDataFrame
    <2>8. ASSUME NEW maxFrame, NEW initial, applyPeerSettings(maxFrame, initial)
          PROVE  WorkConserving'
      BY <2>6, <2>8 DEF applyPeerSettings
    <2>9. ASSUME NEW w, NEW n, WindowUpdate(w, n) PROVE WorkConserving'
      BY <2>6, <2>9 DEF WindowUpdate
    <2>10. CASE FlushStep
      BY <2>6, <2>10 DEF FlushStep
    <2>11. CASE FlushReturn
      <3>1. sendQueue' = sendQueue /\ phase' = phase
        BY <2>11 DEF FlushReturn
      <3>2. ASSUME writable, sendQueue # <<>>
            PROVE  \/ sendWindow(0)' <= 0
                   \/ sendWindow(Head(sendQueue).streamId)' <= 0
        <4> DEFINE send == Head(sendQueue)
        <4>0. sendQueue \in Seq(Sends)
          BY DEF TypeOK, Sends
        <4>1. send \in Sends
          BY <3>2, <4>0
        <4>2. Blocked(send)
          BY <2>11, <3>2 DEF FlushReturn
        <4>3. FrameSize(send) <= 0 /\ Len(send.payload) > 0 /\ peerMaxFrameSize > 0
          BY <4>2 DEF Blocked, TypeOK
        <4>4. sendWindow(0) <= 0 \/ sendWindow(send.streamId) <= 0
          <5> DEFINE m == FrameSize(send)
          <5>1. \/ m = Len(send.payload) \/ m = peerMaxFrameSize
                \/ m = sendWindow(0) \/ m = sendWindow(send.streamId)
            BY <4>1, FrameSizeLeast DEF Sends
          <5>2. send.payload \in Seq(Bytes) /\ peerMaxFrameSize \in Nat
            BY <4>1 DEF Sends, TypeOK
          <5> HIDE DEF m
          <5> QED  BY <4>3, <5>1, <5>2 DEF m
        <4>5. sendWindow(0)' = sendWindow(0) /\ sendWindow(send.streamId)' = sendWindow(send.streamId)
          BY <2>11 DEF FlushReturn, windowVars, sendWindow
        <4> QED  BY <4>4, <4>5
      <3> QED
        BY <3>1, <3>2 DEF WorkConserving, writable
    <2>12. CASE UNCHANGED vars
      BY <2>12 DEF vars, windowVars, WorkConserving, writable, sendWindow
    <2> QED
      BY <2>1, <2>2, <2>3, <2>4, <2>5, <2>7, <2>8, <2>9, <2>10, <2>11, <2>12 DEF Next
  <1> QED  BY <1>1, <1>2, TypeCorrect, PTL DEF Spec

-----------------------------------------------------------------------------
(* The refinement of the ordered byte stream. *)

\* Where the payloads of the queue lie in the bytes accepted on the connection:
\* payload i is what was accepted between cut[i] and cut[i + 1], the first begins
\* where the socket's bytes end, and the last ends with what was accepted last.
Laid(cut) ==
    /\ cut \in [1..Len(sendQueue) + 1 -> Nat]
    /\ cut[1] = Len(wire) /\ cut[Len(sendQueue) + 1] = Len(accepted)
    /\ \A i \in 1..Len(sendQueue) + 1 : cut[i] <= Len(accepted)
    /\ \A i \in 1..Len(sendQueue) :
         /\ cut[i + 1] = cut[i] + Len(sendQueue[i].payload)
         /\ \A k \in 1..Len(sendQueue[i].payload) :
               sendQueue[i].payload[k] = accepted[cut[i] + k]

\* What was written is what was accepted first.
Written == \A k \in 1..Len(wire) : wire[k] = accepted[k]

\* The inductive invariant of the refinement: between what was written and what
\* was accepted last lies exactly the queue.
StreamInv == Written /\ \E cut : Laid(cut)

\* A sequence that agrees with the beginning of another is a prefix of it.
LEMMA PrefixOf ==
    ASSUME NEW S, NEW s \in Seq(S), NEW t \in Seq(S), Len(s) <= Len(t),
           \A k \in 1..Len(s) : s[k] = t[k]
    PROVE  IsPrefix(s, t)
  <1>1. SubSeq(s, 1, Len(s)) = SubSeq(t, 1, Len(s))
    OBVIOUS
  <1> QED  BY <1>1 DEF IsPrefix

\* Where the elements of a concatenation come from.
LEMMA JoinedAt ==
    ASSUME NEW S, NEW s \in Seq(S), NEW t \in Seq(S)
    PROVE  /\ s \o t \in Seq(S) /\ Len(s \o t) = Len(s) + Len(t)
           /\ Len(s) \in Nat /\ Len(t) \in Nat
           /\ \A k \in 1..Len(s) : (s \o t)[k] = s[k]
           /\ \A k \in 1..Len(t) : (s \o t)[Len(s) + k] = t[k]
  <1>1. /\ s \o t \in Seq(S) /\ Len(s \o t) = Len(s) + Len(t)
        /\ \A i \in 1..Len(s) + Len(t) :
              (s \o t)[i] = IF i <= Len(s) THEN s[i] ELSE t[i - Len(s)]
    BY ConcatProperties
  <1>2. Len(s) \in Nat /\ Len(t) \in Nat
    BY LenProperties
  <1> DEFINE u == s \o t
  <1> HIDE DEF u
  <1>3. \A i \in 1..Len(s) + Len(t) : u[i] = IF i <= Len(s) THEN s[i] ELSE t[i - Len(s)]
    BY <1>1 DEF u
  <1>4. \A k \in 1..Len(s) : u[k] = s[k]
    BY <1>2, <1>3
  <1>5. ASSUME NEW k \in 1..Len(t) PROVE u[Len(s) + k] = t[k]
    <2>1. /\ Len(s) + k \in 1..Len(s) + Len(t) /\ ~(Len(s) + k <= Len(s))
          /\ Len(s) + k - Len(s) = k
      BY <1>2
    <2> QED  BY <1>3, <2>1
  <1> QED  BY <1>1, <1>2, <1>4, <1>5 DEF u

\* ... and those of what is cut off the front of a sequence, and of what is left.
LEMMA SlicedAt ==
    ASSUME NEW S, NEW s \in Seq(S), NEW m \in 0..Len(s)
    PROVE  /\ SubSeq(s, 1, m) \in Seq(S) /\ Len(SubSeq(s, 1, m)) = m
           /\ \A k \in 1..m : SubSeq(s, 1, m)[k] = s[k]
           /\ SubSeq(s, m + 1, Len(s)) \in Seq(S)
           /\ Len(SubSeq(s, m + 1, Len(s))) = Len(s) - m
           /\ \A k \in 1..Len(s) - m : SubSeq(s, m + 1, Len(s))[k] = s[m + k]
  <1>1. Len(s) \in Nat /\ \A i \in 1..Len(s) : s[i] \in S
    BY LenProperties, ElementOfSeq
  <1>2. /\ SubSeq(s, 1, m) \in Seq(S) /\ Len(SubSeq(s, 1, m)) = m
        /\ \A k \in 1..m : SubSeq(s, 1, m)[k] = s[k]
    BY <1>1, SubSeqProperties
  <1>3. /\ SubSeq(s, m + 1, Len(s)) \in Seq(S)
        /\ Len(SubSeq(s, m + 1, Len(s))) = Len(s) - m
        /\ \A k \in 1..Len(s) - m : SubSeq(s, m + 1, Len(s))[k] = s[m + k]
    BY <1>1, SubSeqProperties
  <1> QED  BY <1>2, <1>3

\* A step that leaves the queue and the bytes alone leaves them laid out.
LEMMA StreamKept ==
    ASSUME StreamInv, UNCHANGED <<sendQueue, wire, accepted>>
    PROVE  StreamInv'
  <1>1. Written'
    BY DEF StreamInv, Written
  <1>2. PICK cut : Laid(cut)
    BY DEF StreamInv
  <1>3. sendQueue' = sendQueue /\ wire' = wire /\ accepted' = accepted
    OBVIOUS
  <1>4. Laid(cut)' <=> Laid(cut)
    BY <1>3 DEF Laid
  <1> QED  BY <1>1, <1>2, <1>4 DEF StreamInv

\* A payload that is taken is laid behind what was accepted.
LEMMA StreamAccepts ==
    ASSUME TypeOK, StreamInv, NEW s \in Streams, NEW n \in PayloadSizes, sendDataFrame(s, n)
    PROVE  /\ StreamInv'
           /\ IsPrefix(accepted, accepted') /\ UNCHANGED wire
  <1> DEFINE payload == [k \in 1..n |-> <<s, payloads + 1, k>>]
             L == Len(sendQueue)
  <1>1. n \in Nat /\ payloads + 1 \in Nat
    <2>1. n \in Nat
      BY SizesAssumption
    <2> QED  BY <2>1, Types
  <1>2. payload \in Seq(Bytes) /\ Len(payload) = n
    <2>1. ASSUME NEW k \in 1..n PROVE <<s, payloads + 1, k>> \in Bytes
      BY <1>1, <2>1 DEF Bytes
    <2> QED  BY <1>1, <2>1
  <1>3. /\ sendQueue' = Append(sendQueue, [streamId |-> s, payload |-> payload])
        /\ accepted' = accepted \o payload /\ wire' = wire
    BY DEF sendDataFrame
  <1>4. PICK cut : Laid(cut)
    BY DEF StreamInv
  <1> HIDE DEF payload
  <1>5. /\ sendQueue \in Seq(Sends) /\ L \in Nat /\ [streamId |-> s, payload |-> payload] \in Sends
        /\ accepted \in Seq(Bytes) /\ wire \in Seq(Bytes)
    <2>1. sendQueue \in Seq(Sends) /\ accepted \in Seq(Bytes) /\ wire \in Seq(Bytes)
      BY DEF TypeOK, Sends
    <2> QED  BY <1>2, <2>1, LenProperties DEF Sends
  <1>6. /\ Len(sendQueue') = L + 1 /\ \A i \in 1..L : sendQueue'[i] = sendQueue[i]
        /\ sendQueue'[L + 1] = [streamId |-> s, payload |-> payload]
    BY <1>3, <1>5, AppendProperties
  <1>7. /\ accepted' \in Seq(Bytes) /\ Len(accepted') = Len(accepted) + n
        /\ \A k \in 1..Len(accepted) : accepted'[k] = accepted[k]
        /\ \A k \in 1..n : accepted'[Len(accepted) + k] = payload[k]
        /\ Len(accepted) \in Nat /\ Len(wire) \in Nat
    <2>1. /\ accepted \o payload \in Seq(Bytes)
          /\ Len(accepted \o payload) = Len(accepted) + Len(payload)
          /\ \A k \in 1..Len(accepted) : (accepted \o payload)[k] = accepted[k]
          /\ \A k \in 1..Len(payload) : (accepted \o payload)[Len(accepted) + k] = payload[k]
      <3>1. payload \in Seq(Bytes) /\ accepted \in Seq(Bytes)
        BY <1>2, <1>5
      <3> QED  BY <3>1, JoinedAt
    <2> QED  BY <1>2, <1>3, <1>5, <2>1, LenProperties, SMTT(30)
  <1>8. Len(wire) <= Len(accepted)
    <2>1. 1 \in 1..L + 1
      BY <1>5
    <2> QED  BY <1>4, <2>1 DEF Laid
  <1>9. Written'
    BY <1>3, <1>7, <1>8 DEF StreamInv, Written
  <1> DEFINE new == [i \in 1..L + 2 |-> IF i <= L + 1 THEN cut[i] ELSE Len(accepted) + n]
  <1>10. \E c : Laid(c)'
    <2>1. new \in [1..Len(sendQueue') + 1 -> Nat]
      BY <1>1, <1>4, <1>5, <1>6 DEF Laid
    <2>2. new[1] = Len(wire') /\ new[Len(sendQueue') + 1] = Len(accepted')
      BY <1>3, <1>4, <1>5, <1>6, <1>7 DEF Laid
    <2>3. ASSUME NEW i \in 1..Len(sendQueue') + 1 PROVE new[i] <= Len(accepted')
      <3>1. i \in 1..L + 1 => cut[i] <= Len(accepted) /\ cut[i] \in Nat
        BY <1>4 DEF Laid
      <3>2. i \in 1..L + 2
        BY <1>5, <1>6
      <3> QED  BY <1>1, <1>5, <1>7, <3>1, <3>2, SMTT(30)
    <2>4. ASSUME NEW i \in 1..Len(sendQueue')
          PROVE  /\ new[i + 1] = new[i] + Len(sendQueue'[i].payload)
                 /\ \A k \in 1..Len(sendQueue'[i].payload) :
                       sendQueue'[i].payload[k] = accepted'[new[i] + k]
      <3>1. CASE i \in 1..L
        <4>1. new[i] = cut[i] /\ new[i + 1] = cut[i + 1] /\ sendQueue'[i] = sendQueue[i]
          BY <1>5, <1>6, <3>1
        <4>2. /\ cut[i] \in Nat /\ cut[i + 1] = cut[i] + Len(sendQueue[i].payload)
              /\ cut[i + 1] <= Len(accepted)
              /\ \A k \in 1..Len(sendQueue[i].payload) :
                    sendQueue[i].payload[k] = accepted[cut[i] + k]
          <5>1. i \in 1..Len(sendQueue) /\ i \in 1..Len(sendQueue) + 1
                /\ i + 1 \in 1..Len(sendQueue) + 1
            BY <1>5, <3>1
          <5>2. cut[i] \in Nat /\ cut[i + 1] <= Len(accepted)
            BY <1>4, <5>1 DEF Laid
          <5>3. /\ cut[i + 1] = cut[i] + Len(sendQueue[i].payload)
                /\ \A k \in 1..Len(sendQueue[i].payload) :
                      sendQueue[i].payload[k] = accepted[cut[i] + k]
            BY <1>4, <5>1 DEF Laid
          <5> QED  BY <5>2, <5>3
        <4>3. sendQueue[i].payload \in Seq(Bytes)
          <5>1. sendQueue[i] \in Sends
            BY <1>5, <3>1, ElementOfSeq
          <5> QED  BY <5>1 DEF Sends
        <4>4. ASSUME NEW k \in 1..Len(sendQueue[i].payload)
              PROVE  accepted'[cut[i] + k] = accepted[cut[i] + k]
          <5>1. Len(sendQueue[i].payload) \in Nat
            BY <4>3, LenProperties
          <5>2. cut[i] + k \in 1..Len(accepted)
            BY <1>7, <4>2, <5>1, SMTT(30)
          <5> QED  BY <1>7, <5>2
        <4> HIDE DEF new
        <4> QED  BY <4>1, <4>2, <4>4
      <3>2. CASE i = L + 1
        <4>1. new[i] = Len(accepted) /\ new[i + 1] = Len(accepted) + n
              /\ sendQueue'[i].payload = payload
          BY <1>4, <1>5, <1>6, <3>2 DEF Laid
        <4> HIDE DEF new
        <4> QED  BY <1>2, <1>7, <4>1
      <3> HIDE DEF new
      <3>3. i \in 1..L \/ i = L + 1
        BY <1>5, <1>6
      <3> QED  BY <3>1, <3>2, <3>3
    <2> HIDE DEF new
    <2> QED  BY <2>1, <2>2, <2>3, <2>4, SMTT(30) DEF Laid
  <1>11. IsPrefix(accepted, accepted')
    BY <1>1, <1>5, <1>7, PrefixOf
  <1> HIDE DEF new
  <1> QED  BY <1>3, <1>9, <1>10, <1>11 DEF StreamInv

\* One round of the flush loop moves bytes from the head of the queue to the socket.
LEMMA StreamDelivers ==
    ASSUME TypeOK, TypeOK', StreamInv, FlushStep
    PROVE  /\ StreamInv'
           /\ IsPrefix(wire, wire') /\ IsPrefix(wire', accepted) /\ UNCHANGED accepted
  <1> DEFINE send == Head(sendQueue)
             size == FrameSize(send)
             L == Len(sendQueue)
             n == IF size < 0 THEN 0 ELSE size
             bytes == SubSeq(send.payload, 1, size)
             rest == SubSeq(send.payload, size + 1, Len(send.payload))
  <1>1. /\ sendQueue \in Seq(Sends) /\ L \in Nat /\ L > 0 /\ send = sendQueue[1]
        /\ accepted \in Seq(Bytes) /\ wire \in Seq(Bytes) /\ wire' \in Seq(Bytes)
    <2>1. /\ sendQueue \in Seq(Sends) /\ accepted \in Seq(Bytes) /\ wire \in Seq(Bytes)
          /\ wire' \in Seq(Bytes) /\ sendQueue # <<>>
      BY DEF TypeOK, FlushStep, Sends
    <2>2. L \in Nat /\ L > 0
      BY <2>1, EmptySeq
    <2>3. send = sendQueue[1]
      OBVIOUS
    <2> QED  BY <2>1, <2>2, <2>3
  <1>2. send \in Sends /\ send.payload \in Seq(Bytes) /\ Len(send.payload) \in Nat
    <2>1. send \in Sends
      BY <1>1, ElementOfSeq
    <2> HIDE DEF send
    <2> QED  BY <2>1, LenProperties DEF Sends
  <1>3. size \in Int /\ size <= Len(send.payload)
    BY <1>2, FrameSizeLeast DEF Sends
  <1>4. wire' = wire \o bytes /\ accepted' = accepted
    BY DEF FlushStep
  <1>5. sendQueue' = IF size = Len(send.payload) THEN Tail(sendQueue)
                     ELSE [sendQueue EXCEPT ![1].payload =
                             IF size < 0 THEN @ ELSE SubSeq(@, size + 1, Len(@))]
    BY DEF FlushStep
  <1> HIDE DEF size
  <1>6. /\ n \in Nat /\ n <= Len(send.payload)
        /\ bytes \in Seq(Bytes) /\ Len(bytes) = n /\ \A k \in 1..n : bytes[k] = send.payload[k]
        /\ size >= 0 => /\ rest \in Seq(Bytes) /\ Len(rest) = Len(send.payload) - n
                        /\ \A k \in 1..Len(rest) : rest[k] = send.payload[n + k]
    <2> HIDE DEF send
    <2>1. CASE size < 0
      <3>1. bytes = <<>> /\ n = 0
        BY <1>3, <2>1, SubSeqEmpty
      <3> HIDE DEF bytes, n
      <3> QED  BY <1>2, <1>3, <2>1, <3>1, EmptySeq
    <2>2. CASE size >= 0
      <3>1. n = size /\ size \in 0..Len(send.payload)
        BY <1>2, <1>3, <2>2
      <3>2. /\ bytes \in Seq(Bytes) /\ Len(bytes) = size
            /\ \A k \in 1..size : bytes[k] = send.payload[k]
            /\ rest \in Seq(Bytes) /\ Len(rest) = Len(send.payload) - size
            /\ \A k \in 1..Len(send.payload) - size : rest[k] = send.payload[size + k]
        <4>1. send.payload \in Seq(Bytes) /\ size \in 0..Len(send.payload)
          BY <1>2, <3>1
        <4> QED  BY <4>1, SlicedAt
      <3> HIDE DEF n, bytes, rest
      <3> QED  BY <1>2, <3>1, <3>2
    <2> HIDE DEF n, bytes, rest
    <2> QED  BY <1>3, <2>1, <2>2
  <1>7. PICK cut : Laid(cut)
    BY DEF StreamInv
  <1>8. /\ cut[1] = Len(wire) /\ cut[2] = Len(wire) + Len(send.payload)
        /\ cut[2] <= Len(accepted) /\ Len(wire) \in Nat /\ Len(accepted) \in Nat
        /\ \A k \in 1..Len(send.payload) : send.payload[k] = accepted[Len(wire) + k]
    <2>1. 1 \in 1..L /\ 1 \in 1..L + 1 /\ 2 \in 1..L + 1 /\ 1 + 1 = 2
      BY <1>1
    <2>2. Len(wire) \in Nat /\ Len(accepted) \in Nat
      BY <1>1, LenProperties
    <2> HIDE DEF send
    <2> QED  BY <1>1, <1>7, <2>1, <2>2 DEF Laid
  <1> HIDE DEF send, n, bytes, rest
  <1>9. /\ Len(wire') = Len(wire) + n /\ \A k \in 1..Len(wire) : wire'[k] = wire[k]
        /\ \A k \in 1..n : wire'[Len(wire) + k] = send.payload[k]
    <2>1. /\ Len(wire \o bytes) = Len(wire) + Len(bytes)
          /\ \A k \in 1..Len(wire) : (wire \o bytes)[k] = wire[k]
          /\ \A k \in 1..Len(bytes) : (wire \o bytes)[Len(wire) + k] = bytes[k]
      <3>1. wire \in Seq(Bytes) /\ bytes \in Seq(Bytes)
        BY <1>1, <1>6
      <3> QED  BY <3>1, JoinedAt
    <2>2. Len(bytes) = n /\ \A k \in 1..n : bytes[k] = send.payload[k]
      BY <1>6
    <2> QED  BY <1>4, <2>1, <2>2
  <1>10. \A k \in 1..Len(wire') : wire'[k] = accepted[k]
    <2> SUFFICES ASSUME NEW k \in 1..Len(wire') PROVE wire'[k] = accepted[k]
      OBVIOUS
    <2>1. CASE k <= Len(wire)
      BY <1>8, <1>9, <2>1 DEF StreamInv, Written
    <2>2. CASE k > Len(wire)
      <3> DEFINE j == k - Len(wire)
      <3>1. j \in 1..n /\ j \in 1..Len(send.payload) /\ Len(wire) + j = k
        BY <1>2, <1>6, <1>8, <1>9, <2>2
      <3> HIDE DEF j
      <3> QED  BY <1>8, <1>9, <3>1
    <2> QED  BY <1>8, <2>1, <2>2
  <1>11. Len(wire') <= Len(accepted)
    BY <1>2, <1>6, <1>8, <1>9
  <1>12. IsPrefix(wire, wire') /\ IsPrefix(wire', accepted)
    <2>1. Len(wire) <= Len(wire')
      BY <1>6, <1>8, <1>9
    <2> QED  BY <1>1, <1>9, <1>10, <1>11, <2>1, PrefixOf
  <1>13. \E new : Laid(new)'
    <2>1. CASE size = Len(send.payload)
      <3> DEFINE new == [i \in 1..L |-> cut[i + 1]]
      <3>1. n = Len(send.payload)
        BY <1>2, <2>1 DEF n
      <3>2. Len(sendQueue') = L - 1 /\ \A i \in 1..L - 1 : sendQueue'[i] = sendQueue[i + 1]
        BY <1>1, <1>5, <2>1
      <3>3. new \in [1..Len(sendQueue') + 1 -> Nat]
        BY <1>1, <1>7, <3>2 DEF Laid
      <3>4. new[1] = Len(wire') /\ new[Len(sendQueue') + 1] = Len(accepted')
        BY <1>1, <1>4, <1>7, <1>8, <1>9, <3>1, <3>2 DEF Laid
      <3>5. \A i \in 1..Len(sendQueue') + 1 : new[i] <= Len(accepted')
        BY <1>1, <1>4, <1>7, <3>2 DEF Laid
      <3>6. \A i \in 1..Len(sendQueue') :
               /\ new[i + 1] = new[i] + Len(sendQueue'[i].payload)
               /\ \A k \in 1..Len(sendQueue'[i].payload) :
                     sendQueue'[i].payload[k] = accepted'[new[i] + k]
        <4> SUFFICES ASSUME NEW i \in 1..Len(sendQueue')
                     PROVE  /\ new[i + 1] = new[i] + Len(sendQueue'[i].payload)
                            /\ \A k \in 1..Len(sendQueue'[i].payload) :
                                  sendQueue'[i].payload[k] = accepted'[new[i] + k]
          OBVIOUS
        <4>1. i + 1 \in 1..L /\ sendQueue'[i] = sendQueue[i + 1]
              /\ new[i] = cut[i + 1] /\ new[i + 1] = cut[i + 1 + 1]
          BY <1>1, <3>2
        <4> HIDE DEF new
        <4> QED  BY <1>4, <1>7, <4>1 DEF Laid
      <3> HIDE DEF new
      <3> QED  BY <3>3, <3>4, <3>5, <3>6, SMTT(30) DEF Laid
    <2>2. CASE size # Len(send.payload) /\ size >= 0
      <3> DEFINE new == [cut EXCEPT ![1] = Len(wire) + n]
      <3>1. /\ Len(sendQueue') = L /\ sendQueue'[1].payload = rest
            /\ \A i \in 1..L : i # 1 => sendQueue'[i] = sendQueue[i]
        <4>1. sendQueue' = [sendQueue EXCEPT ![1].payload =
                             IF size < 0 THEN @ ELSE SubSeq(@, size + 1, Len(@))]
          BY <1>5, <2>2
        <4>2. sendQueue' = [sendQueue EXCEPT ![1] = [send EXCEPT !.payload = rest]]
          <5>1. /\ 1 \in 1..L /\ sendQueue \in [1..L -> Sends] /\ ~(size < 0)
            BY <1>1, <1>3, <2>2, LenProperties
          <5> QED  BY <1>1, <4>1, <5>1 DEF rest
        <4>3. [send EXCEPT !.payload = rest].payload = rest
          BY <1>2 DEF Sends
        <4>4. [send EXCEPT !.payload = rest] \in Sends /\ 1 \in 1..L
          <5>1. rest \in Seq(Bytes)
            BY <1>6, <2>2
          <5>2. 1 \in 1..L
            BY <1>1
          <5> QED  BY <1>2, <5>1, <5>2 DEF Sends
        <4> QED  BY <1>1, <4>2, <4>3, <4>4, ExceptSeq
      <3>2. new \in [1..Len(sendQueue') + 1 -> Nat]
        BY <1>1, <1>6, <1>7, <1>8, <3>1 DEF Laid
      <3>3. new[1] = Len(wire') /\ new[Len(sendQueue') + 1] = Len(accepted')
        BY <1>1, <1>4, <1>7, <1>9, <3>1 DEF Laid
      <3>4. \A i \in 1..Len(sendQueue') + 1 : new[i] <= Len(accepted')
        BY <1>1, <1>4, <1>7, <1>9, <1>11, <3>1, <3>3 DEF Laid
      <3>5. ASSUME NEW i \in 1..Len(sendQueue')
            PROVE  /\ new[i + 1] = new[i] + Len(sendQueue'[i].payload)
                   /\ \A k \in 1..Len(sendQueue'[i].payload) :
                         sendQueue'[i].payload[k] = accepted'[new[i] + k]
        <4>1. CASE i = 1
          <5>1. new[1] = Len(wire) + n /\ new[2] = cut[2]
            BY <1>1, <1>7 DEF Laid
          <5>2. /\ Len(rest) = Len(send.payload) - n /\ Len(send.payload) \in Nat
                /\ \A k \in 1..Len(rest) : rest[k] = send.payload[n + k]
            BY <1>2, <1>6, <2>2
          <5>3. ASSUME NEW k \in 1..Len(rest) PROVE rest[k] = accepted[Len(wire) + n + k]
            <6>1. n + k \in 1..Len(send.payload) /\ Len(wire) + (n + k) = Len(wire) + n + k
              BY <1>6, <1>8, <5>2
            <6> QED  BY <1>8, <5>2, <6>1
          <5> HIDE DEF new
          <5>4. new[2] = new[1] + Len(rest)
            <6> DEFINE w == Len(wire)
                       p == Len(send.payload)
            <6>1. new[2] = w + p /\ new[1] = w + n /\ Len(rest) = p - n
              BY <1>8, <5>1, <5>2
            <6>2. w \in Nat /\ p \in Nat /\ n \in Nat
              BY <1>6, <1>8, <5>2
            <6> HIDE DEF w, p
            <6>3. w + p = (w + n) + (p - n)
              BY <6>2
            <6> QED  BY <6>1, <6>3
          <5> QED  BY <1>4, <3>1, <4>1, <5>1, <5>3, <5>4
        <4>2. CASE i # 1
          BY <1>1, <1>4, <1>7, <3>1, <4>2, SMTT(30) DEF Laid
        <4> QED  BY <4>1, <4>2
      <3> HIDE DEF new
      <3> QED  BY <3>2, <3>3, <3>4, <3>5, SMTT(30) DEF Laid
    <2>3. CASE size < 0
      <3>1. sendQueue' = sendQueue
        <4>1. sendQueue' = [sendQueue EXCEPT ![1].payload = @]
          BY <1>2, <1>3, <1>5, <2>3
        <4>2. sendQueue \in [1..L -> Sends]
          BY <1>1, LenProperties
        <4> QED  BY <4>1, <4>2 DEF Sends
      <3>2. Len(wire') = Len(wire)
        BY <1>8, <1>9, <2>3 DEF n
      <3>3. Laid(cut)'
        BY <1>4, <1>7, <3>1, <3>2 DEF Laid
      <3> QED  BY <3>3
    <2> QED  BY <1>3, <2>1, <2>2, <2>3
  <1> QED  BY <1>4, <1>10, <1>12, <1>13 DEF StreamInv, Written

\* What any step does to the stream.
LEMMA StreamStep ==
    ASSUME TypeOK, TypeOK', StreamInv, [Next]_vars
    PROVE  StreamInv' /\ [Stream!Next]_(Stream!streamVars)
  <1>1. CASE UNCHANGED <<sendQueue, wire, accepted>>
    BY <1>1, StreamKept DEF Stream!streamVars
  <1>2. CASE Connect
    <2>1. sendQueue' = <<>> /\ wire' = <<>> /\ accepted' = <<>> /\ Len(<<>>) = 0
      BY <1>2 DEF Connect, resetConnectionState, NewSocket
    <2>2. Stream!Restart
      BY <2>1 DEF Stream!Restart
    <2> DEFINE cut == [i \in 1..1 |-> 0]
    <2>3. Laid(cut)'
      BY <2>1 DEF Laid
    <2>4. Written'
      BY <2>1 DEF Written
    <2> QED  BY <2>2, <2>3, <2>4 DEF Stream!Next, StreamInv
  <1>3. ASSUME NEW s \in Streams, NEW n \in PayloadSizes, sendDataFrame(s, n)
        PROVE  StreamInv' /\ Stream!Next
    BY <1>3, StreamAccepts DEF Stream!Next, Stream!Accept, IsPrefix, Stream!IsPrefix
  <1>4. CASE FlushStep
    BY <1>4, StreamDelivers DEF Stream!Next, Stream!Deliver, IsPrefix, Stream!IsPrefix
  <1>5. Next => \/ UNCHANGED <<sendQueue, wire, accepted>> \/ Connect \/ FlushStep
                \/ \E s \in Streams, n \in PayloadSizes : sendDataFrame(s, n)
    BY DEF Next, SocketConnected, HandshakeStep, HandshakeDone, Close, FlushReturn,
           applyPeerSettings, WindowUpdate
  <1>6. CASE UNCHANGED vars
    BY <1>1, <1>6 DEF vars
  <1> QED  BY <1>1, <1>2, <1>3, <1>4, <1>5, <1>6

\* What was accepted is laid out from the socket to the end of the queue, always.
LEMMA StreamInductive == Spec => [](TypeOK /\ StreamInv)
  <1>1. Init => StreamInv
    <2> SUFFICES ASSUME Init PROVE StreamInv
      OBVIOUS
    <2> DEFINE cut == [i \in 1..1 |-> 0]
    <2>1. sendQueue = <<>> /\ wire = <<>> /\ accepted = <<>> /\ Len(<<>>) = 0
      BY DEF Init
    <2>2. Laid(cut)
      BY <2>1 DEF Laid
    <2>3. Written
      BY <2>1 DEF Written
    <2> QED  BY <2>2, <2>3 DEF StreamInv
  <1>2. TypeOK /\ TypeOK' /\ StreamInv /\ [Next]_vars => StreamInv'
    BY StreamStep
  <1>3. Spec => []TypeOK
    BY TypeCorrect
  <1> QED  BY <1>1, <1>2, <1>3, PTL DEF Spec

\* The queue, cut into frames by windows and limits and reset by reconnects, is an
\* ordered byte stream: for any streams, sizes and windows, no byte handed to
\* sendDataFrame is lost, repeated, reordered or carried over to a new connection.
THEOREM Refinement == Spec => ImplementsStream
  <1>1. Init => Stream!Init
    BY DEF Init, Stream!Init
  <1>2. TypeOK /\ TypeOK' /\ StreamInv /\ [Next]_vars => [Stream!Next]_(Stream!streamVars)
    BY StreamStep
  <1> QED  BY <1>1, <1>2, StreamInductive, PTL DEF Spec, ImplementsStream, Stream!Spec

-----------------------------------------------------------------------------
(* The flush loop ends. *)

\* The head of the queue is an empty payload and a window is below zero: the next
\* round of the loop writes an empty frame and keeps the payload.
Idles == sendQueue # <<>> /\ FrameSize(Head(sendQueue)) < 0

\* An upper bound of the rounds the loop has left.
RoundsLeft == Len(accepted) - Len(wire) + 2 * Len(sendQueue) + (IF Idles THEN 1 ELSE 0)

\* It is a number, as no more was written than was accepted.
RoundsCount == /\ RoundsLeft \in Nat /\ Len(sendQueue) \in Nat
               /\ Len(accepted) \in Nat /\ Len(wire) \in Nat
LEMMA RoundsLeftType ==
    ASSUME TypeOK, StreamInv
    PROVE  RoundsCount
  <1>1. Len(accepted) \in Nat /\ Len(wire) \in Nat /\ Len(sendQueue) \in Nat
    BY LenProperties DEF TypeOK
  <1>2. Len(wire) <= Len(accepted)
    <2>1. 1 \in 1..Len(sendQueue) + 1
      BY <1>1
    <2> QED  BY <2>1 DEF StreamInv, Laid
  <1> QED  BY <1>1, <1>2 DEF RoundsLeft, RoundsCount

\* What a round finds: the head of the queue, and its frame.
LEMMA RoundBegins ==
    ASSUME TypeOK, FlushStep, NEW send, send = Head(sendQueue), NEW size, size = FrameSize(send)
    PROVE  /\ sendQueue \in Seq(Sends) /\ sendQueue # <<>>
           /\ send \in Sends /\ send.streamId \in Streams
           /\ send.payload \in Seq(Bytes) /\ Len(send.payload) \in Nat
           /\ size \in Int /\ size <= Len(send.payload)
           /\ size <= 0 => Len(send.payload) = 0
  <1>1. sendQueue \in Seq(Sends) /\ sendQueue # <<>>
    BY DEF TypeOK, FlushStep, Sends
  <1>2. send \in Sends
    BY <1>1, HeadTailProperties
  <1>3. send.streamId \in Streams /\ send.payload \in Seq(Bytes) /\ Len(send.payload) \in Nat
    BY <1>2, LenProperties DEF Sends
  <1>4. size \in Int /\ size <= Len(send.payload)
    BY <1>2, FrameSizeLeast DEF Sends
  <1>5. ~(size <= 0 /\ Len(send.payload) > 0)
    BY DEF FlushStep, Blocked
  <1> QED  BY <1>1, <1>2, <1>3, <1>4, <1>5

\* A round that idles lifts both windows of the head, one of them to zero, and
\* changes neither the queue nor the bytes.
LEMMA IdlesOnce ==
    ASSUME TypeOK, FlushStep, Idles
    PROVE  ~Idles' /\ UNCHANGED <<sendQueue, wire, accepted>>
  <1>1. PICK send : send = Head(sendQueue)
    OBVIOUS
  <1>2. PICK size : size = FrameSize(send)
    OBVIOUS
  <1>3. /\ sendQueue \in Seq(Sends) /\ send \in Sends /\ send.streamId \in Streams
        /\ Len(send.payload) = 0 /\ size \in Int /\ size < 0
    <2>1. size < 0
      BY <1>1, <1>2 DEF Idles
    <2> QED  BY <1>1, <1>2, <2>1, RoundBegins
  <1>4. /\ wire' = wire \o SubSeq(send.payload, 1, size) /\ accepted' = accepted
        /\ connectionSendWindow' = connectionSendWindow - size
        /\ streamSendWindows' = Adjusted([s \in {send.streamId} |-> -size])
        /\ UNCHANGED <<peerMaxFrameSize, peerInitialWindowSize>>
        /\ sendQueue' = IF size = Len(send.payload) THEN Tail(sendQueue)
                        ELSE [sendQueue EXCEPT ![1].payload =
                                IF size < 0 THEN @ ELSE SubSeq(@, size + 1, Len(@))]
    BY <1>1, <1>2 DEF FlushStep
  <1>5. wire' = wire
    <2>1. SubSeq(send.payload, 1, size) = <<>>
      BY <1>3, SubSeqEmpty
    <2>2. wire \in Seq(Bytes)
      BY DEF TypeOK
    <2> QED  BY <1>4, <2>1, <2>2, ConcatEmptySeq
  <1>6. sendQueue' = sendQueue
    <2>1. sendQueue' = [sendQueue EXCEPT ![1].payload = @]
      BY <1>3, <1>4
    <2>2. sendQueue \in [1..Len(sendQueue) -> Sends]
      BY <1>3, LenProperties
    <2> QED  BY <2>1, <2>2 DEF Sends
  <1> DEFINE c == sendWindow(0)
             w == sendWindow(send.streamId)
  <1>7. /\ c \in Int /\ w \in Int /\ peerMaxFrameSize \in Nat
        /\ size = Least(Least(0, peerMaxFrameSize), Least(c, w))
    <2>1. c \in Int /\ w \in Int
      BY <1>3, SendWindowType DEF Windows
    <2>2. peerMaxFrameSize \in Nat
      BY DEF TypeOK
    <2> QED  BY <1>2, <1>3, <2>1, <2>2 DEF FrameSize
  <1>8. c' = c - size /\ w' = w - size
    <2>1. c' = c - size
      BY <1>4 DEF sendWindow
    <2>2. w' = w - size
      BY <1>3, <1>4, AdjustedOne
    <2> QED  BY <2>1, <2>2
  <1>9. FrameSize(send)' = Least(Least(0, peerMaxFrameSize), Least(c - size, w - size))
    BY <1>3, <1>4, <1>8 DEF FrameSize
  <1> HIDE DEF c, w
  <1>10. FrameSize(send)' = 0
    BY <1>3, <1>7, <1>9 DEF Least
  <1>11. Head(sendQueue)' = send
    BY <1>1, <1>6
  <1>12. FrameSize(Head(sendQueue))' = FrameSize(send)'
    BY <1>11 DEF FrameSize, sendWindow
  <1>13. ~Idles'
    BY <1>10, <1>12 DEF Idles
  <1> QED  BY <1>4, <1>5, <1>6, <1>13

\* Any other round writes a byte or takes a payload from the queue.
LEMMA WritesOrRemoves ==
    ASSUME TypeOK, TypeOK', FlushStep, ~Idles
    PROVE  /\ Len(accepted') = Len(accepted)
           /\ \/ Len(wire') >= Len(wire) /\ Len(sendQueue') = Len(sendQueue) - 1
              \/ Len(wire') > Len(wire) /\ Len(sendQueue') = Len(sendQueue) /\ ~Idles'
  <1>1. PICK send : send = Head(sendQueue)
    OBVIOUS
  <1>2. PICK size : size = FrameSize(send)
    OBVIOUS
  <1>3. /\ sendQueue \in Seq(Sends) /\ sendQueue # <<>> /\ send \in Sends
        /\ send.streamId \in Streams
        /\ send.payload \in Seq(Bytes) /\ Len(send.payload) \in Nat
        /\ size \in 0..Len(send.payload) /\ (size = 0 => Len(send.payload) = 0)
    <2>1. size \in Int /\ ~(size < 0)
      BY <1>1, <1>2, RoundBegins DEF Idles
    <2> QED  BY <1>1, <1>2, <2>1, RoundBegins
  <1>4. /\ wire' = wire \o SubSeq(send.payload, 1, size) /\ accepted' = accepted
        /\ connectionSendWindow' = connectionSendWindow - size
        /\ streamSendWindows' = Adjusted([s \in {send.streamId} |-> -size])
        /\ UNCHANGED <<peerMaxFrameSize, peerInitialWindowSize>>
        /\ sendQueue' = IF size = Len(send.payload) THEN Tail(sendQueue)
                        ELSE [sendQueue EXCEPT ![1].payload =
                                IF size < 0 THEN @ ELSE SubSeq(@, size + 1, Len(@))]
    BY <1>1, <1>2 DEF FlushStep
  <1>5. Len(wire') = Len(wire) + size /\ Len(wire) \in Nat
    <2>1. SubSeq(send.payload, 1, size) \in Seq(Bytes) /\ Len(SubSeq(send.payload, 1, size)) = size
      BY <1>3, SlicedAt
    <2>2. wire \in Seq(Bytes)
      BY DEF TypeOK
    <2> QED  BY <1>4, <2>1, <2>2, JoinedAt
  <1>6. CASE size = Len(send.payload)
    <2>1. Len(sendQueue') = Len(sendQueue) - 1
      BY <1>3, <1>4, <1>6, HeadTailProperties
    <2> QED  BY <1>3, <1>4, <1>5, <2>1
  <1>7. CASE size # Len(send.payload)
    <2>1. size > 0 /\ 1 \in 1..Len(sendQueue) /\ Len(sendQueue) \in Nat
      BY <1>3, <1>7, EmptySeq
    <2> DEFINE rest == SubSeq(send.payload, size + 1, Len(send.payload))
    <2>2. rest \in Seq(Bytes) /\ Len(rest) > 0
      <3>1. rest \in Seq(Bytes) /\ Len(rest) = Len(send.payload) - size
        BY <1>3, SlicedAt
      <3> HIDE DEF rest
      <3> QED  BY <1>3, <1>7, <3>1
    <2>3. sendQueue' = [sendQueue EXCEPT ![1] = [send EXCEPT !.payload = rest]]
      <3>1. sendQueue' = [sendQueue EXCEPT ![1].payload = SubSeq(@, size + 1, Len(@))]
        <4>1. ~(size < 0)
          BY <1>3
        <4> QED  BY <1>4, <1>7, <4>1
      <3>2. sendQueue[1] = send /\ sendQueue \in [1..Len(sendQueue) -> Sends]
        BY <1>1, <1>3, LenProperties
      <3> QED  BY <2>1, <3>1, <3>2
    <2>4. /\ [send EXCEPT !.payload = rest] \in Sends
          /\ [send EXCEPT !.payload = rest].payload = rest
          /\ [send EXCEPT !.payload = rest].streamId = send.streamId
      <3> HIDE DEF rest
      <3> QED  BY <1>3, <2>2 DEF Sends
    <2> HIDE DEF rest
    <2>5. PICK left : left = [send EXCEPT !.payload = rest]
      OBVIOUS
    <2>6. /\ Len(sendQueue') = Len(sendQueue) /\ sendQueue'[1] = left
          /\ left \in Sends /\ left.payload = rest /\ left.streamId = send.streamId
      BY <1>3, <2>1, <2>3, <2>4, <2>5, ExceptSeq
    <2>7. Head(sendQueue)' = left
      BY <2>6
    <2>8. FrameSize(left)' \in Nat
      <3> DEFINE c == sendWindow(0)
                 w == sendWindow(send.streamId)
      <3>1. size <= c /\ size <= w /\ c \in Int /\ w \in Int
        <4>1. c \in Int /\ w \in Int
          BY <1>3, SendWindowType DEF Windows
        <4> QED  BY <1>2, <1>3, <4>1, FrameSizeLeast DEF Sends
      <3>2. c' = c - size
        BY <1>4 DEF sendWindow
      <3>3. w' = w - size
        <4>1. sendWindow(send.streamId)' = sendWindow(send.streamId) - size
          <5>1. streamSendWindows' = Adjusted([r \in {send.streamId} |-> -size])
                /\ peerInitialWindowSize' = peerInitialWindowSize
            BY <1>4
          <5>2. send.streamId \in Streams /\ size \in Int
            BY <1>3
          <5> QED  BY <5>1, <5>2, AdjustedOne
        <4> QED  BY <4>1
      <3>4. peerMaxFrameSize' \in Nat
        BY DEF TypeOK
      <3>5. FrameSize(left)' = Least(Least(Len(rest), peerMaxFrameSize'), Least(c', w'))
        BY <2>6 DEF FrameSize
      <3> HIDE DEF c, w
      <3>6. c' \in Nat /\ w' \in Nat
        BY <1>3, <3>1, <3>2, <3>3
      <3>7. Len(rest) \in Nat
        BY <2>2, LenProperties
      <3> QED  BY <3>4, <3>5, <3>6, <3>7 DEF Least
    <2>9. ~Idles'
      <3>1. FrameSize(Head(sendQueue))' = FrameSize(left)'
        BY <2>7 DEF FrameSize, sendWindow
      <3>2. FrameSize(Head(sendQueue))' \in Nat
        BY <2>8, <3>1
      <3>3. FrameSize(Head(sendQueue))' < 0 => FALSE
        BY <3>2
      <3> QED  BY <3>3 DEF Idles
    <2>10. accepted' = accepted /\ size \in Nat
      BY <1>3, <1>4
    <2>11. Len(wire') > Len(wire)
      BY <1>5, <2>1, <2>10
    <2>12. Len(accepted') = Len(accepted) /\ Len(sendQueue') = Len(sendQueue)
      BY <2>6, <2>10
    <2> QED  BY <2>9, <2>11, <2>12
  <1> QED  BY <1>6, <1>7

\* flushPendingSends is synchronous, so a loop that went on would stop the process:
\* whatever the sizes and the windows, empty payloads and windows below zero
\* included, each round leaves fewer rounds to come.
THEOREM FlushEnds == Spec => [][FlushStep => RoundsLeft \in Nat /\ RoundsLeft' \in Nat
                                             /\ RoundsLeft' < RoundsLeft]_vars
  <1>1. ASSUME TypeOK, TypeOK', RoundsCount, RoundsCount', FlushStep
        PROVE  RoundsLeft \in Nat /\ RoundsLeft' \in Nat /\ RoundsLeft' < RoundsLeft
    <2>1. RoundsLeft \in Nat /\ RoundsLeft' \in Nat
      BY <1>1 DEF RoundsCount
    <2>2. /\ Len(accepted) \in Nat /\ Len(wire) \in Nat /\ Len(sendQueue) \in Nat
          /\ Len(accepted') \in Nat /\ Len(wire') \in Nat /\ Len(sendQueue') \in Nat
      BY <1>1 DEF RoundsCount
    <2>3. CASE Idles
      <3>1. ~Idles' /\ UNCHANGED <<sendQueue, wire, accepted>>
        BY <1>1, <2>3, IdlesOnce
      <3> QED  BY <2>1, <2>2, <2>3, <3>1 DEF RoundsLeft
    <2>4. CASE ~Idles
      <3>1. /\ Len(accepted') = Len(accepted)
            /\ \/ Len(wire') >= Len(wire) /\ Len(sendQueue') = Len(sendQueue) - 1
               \/ Len(wire') > Len(wire) /\ Len(sendQueue') = Len(sendQueue) /\ ~Idles'
        BY <1>1, <2>4, WritesOrRemoves
      <3> QED  BY <2>1, <2>2, <2>4, <3>1 DEF RoundsLeft
    <2> QED  BY <2>1, <2>3, <2>4
  <1>2. /\ TypeOK /\ TypeOK' /\ RoundsCount /\ RoundsCount' /\ [Next]_vars
        => [FlushStep => RoundsLeft \in Nat /\ RoundsLeft' \in Nat /\ RoundsLeft' < RoundsLeft]_vars
    BY <1>1
  <1>3. TypeOK /\ StreamInv => RoundsCount
    BY RoundsLeftType
  <1> QED  BY <1>2, <1>3, StreamInductive, PTL DEF Spec

=============================================================================
