--------------------------- MODULE XpcFlowControl ---------------------------
(***************************************************************************)
(* The sending half of RemoteXpcFramedTransport: the queue of payloads,    *)
(* the HTTP/2 send windows the device grants, the handshake that writes    *)
(* DATA past that accounting and debits it afterwards, and the reset of it *)
(* all on a reconnect.                                                     *)
(*                                                                         *)
(* A payload is a sequence of bytes <<stream, n, k>> (byte k of the n-th   *)
(* payload accepted on this connection), so that slicing it is SubSeq and  *)
(* its length is Len.  The loop of flushPendingSends runs to completion in *)
(* one JavaScript task: its iterations are the steps of FlushStep, and     *)
(* while `flushing' holds no other action is enabled.                      *)
(***************************************************************************)
EXTENDS Integers, Sequences, FiniteSets, SequencesExt

CONSTANTS
    Streams,        \* the HTTP/2 streams payloads are sent on
    Root, Reply,    \* ROOT_CHANNEL and REPLY_CHANNEL, the handshake's streams
    DefaultWindow,  \* DEFAULT_PEER_WINDOW_SIZE
    DefaultFrame,   \* DEFAULT_PEER_MAX_FRAME_SIZE
    HandshakeBytes, \* the length of each DATA payload of the handshake
    PayloadSizes,   \* lengths of the payloads callers send
    WindowSizes,    \* SETTINGS_INITIAL_WINDOW_SIZE values the device may send
    FrameSizes,     \* SETTINGS_MAX_FRAME_SIZE values the device may send
    Increments,     \* WINDOW_UPDATE increments the device may send
    MaxPayloads,    \* bound: payloads accepted on one connection
    MaxSettings,    \* bound: SETTINGS frames received on one connection
    MaxCredit,      \* bound: increments received for one window
    MaxConnects     \* bound: calls of connect()

ASSUME StreamsAssumption ==
    /\ Streams \subseteq Nat \ {0}
    /\ Root \in Streams /\ Reply \in Streams /\ Root # Reply

ASSUME SizesAssumption ==
    /\ DefaultWindow \in Nat /\ DefaultFrame \in Nat \ {0} /\ HandshakeBytes \in Nat
    /\ PayloadSizes \subseteq Nat
    /\ WindowSizes \subseteq Nat /\ FrameSizes \subseteq Nat \ {0}
    /\ Increments \subseteq Nat

ASSUME BoundsAssumption ==
    /\ MaxPayloads \in Nat /\ MaxSettings \in Nat
    /\ MaxCredit \in Nat /\ MaxConnects \in Nat

VARIABLES
    phase,                  \* how far connect() has come on the current socket
    handshakeNext,          \* index of the next handshake frame
    dataBytesSent,          \* Handshake.dataBytesSent, plus their total under 0
    peerMaxFrameSize,
    peerInitialWindowSize,
    connectionSendWindow,
    streamSendWindows,      \* a Map: a function on the streams it has
    sendQueue,
    flushing,               \* inside the loop of flushPendingSends
    \* what the other end of the socket has seen and granted
    sent,                   \* DATA bytes written per stream, and in all under 0
    credit,                 \* WINDOW_UPDATE increments handled per window
    wire,                   \* bytes of queued payloads written, in order
    accepted,               \* bytes of the payloads sendDataFrame took, in order
    payloads, settings, connects    \* counters for the bounds

handshakeVars == <<handshakeNext, dataBytesSent>>
windowVars == <<peerMaxFrameSize, peerInitialWindowSize,
                connectionSendWindow, streamSendWindows>>
vars == <<phase, handshakeVars, windowVars, sendQueue, flushing, sent, credit,
          wire, accepted, payloads, settings, connects>>

\* The connection-level window has the number 0.
Windows == {0} \cup Streams

\* The frames Handshake.perform() writes, by type and stream, in order.
HandshakeFrames ==
    << [type |-> "magic",        stream |-> 0],
       [type |-> "settings",     stream |-> 0],
       [type |-> "windowUpdate", stream |-> 0],
       [type |-> "headers",      stream |-> Root],
       [type |-> "data",         stream |-> Root],
       [type |-> "headers",      stream |-> Reply],
       [type |-> "data",         stream |-> Root],
       [type |-> "data",         stream |-> Reply],
       [type |-> "settings",     stream |-> 0] >>

\* this.socket is set and neither ended nor destroyed: its `writable' is true,
\* also while it still connects, when Node keeps what is written.
writable == phase # "closed"

\* The socket delivers what the device sends.
readable == phase \in {"handshake", "connected"}

\* Mutant: a stream without an entry is taken to have the default window.
sendWindow_Default(w) ==
    IF w = 0 THEN connectionSendWindow
    ELSE IF w \in DOMAIN streamSendWindows THEN streamSendWindows[w]
         ELSE DefaultWindow

sendWindow(w) ==
    IF w = 0 THEN connectionSendWindow
    ELSE IF w \in DOMAIN streamSendWindows THEN streamSendWindows[w]
         ELSE peerInitialWindowSize

\* streamSendWindows after adjustSendWindow(s, deltas[s]) for the streams of deltas.
Adjusted(deltas) ==
    [s \in DOMAIN streamSendWindows \cup DOMAIN deltas |->
        IF s \in DOMAIN deltas THEN sendWindow(s) + deltas[s] ELSE streamSendWindows[s]]

\* Mutant: the connection-level window is kept in the Map of the streams'.
adjustSendWindow_OneMap(w, n) ==
    /\ streamSendWindows' = Adjusted([s \in {w} |-> n])
    /\ UNCHANGED connectionSendWindow

adjustSendWindow(w, n) ==
    IF w = 0
    THEN /\ connectionSendWindow' = connectionSendWindow + n
         /\ UNCHANGED streamSendWindows
    ELSE /\ streamSendWindows' = Adjusted([s \in {w} |-> n])
         /\ UNCHANGED connectionSendWindow

NoBytes == [w \in Windows |-> 0]

\* n more bytes on stream s, counted for the stream and for the connection.
Count(f, s, n) == [w \in Windows |-> IF w \in {0, s} THEN f[w] + n ELSE f[w]]

-----------------------------------------------------------------------------
\* A transport that has never connected: the fields as the class initialises them.
Init ==
    /\ phase = "closed"
    /\ handshakeNext = 1 /\ dataBytesSent = NoBytes
    /\ peerMaxFrameSize = DefaultFrame
    /\ peerInitialWindowSize = DefaultWindow
    /\ connectionSendWindow = DefaultWindow
    /\ streamSendWindows = [s \in {} |-> 0]
    /\ sendQueue = <<>> /\ flushing = FALSE
    /\ sent = NoBytes /\ credit = NoBytes
    /\ wire = <<>> /\ accepted = <<>>
    /\ payloads = 0 /\ settings = 0 /\ connects = 0

\* Mutant: payloads still queued are kept for the new connection.
resetConnectionState_KeepQueue ==
    /\ peerMaxFrameSize' = DefaultFrame
    /\ peerInitialWindowSize' = DefaultWindow
    /\ connectionSendWindow' = DefaultWindow
    /\ streamSendWindows' = [s \in {} |-> 0]
    /\ sendQueue' = sendQueue

\* resetConnectionState(), and a new socket, on which nothing was sent or granted.
resetConnectionState ==
    /\ peerMaxFrameSize' = DefaultFrame
    /\ peerInitialWindowSize' = DefaultWindow
    /\ connectionSendWindow' = DefaultWindow
    /\ streamSendWindows' = [s \in {} |-> 0]
    /\ sendQueue' = <<>>

NewSocket ==
    /\ sent' = NoBytes /\ credit' = NoBytes
    /\ wire' = <<>> /\ accepted' = <<>>
    /\ payloads' = 0 /\ settings' = 0

\* connect() up to its first await.
Connect ==
    /\ ~flushing /\ phase = "closed" /\ connects < MaxConnects
    /\ resetConnectionState
    /\ NewSocket
    /\ phase' = "connecting"
    /\ handshakeNext' = 1 /\ dataBytesSent' = NoBytes
    /\ connects' = connects + 1
    /\ UNCHANGED flushing

\* The socket's 'connect' event: the handshake starts.
SocketConnected ==
    /\ ~flushing /\ phase = "connecting"
    /\ phase' = "handshake"
    /\ UNCHANGED <<handshakeVars, windowVars, sendQueue, flushing, sent, credit,
                   wire, accepted, payloads, settings, connects>>

\* One `await this.sendFrame(...)' of Handshake.perform().  DATA goes straight
\* to the socket: it is neither queued nor held back by a window.
HandshakeStep ==
    /\ ~flushing /\ phase = "handshake" /\ handshakeNext <= Len(HandshakeFrames)
    /\ handshakeNext' = handshakeNext + 1
    /\ LET frame == HandshakeFrames[handshakeNext]
       IN  IF frame.type = "data"
           THEN /\ dataBytesSent' = Count(dataBytesSent, frame.stream, HandshakeBytes)
                /\ sent' = Count(sent, frame.stream, HandshakeBytes)
           ELSE UNCHANGED <<dataBytesSent, sent>>
    /\ UNCHANGED <<phase, windowVars, sendQueue, flushing, credit,
                   wire, accepted, payloads, settings, connects>>

\* The end of connect(): consumeSendWindow for what the handshake sent on each
\* of its streams, then connected = true.
HandshakeDone ==
    /\ ~flushing /\ phase = "handshake" /\ handshakeNext > Len(HandshakeFrames)
    /\ connectionSendWindow' = connectionSendWindow - dataBytesSent[0]
    /\ streamSendWindows' = Adjusted([s \in {Root, Reply} |-> -dataBytesSent[s]])
    /\ dataBytesSent' = NoBytes
    /\ phase' = "connected"
    /\ UNCHANGED <<handshakeNext, peerMaxFrameSize, peerInitialWindowSize, sendQueue,
                   flushing, sent, credit, wire, accepted, payloads, settings, connects>>

\* close(), a failed or timed out connect(), RST_STREAM, GOAWAY, a desync or a
\* lost socket.  The queue keeps what it holds until the next connect().
Close ==
    /\ ~flushing /\ phase # "closed"
    /\ phase' = "closed"
    /\ UNCHANGED <<handshakeVars, windowVars, sendQueue, flushing, sent, credit,
                   wire, accepted, payloads, settings, connects>>

-----------------------------------------------------------------------------
\* sendDataFrame(payload, streamId), up to the call of flushPendingSends.
sendDataFrame(s, n) ==
    /\ ~flushing /\ writable /\ payloads < MaxPayloads
    /\ LET payload == [k \in 1..n |-> <<s, payloads + 1, k>>]
       IN  /\ sendQueue' = Append(sendQueue, [streamId |-> s, payload |-> payload])
           /\ accepted' = accepted \o payload
    /\ payloads' = payloads + 1
    /\ flushing' = TRUE
    /\ UNCHANGED <<phase, handshakeVars, windowVars, sent, credit, wire, settings, connects>>

Least(a, b) == IF a <= b THEN a ELSE b

\* Mutant: the connection-level window is left out of the minimum.
FrameSize_NoConnectionWindow(send) ==
    Least(Least(Len(send.payload), peerMaxFrameSize), sendWindow(send.streamId))

\* Math.min of the four limits of a DATA frame for the head of the queue.
FrameSize(send) ==
    Least(Least(Len(send.payload), peerMaxFrameSize),
          Least(sendWindow(0), sendWindow(send.streamId)))

\* Mutant: a payload is held back until it fits as a whole.
Blocked_Partial(send) == FrameSize(send) < Len(send.payload)

\* The head of the queue cannot be written now.
Blocked(send) == FrameSize(send) <= 0 /\ Len(send.payload) > 0

\* One iteration of the loop of flushPendingSends that writes a DATA frame.
\* subarray(0, size) of an empty payload is empty whatever `size' is.
FlushStep ==
    /\ flushing /\ writable /\ sendQueue # <<>>
    /\ LET send == Head(sendQueue)
           size == FrameSize(send)
       IN  /\ ~Blocked(send)
           /\ wire' = wire \o SubSeq(send.payload, 1, size)
           /\ sent' = Count(sent, send.streamId, Len(SubSeq(send.payload, 1, size)))
           /\ connectionSendWindow' = connectionSendWindow - size
           /\ streamSendWindows' = Adjusted([s \in {send.streamId} |-> -size])
           /\ sendQueue' =
                IF size = Len(send.payload)
                THEN Tail(sendQueue)
                ELSE [sendQueue EXCEPT ![1].payload =
                        IF size < 0 THEN @ ELSE SubSeq(@, size + 1, Len(@))]
    /\ UNCHANGED <<phase, handshakeVars, peerMaxFrameSize, peerInitialWindowSize, flushing,
                   credit, accepted, payloads, settings, connects>>

\* flushPendingSends returns: nothing to write, or its head is blocked.
FlushReturn ==
    /\ flushing
    /\ writable /\ sendQueue # <<>> => Blocked(Head(sendQueue))
    /\ flushing' = FALSE
    /\ UNCHANGED <<phase, handshakeVars, windowVars, sendQueue, sent, credit,
                   wire, accepted, payloads, settings, connects>>

-----------------------------------------------------------------------------
\* handleData on a SETTINGS frame: applyPeerSettings shifts every recorded window
\* by the change of INITIAL_WINDOW_SIZE, then the queue is flushed.  A setting the
\* frame leaves out acts as one that repeats the current value.
applyPeerSettings(maxFrame, initial) ==
    /\ ~flushing /\ readable /\ settings < MaxSettings
    /\ peerMaxFrameSize' = maxFrame
    /\ peerInitialWindowSize' = initial
    /\ streamSendWindows' =
         [s \in DOMAIN streamSendWindows |->
             streamSendWindows[s] + (initial - peerInitialWindowSize)]
    /\ settings' = settings + 1
    /\ flushing' = TRUE
    /\ UNCHANGED <<phase, handshakeVars, connectionSendWindow, sendQueue,
                   sent, credit, wire, accepted, payloads, connects>>

\* handleData on a WINDOW_UPDATE frame, then a flush.
WindowUpdate(w, n) ==
    /\ ~flushing /\ readable /\ credit[w] + n <= MaxCredit
    /\ adjustSendWindow(w, n)
    /\ credit' = [credit EXCEPT ![w] = @ + n]
    /\ flushing' = TRUE
    /\ UNCHANGED <<phase, handshakeVars, peerMaxFrameSize, peerInitialWindowSize, sendQueue,
                   sent, wire, accepted, payloads, settings, connects>>

Next ==
    \/ Connect \/ SocketConnected \/ HandshakeStep \/ HandshakeDone \/ Close
    \/ \E s \in Streams, n \in PayloadSizes : sendDataFrame(s, n)
    \/ FlushStep \/ FlushReturn
    \/ \E maxFrame \in FrameSizes \cup {peerMaxFrameSize},
          initial \in WindowSizes \cup {peerInitialWindowSize} :
            applyPeerSettings(maxFrame, initial)
    \/ \E w \in Windows, n \in Increments : WindowUpdate(w, n)

Spec == Init /\ [][Next]_vars

\* The device replenishes a window that holds back the head of the queue.
Replenish ==
    /\ sendQueue # <<>>
    /\ \E w \in {0, Head(sendQueue).streamId}, n \in Increments :
          sendWindow(w) <= 0 /\ WindowUpdate(w, n)

\* The flush loop is one synchronous call and always returns; a socket connects or
\* runs into the timeout of connect(); the device grants new credit to a sender it
\* has stalled, as HTTP/2 obliges a receiver that consumes what it is sent.
FairSpec ==
    /\ Spec
    /\ WF_vars(FlushStep) /\ WF_vars(FlushReturn)
    /\ WF_vars(phase = "connecting" /\ (SocketConnected \/ Close))
    /\ WF_vars(Replenish)

-----------------------------------------------------------------------------
Bytes == Streams \X Nat \X Nat

TypeOK ==
    /\ phase \in {"closed", "connecting", "handshake", "connected"}
    /\ handshakeNext \in 1..(Len(HandshakeFrames) + 1)
    /\ dataBytesSent \in [Windows -> Nat]
    /\ peerMaxFrameSize \in Nat \ {0} /\ peerInitialWindowSize \in Nat
    /\ connectionSendWindow \in Int
    /\ DOMAIN streamSendWindows \subseteq Streams
    /\ streamSendWindows \in [DOMAIN streamSendWindows -> Int]
    /\ sendQueue \in Seq([streamId : Streams, payload : Seq(Bytes)])
    /\ flushing \in BOOLEAN
    /\ sent \in [Windows -> Nat] /\ credit \in [Windows -> Nat]
    /\ wire \in Seq(Bytes) /\ accepted \in Seq(Bytes)
    /\ payloads \in Nat /\ settings \in Nat /\ connects \in Nat

\* What the device has granted for a window since the connection was opened.
Granted(w) == credit[w] + (IF w = 0 THEN DefaultWindow ELSE peerInitialWindowSize)

\* The send windows kept by sendWindow, adjustSendWindow and applyPeerSettings are
\* exact at every moment, whatever the order in which SETTINGS, WINDOW_UPDATE, the
\* handshake and its late debit come: a window is what the device granted, less
\* what was written, except for handshake bytes connect() has still to debit.
WindowAccounting ==
    \A w \in Windows : sendWindow(w) = Granted(w) - sent[w] + dataBytesSent[w]

\* flushPendingSends never writes past a window: after a DATA frame from the queue
\* the bytes sent on its stream and on the connection are within what the device
\* granted, up to handshake bytes not debited yet (none once connect() resolved).
FlushWithinGrant ==
    [][flushing => \A w \in Windows :
          \/ sent'[w] = sent[w]
          \/ sent'[w] - dataBytesSent'[w] <= Granted(w)']_vars

\* No wake-up is lost: whenever no handler is running, a payload that stays queued
\* on a live socket is held back by a window the device has exhausted.
WorkConserving ==
    ~flushing /\ writable /\ sendQueue # <<>> =>
        \/ sendWindow(0) <= 0
        \/ sendWindow(Head(sendQueue).streamId) <= 0

\* A payload accepted on a connection is written in full, or the connection ends.
Drains == (sendQueue # <<>> /\ writable) ~> (sendQueue = <<>> \/ phase = "closed")

\* The queue and the windows implement an ordered byte stream: nothing is lost,
\* repeated or reordered, across streams too, and nothing queued for an earlier
\* connection goes out on the next.
Stream == INSTANCE OrderedByteStream WITH delivered <- wire
ImplementsStream == Stream!Spec
=============================================================================
