---------------------------- MODULE AfcConnection ----------------------------
(***************************************************************************)
(* The connection of the AFC client: AfcService (services/ios/afc/index.ts)*)
(* with its AfcPacketDemux (services/ios/afc/demux.ts).                    *)
(*                                                                         *)
(* Concurrent operations share one socket.  A demux numbers their packets, *)
(* sends them under a lock and matches replies by number in a reader loop  *)
(* per socket.  The first operation opens the socket; a connection error   *)
(* marks the service dead until close() or reconnect().  A service made    *)
(* from a socket cannot open another one.                                  *)
(*                                                                         *)
(* The function sendAndWait runs under the lock returns the promise of the *)
(* reply, and an async function settles only when the promise it returns   *)
(* does: the lock is held until the reply, and before that for as long as  *)
(* the socket takes the packet in, which no timer bounds.                  *)
(*                                                                         *)
(* An action runs from one wait on the network, the lock or a reply to the *)
(* next.  The rejection of an operation reaches its caller in a step of    *)
(* its own (Catch), since other code runs in between.                      *)
(***************************************************************************)
EXTENDS Naturals, FiniteSets, Sequences

CONSTANTS
    Ops,         \* operations: listdir, fopen, fread, ...
    Reconnects,  \* calls to reconnect()
    Closes,      \* calls to close()
    None,
    MaxSockets   \* sockets there is room to number

Calls == Ops \cup Reconnects \cup Closes
Sockets == 1..MaxSockets
\* close() and reconnect() discard the demux; each is replaced at most once.
Demuxes == 1..(1 + Cardinality(Closes \cup Reconnects))

\* A call is of one kind.
CallsAssumption ==
    /\ IsFiniteSet(Calls)
    /\ Ops \cap (Reconnects \cup Closes) = {} /\ Reconnects \cap Closes = {}
ASSUME CallsAssumption

\* Every operation and every reconnect opens at most one socket.
SocketsAssumption ==
    /\ MaxSockets \in Nat /\ MaxSockets > Cardinality(Ops \cup Reconnects)
    /\ None \notin Sockets \cup Demuxes \cup Calls
ASSUME SocketsAssumption

VARIABLES
    redial,           \* whether the service can open a socket: it has a udid
    socket,           \* AfcService.socket
    demux,            \* AfcService.demux, or None
    connectionError,  \* whether AfcService.connectionError is set
    sock,             \* per socket: its state
    dmx,              \* per demux: its fields
    readers,          \* the reader loops that run, <<demux, socket>>
    call,             \* per call: where it is, its demux, socket and packet
    packets,          \* packets the device has not answered
    answer            \* per operation: whose packet its reply answered
vars == <<redial, socket, demux, connectionError, sock, dmx, readers, call, packets, answer>>

\* A service made from a socket starts with socket 1 open and cannot open another.
Init ==
    /\ redial \in BOOLEAN
    /\ socket = IF redial THEN None ELSE 1
    /\ demux = None
    /\ connectionError = FALSE
    /\ sock = [s \in Sockets |-> IF s = 1 /\ ~redial THEN "open" ELSE "unused"]
    /\ dmx = [d \in Demuxes |->
                [used |-> FALSE, stopped |-> FALSE, readerSocket |-> None,
                 readerActive |-> FALSE, packetNum |-> 0, pending |-> {},
                 lock |-> <<>>]]
    /\ readers = {}
    /\ call = [c \in Calls |-> [pc |-> "idle", demux |-> None, socket |-> None, num |-> 0]]
    /\ packets = {}
    /\ answer = [o \in Ops |-> None]

-----------------------------------------------------------------------------
(* Helpers *)

At(c, pc) == call[c].pc = pc
Goto(f, C, pc) == [c \in Calls |-> IF c \in C THEN [f[c] EXCEPT !.pc = pc] ELSE f[c]]
usable == socket # None /\ sock[socket] = "open"
Destroy(s) == [sock EXCEPT ![s] = "destroyed"]

\* _getDemux(): the demux in use, or the next one not used yet.
_getDemux == IF demux # None THEN demux
             ELSE CHOOSE d \in Demuxes : ~dmx[d].used /\ \A e \in 1..(d - 1) : dmx[e].used
Using(d) == [dmx EXCEPT ![d].used = TRUE]

\* ensureReaderStarted(s), of a demux that is not stopped: a reader loop per socket.
ensureReaderStarted(D, d, s) ==
    [D EXCEPT ![d].used = TRUE, ![d].readerSocket = s, ![d].readerActive = TRUE]
\* Mutant: any reader that runs will do.
StartReader_Any(d, s) == IF dmx[d].readerActive THEN readers ELSE readers \cup {<<d, s>>}
StartReader(d, s) == IF dmx[d].readerActive /\ dmx[d].readerSocket = s
                     THEN readers ELSE readers \cup {<<d, s>>}

\* The operations that await the promise of their waiter; one that still writes
\* its packet does not yet.
Waiters(d) == {w.op : w \in dmx[d].pending}
Awaiting(W) == {w.op : w \in {v \in W : At(v.op, "waiting")}}
Awaited(d) == Awaiting(dmx[d].pending)
\* The lock when S settle: an operation that awaits has it.
Released(lock, S) == IF S = {} THEN lock ELSE Tail(lock)

\* _failPending(): every waiter is rejected, and an operation that awaits its
\* waiter gives up the lock.
\* Mutant: the waiters are rejected but stay registered.
_failPending_Registered(D, d) ==
    [D EXCEPT ![d].lock = Released(@, Awaiting(D[d].pending))]
_failPending(D, d) ==
    [D EXCEPT ![d].pending = {},
              ![d].lock = Released(@, Awaiting(D[d].pending))]
\* Mutant: the waiters are forgotten, their promises never settle.
Rejected_Forgotten(d) == Goto(call, Awaited(d), "forgotten")
Rejected(d) == Goto(call, Awaited(d), "failing")

\* Mutant: the socket of a dead connection is left open.
_markConnectionDead_Open(sk) ==
    /\ connectionError' = TRUE
    /\ socket' = IF connectionError THEN socket ELSE None
    /\ sock' = sk
\* _markConnectionDead(): the first error destroys the socket in use.
_markConnectionDead(sk) ==
    /\ connectionError' = TRUE
    /\ socket' = IF connectionError THEN socket ELSE None
    /\ sock' = [s \in Sockets |-> IF s = socket /\ ~connectionError
                                  THEN "destroyed" ELSE sk[s]]

-----------------------------------------------------------------------------
(* An operation: _sendAndWait() through sendAndWait() *)

\* The next socket, which nothing has used.
Fresh(s) == sock[s] = "unused" /\ \A t \in 1..(s - 1) : sock[t] # "unused"

\* On a dead connection: _assertConnectionAlive() throws.
Refused(o) ==
    /\ At(o, "idle") /\ connectionError
    /\ call' = Goto(call, {o}, "done")
    /\ UNCHANGED <<redial, socket, demux, connectionError, sock, dmx, readers, packets, answer>>

\* The socket is usable: the operation queues for the lock of its demux.
Enqueue(D, d, o) == [D EXCEPT ![d].lock = Append(@, o)]
BeginOnSocket(o) ==
    LET d == _getDemux IN
    /\ At(o, "idle") /\ ~connectionError /\ usable
    /\ demux' = d
    /\ dmx' = Enqueue(ensureReaderStarted(dmx, d, socket), d, o)
    /\ readers' = StartReader(d, socket)
    /\ call' = [call EXCEPT ![o] = [pc |-> "queued", demux |-> d, socket |-> socket, num |-> 0]]
    /\ UNCHANGED <<redial, socket, connectionError, sock, packets, answer>>

\* There is none, or it was destroyed without an error seen yet: what waits on it
\* is rejected and the numbering restarts (resetForNewSocket); then a socket is
\* opened, or, without a udid, the operation throws.
BeginDial(o) ==
    LET d == _getDemux
        reset == socket # None
        D == IF reset
             THEN [_failPending(Using(d), d) EXCEPT ![d].readerSocket = None,
                     ![d].readerActive = FALSE, ![d].stopped = FALSE, ![d].packetNum = 0]
             ELSE Using(d)
        calls == IF reset THEN Rejected(d) ELSE call IN
    /\ At(o, "idle") /\ ~connectionError /\ ~usable
    /\ demux' = d /\ dmx' = D /\ socket' = None
    /\ IF redial
       THEN \E s \in Sockets :
              /\ Fresh(s)
              /\ sock' = [sock EXCEPT ![s] = "connecting"]
              /\ call' = [calls EXCEPT ![o] =
                    [pc |-> "connecting", demux |-> d, socket |-> s, num |-> 0]]
       ELSE /\ call' = Goto(calls, {o}, "failing")
            /\ UNCHANGED sock
    /\ UNCHANGED <<redial, connectionError, readers, packets, answer>>

\* The socket of an operation or of a reconnect is open: it replaces what the
\* service holds, whatever happened meanwhile, and gets a reader.  The demux of
\* the operation may have been stopped while it waited: sendAndWait throws.
ConnectDone(c) ==
    LET s == call[c].socket
        d == _getDemux
        D == ensureReaderStarted(dmx, d, s)
        own == call[c].demux IN
    /\ At(c, "connecting")
    /\ socket' = s
    /\ demux' = d
    /\ sock' = [sock EXCEPT ![s] = "open"]
    /\ readers' = StartReader(d, s)
    /\ \/ /\ c \in Reconnects
          /\ dmx' = D /\ call' = Goto(call, {c}, "done")
       \/ /\ c \in Ops /\ D[own].stopped
          /\ dmx' = D /\ call' = Goto(call, {c}, "failing")
       \/ /\ c \in Ops /\ ~D[own].stopped
          /\ dmx' = Enqueue(D, own, c) /\ call' = Goto(call, {c}, "queued")
    /\ UNCHANGED <<redial, connectionError, packets, answer>>

\* The socket cannot be opened.  The error is not an AfcConnectionError: the
\* service stays usable.
ConnectFails(c) ==
    /\ At(c, "connecting")
    /\ sock' = Destroy(call[c].socket)
    /\ call' = Goto(call, {c}, "done")
    /\ UNCHANGED <<redial, socket, demux, connectionError, dmx, readers, packets, answer>>

\* With the lock: a number, a waiter, and the writes begin; on a destroyed socket
\* they throw and the waiter is removed.
Send(o) ==
    LET d == call[o].demux
        n == dmx[d].packetNum IN
    /\ At(o, "queued") /\ Head(dmx[d].lock) = o
    /\ \/ /\ sock[call[o].socket] = "open"
          /\ dmx' = [dmx EXCEPT ![d].packetNum = n + 1,
                                ![d].pending = @ \cup {[num |-> n, op |-> o]}]
          /\ call' = [call EXCEPT ![o].pc = "writing", ![o].num = n]
       \/ /\ sock[call[o].socket] # "open"
          /\ dmx' = [dmx EXCEPT ![d].packetNum = n + 1, ![d].lock = Tail(@)]
          /\ call' = Goto(call, {o}, "failing")
    /\ UNCHANGED <<redial, socket, demux, connectionError, sock, readers, packets, answer>>

\* The last write is drained, and the device can answer the packet.  A waiter that
\* was settled meanwhile settles the operation.
Written(o) ==
    LET d == call[o].demux
        s == call[o].socket IN
    /\ At(o, "writing") /\ sock[s] = "open"
    /\ packets' = packets \cup {[socket |-> s, num |-> call[o].num, op |-> o]}
    /\ IF o \in Waiters(d)
       THEN call' = Goto(call, {o}, "waiting") /\ UNCHANGED dmx
       ELSE /\ dmx' = [dmx EXCEPT ![d].lock = Tail(@)]
            /\ call' = Goto(call, {o}, IF answer[o] = None THEN "failing" ELSE "done")
    /\ UNCHANGED <<redial, socket, demux, connectionError, sock, readers, answer>>

\* The socket goes while a write waits to be drained: the waiter is removed.  The
\* socket's own error, unlike its close, is not an AfcConnectionError.
WriteFails(o) ==
    LET d == call[o].demux IN
    /\ At(o, "writing") /\ sock[call[o].socket] # "open"
    /\ dmx' = [dmx EXCEPT ![d].pending = {w \in @ : w.op # o}, ![d].lock = Tail(@)]
    /\ \E pc \in {"failing", "done"} : call' = Goto(call, {o}, pc)
    /\ UNCHANGED <<redial, socket, demux, connectionError, sock, readers, packets, answer>>

\* The deadline of a waiter: it is removed and rejected.  The lock is free if the
\* operation awaits it; one that still writes finds out when that is over.
Timeout(o) ==
    LET d == call[o].demux IN
    /\ call[o].pc \in {"writing", "waiting"} /\ o \in Waiters(d)
    /\ dmx' = [dmx EXCEPT ![d].pending = {w \in @ : w.op # o},
                          ![d].lock = IF At(o, "waiting") THEN Tail(@) ELSE @]
    /\ call' = IF At(o, "waiting") THEN Goto(call, {o}, "failing") ELSE call
    /\ UNCHANGED <<redial, socket, demux, connectionError, sock, readers, packets, answer>>

\* _withAfcConnection(): an AfcConnectionError marks the connection dead.
Catch(o) ==
    /\ At(o, "failing")
    /\ call' = Goto(call, {o}, "done")
    /\ _markConnectionDead(sock)
    /\ UNCHANGED <<redial, demux, dmx, readers, packets, answer>>

-----------------------------------------------------------------------------
(* The reader loops and the device *)

\* Mutant: the replies are taken to come in the order of the requests.
Matching_InOrder(d, p) == {w \in dmx[d].pending : \A v \in dmx[d].pending : w.num <= v.num}
\* The waiter of a packet's reply, if it still waits.
Matching(d, p) == {w \in dmx[d].pending : w.num = p.num}

\* The device answers a packet and a reader of its socket routes the reply; the
\* reader of a stopped demux goes no further.
Reply(d, s, p) ==
    LET W == Matching(d, p) IN
    /\ <<d, s>> \in readers /\ p.socket = s /\ sock[s] = "open"
    /\ packets' = packets \ {p}
    /\ dmx' = [dmx EXCEPT ![d].pending = @ \ W,
                          ![d].lock = Released(@, Awaiting(W))]
    /\ call' = Goto(call, Awaiting(W), "done")
    /\ answer' = [o \in Ops |-> IF \E w \in W : w.op = o THEN p.op ELSE answer[o]]
    /\ readers' = IF dmx[d].stopped THEN readers \ {<<d, s>>} ELSE readers
    /\ UNCHANGED <<redial, socket, demux, connectionError, sock>>

\* A reader finds its socket gone, or reads what is no AFC packet.  The reader the
\* demux counts on rejects what waits and marks the connection dead.
ReaderFails(d, s) ==
    LET current == ~dmx[d].stopped /\ dmx[d].readerSocket = s
        D == IF current THEN _failPending(dmx, d) ELSE dmx IN
    /\ <<d, s>> \in readers
    /\ readers' = readers \ {<<d, s>>}
    /\ dmx' = [D EXCEPT ![d].readerActive = IF D[d].readerSocket = s THEN FALSE ELSE @]
    /\ IF current THEN /\ call' = Rejected(d)
                       /\ _markConnectionDead(Destroy(s))
                  ELSE /\ sock' = Destroy(s)
                       /\ UNCHANGED <<call, socket, connectionError>>
    /\ UNCHANGED <<redial, demux, packets, answer>>

\* The device closes a connection.
PeerCloses(s) ==
    /\ sock[s] = "open"
    /\ sock' = Destroy(s)
    /\ UNCHANGED <<redial, socket, demux, connectionError, dmx, readers, call, packets, answer>>

-----------------------------------------------------------------------------
(* close() and reconnect() *)

\* close(), with the calls it leaves rejected: it stops the demux, and forgets the
\* error it finds and destroys the socket.
Stopped == IF demux = None THEN dmx
           ELSE [_failPending(dmx, demux) EXCEPT ![demux].stopped = TRUE,
                   ![demux].readerSocket = None, ![demux].readerActive = FALSE]
RejectedByStop == IF demux = None THEN call ELSE Rejected(demux)
SocketClosed == IF socket = None THEN sock ELSE Destroy(socket)

close(x) ==
    /\ At(x, "idle")
    /\ dmx' = Stopped /\ demux' = None
    /\ socket' = None /\ connectionError' = FALSE
    /\ sock' = SocketClosed
    /\ call' = Goto(RejectedByStop, {x}, "done")
    /\ UNCHANGED <<redial, readers, packets, answer>>

\* reconnect(): close(), then _connect().
reconnect(r) ==
    /\ At(r, "idle")
    /\ dmx' = Stopped /\ demux' = None
    /\ socket' = None /\ connectionError' = FALSE
    /\ IF redial
       THEN \E s \in Sockets :
              /\ Fresh(s)
              /\ sock' = [SocketClosed EXCEPT ![s] = "connecting"]
              /\ call' = [RejectedByStop EXCEPT ![r].pc = "connecting", ![r].socket = s]
       ELSE /\ sock' = SocketClosed
            /\ call' = Goto(RejectedByStop, {r}, "done")
    /\ UNCHANGED <<redial, readers, packets, answer>>

-----------------------------------------------------------------------------
(* Specification *)

OpStep(o) == \/ Refused(o) \/ BeginOnSocket(o) \/ BeginDial(o) \/ Send(o)
             \/ Written(o) \/ WriteFails(o) \/ Timeout(o) \/ Catch(o)
Connecting(c) == ConnectDone(c) \/ ConnectFails(c)
\* What goes on by itself once a call has begun.
Progress ==
    \/ \E o \in Ops : Send(o) \/ WriteFails(o) \/ Timeout(o) \/ Catch(o)
    \/ \E c \in Ops \cup Reconnects : Connecting(c)

Next ==
    \/ \E o \in Ops : OpStep(o)
    \/ \E c \in Ops \cup Reconnects : Connecting(c)
    \/ \E d \in Demuxes, s \in Sockets :
          ReaderFails(d, s) \/ \E p \in packets : Reply(d, s, p)
    \/ \E s \in Sockets : PeerCloses(s)
    \/ \E x \in Closes : close(x)
    \/ \E r \in Reconnects : reconnect(r)

Spec == Init /\ [][Next]_vars

\* The code bounds no write: the device keeps reading what it is sent, or the
\* connection is lost.
DeviceReads == WF_vars(\E o \in Ops : Written(o))

\* An operation that has the lock sends; a waiter has a deadline, a rejection
\* reaches its caller, and opening a socket takes at most its own deadline.
\* Nothing is assumed of the answers of the device.
FairSpec == Spec /\ WF_vars(Progress) /\ DeviceReads

-----------------------------------------------------------------------------
(* Properties *)

TypeOK ==
    /\ redial \in BOOLEAN
    /\ socket \in Sockets \cup {None} /\ demux \in Demuxes \cup {None}
    /\ connectionError \in BOOLEAN
    /\ sock \in [Sockets -> {"unused", "connecting", "open", "destroyed"}]
    /\ dmx \in [Demuxes -> [used : BOOLEAN, stopped : BOOLEAN,
                             readerSocket : Sockets \cup {None}, readerActive : BOOLEAN,
                             packetNum : Nat, pending : SUBSET [num : Nat, op : Ops],
                             lock : Seq(Ops)]]
    /\ \A d \in Demuxes : \A w \in dmx[d].pending :
          Len(dmx[d].lock) > 0 /\ w.op = Head(dmx[d].lock)
    /\ readers \subseteq Demuxes \X Sockets
    /\ call \in [Calls -> [pc : {"idle", "connecting", "queued", "writing", "waiting", "failing",
                                 "done"},
                           demux : Demuxes \cup {None}, socket : Sockets \cup {None},
                           num : Nat]]
    /\ packets \subseteq [socket : Sockets, num : Nat, op : Ops]
    /\ answer \in [Ops -> Ops \cup {None}]

\* An operation of a service made from a socket is given the reply to the packet
\* it sent, though replies of operations that timed out still arrive.  demux.ts:
\* "each operation is matched to its reply".
OwnReplyOnSocket == ~redial => \A o \in Ops : answer[o] \in {None, o}

\* Once the connection of a service made from a socket is marked dead, no
\* operation that was queued or writing gets another packet to the device.
QuietAfterDeath == [][~redial /\ connectionError => packets' \subseteq packets]_vars

\* While an operation waits on an open socket, a reader loop of its demux reads
\* that socket, whichever socket the demux was last told of, unless close() or
\* reconnect() stopped the demux.
ReplyIsRead ==
    \A o \in Ops :
        LET d == call[o].demux
            s == call[o].socket IN
        At(o, "waiting") /\ sock[s] = "open" /\ ~dmx[d].stopped => <<d, s>> \in readers

\* The operations of a service made from a socket share it as calls that are each
\* answered once, with their own reply or not at all: a packet goes out once for
\* each, and no late reply, timeout, close() or lost connection settles an
\* operation twice or with the reply to another.
Stage(o) == CASE call[o].pc \in {"writing", "waiting"} -> "asked"
              [] At(o, "failing") -> "failed"
              [] At(o, "done") -> (IF answer[o] = None THEN "failed" ELSE "replied")
              [] OTHER -> "new"
Promise == INSTANCE RequestReply WITH
    Calls <- Ops, stage <- [o \in Ops |-> Stage(o)], reply <- answer,
    pending <- {p.op : p \in packets} \cup {o \in Ops : At(o, "writing")}
ImplementsOnSocket ==
    Promise!Init /\ [][~redial => Promise!Next]_<<redial, Promise!requestVars>>

\* Every operation that begins settles.
Settles == \A o \in Ops : (call[o].pc # "idle") ~> At(o, "done")

\* index.ts: a caller of reconnect() "can call this to recover instead of
\* creating a new instance": what a reconnect opens is not left marked dead.
ReconnectRecovers ==
    [][\A r \in Reconnects : ConnectDone(r) => ~connectionError']_vars

=============================================================================
