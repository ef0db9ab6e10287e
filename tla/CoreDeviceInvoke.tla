-------------------------- MODULE CoreDeviceInvoke --------------------------
(***************************************************************************)
(* CoreDevice services that open a connection per invocation               *)
(* (services/ios/core-device/core-device-service.ts): invoke() and         *)
(* sendReceive() take their turn in invokeQueue, close the connection in   *)
(* use and open a fresh one; send() and getTunnelLocalAddress() take the   *)
(* connection in use outside the queue; close() closes it.                 *)
(*                                                                         *)
(* A reply is not matched by message id here: an invocation takes the      *)
(* first message that arrives on its connection.  That it is its own reply *)
(* rests on the connection being fresh.  The device answers a request at   *)
(* most once, at any time or never.                                        *)
(***************************************************************************)
EXTENDS Naturals, FiniteSets, Sequences

CONSTANTS
    Invokes,    \* calls to invoke() or sendReceive()
    Borrows,    \* calls that use getTransport() outside the queue
    Closes,     \* calls to close()
    None,       \* no connection, no answer
    MaxConns    \* connections there is room to number

Calls == Invokes \cup Borrows \cup Closes
Conns == 1..MaxConns

\* An invocation and a borrow each open at most one connection.
ConnsAssumption ==
    /\ IsFiniteSet(Calls)
    /\ MaxConns \in Nat /\ MaxConns >= Cardinality(Invokes \cup Borrows)
    /\ None \notin Conns \cup Calls
ASSUME ConnsAssumption

VARIABLES
    transport,         \* the connection in use, or None
    pendingTransport,  \* the connection getTransport() is opening, or None
    invokeQueue,       \* invocations waiting for their turn; the head has it
    conn,              \* per connection: state of its socket
    call,              \* per call: where it is and the connection it holds
    answer,            \* per invocation: whose request its reply answered
    requests           \* requests the device has not answered
vars == <<transport, pendingTransport, invokeQueue, conn, call, answer, requests>>

Init ==
    /\ transport = None
    /\ pendingTransport = None
    /\ invokeQueue = <<>>
    /\ conn = [k \in Conns |-> "unused"]
    /\ call = [c \in Calls |-> [pc |-> "idle", conn |-> None]]
    /\ answer = [c \in Invokes |-> None]
    /\ requests = {}

-----------------------------------------------------------------------------
(* Helpers *)

isConnected(k) == k # None /\ conn[k] = "open"
At(c, pc) == call[c].pc = pc
HasTurn(c) == invokeQueue # <<>> /\ Head(invokeQueue) = c
Goto(c, pc, k) == call' = [call EXCEPT ![c] = [pc |-> pc, conn |-> k]]
Closed(c) == \A k \in Conns : k = call[c].conn => conn[k] = "closed"

\* The invocations W settle; the one that has the turn releases it.
Settled(W) ==
    /\ call' = [c \in Calls |-> IF c \in W THEN [pc |-> "done", conn |-> None]
                                ELSE call[c]]
    /\ invokeQueue' = IF \E c \in W : HasTurn(c) THEN Tail(invokeQueue) ELSE invokeQueue

WaitersOn(k) == {c \in Invokes : At(c, "reply") /\ call[c].conn = k}

\* A connection not used before starts to open.
Dial(k) ==
    /\ conn[k] = "unused" /\ \A j \in 1..(k - 1) : conn[j] # "unused"
    /\ conn' = [conn EXCEPT ![k] = "connecting"]

\* The connection in use is given up; what still arrives on it is not read.
Shutdown ==
    /\ transport' = None
    /\ conn' = [k \in Conns |-> IF k = transport /\ conn[k] = "open"
                                THEN "ending" ELSE conn[k]]
    /\ requests' = {m \in requests : m.conn # transport}

-----------------------------------------------------------------------------
(* invoke(), sendReceive() *)

Invoke(c) ==
    /\ c \in Invokes /\ At(c, "idle")
    /\ Goto(c, "queued", None)
    /\ invokeQueue' = Append(invokeQueue, c)
    /\ UNCHANGED <<transport, pendingTransport, conn, answer, requests>>

\* Mutant: the connection in use is kept when it is still open.
refreshTransport_Reuse(c) ==
    /\ HasTurn(c) /\ At(c, "queued") /\ transport # None
    /\ IF isConnected(transport)
       THEN Goto(c, "acquired", transport) /\ UNCHANGED <<transport, conn, requests>>
       ELSE Shutdown /\ Goto(c, "dropping", transport)
    /\ UNCHANGED <<pendingTransport, invokeQueue, answer>>

\* With its turn, an invocation gives up the connection in use ...
refreshTransport(c) ==
    /\ HasTurn(c) /\ At(c, "queued") /\ transport # None
    /\ Shutdown
    /\ Goto(c, "dropping", transport)
    /\ UNCHANGED <<pendingTransport, invokeQueue, answer>>

\* ... and opens its own once that is closed; the opening is not recorded.
newTransport(c) ==
    /\ HasTurn(c)
    /\ (At(c, "queued") /\ transport = None) \/ (At(c, "dropping") /\ Closed(c))
    /\ \E k \in Conns : Dial(k) /\ Goto(c, "connecting", k)
    /\ UNCHANGED <<transport, pendingTransport, invokeQueue, answer, requests>>

FreshConnected(c) ==
    /\ c \in Invokes /\ At(c, "connecting")
    /\ conn' = [conn EXCEPT ![call[c].conn] = "open"]
    /\ transport' = call[c].conn
    /\ Goto(c, "acquired", call[c].conn)
    /\ UNCHANGED <<pendingTransport, invokeQueue, answer, requests>>

\* Mutant: a failed invocation does not release its turn.
FreshFailed_KeepTurn(c) ==
    /\ c \in Invokes /\ At(c, "connecting")
    /\ conn' = [conn EXCEPT ![call[c].conn] = "closed"]
    /\ Goto(c, "done", None)
    /\ UNCHANGED <<transport, pendingTransport, invokeQueue, answer, requests>>

FreshFailed(c) ==
    /\ c \in Invokes /\ At(c, "connecting")
    /\ conn' = [conn EXCEPT ![call[c].conn] = "closed"]
    /\ Settled({c})
    /\ UNCHANGED <<transport, pendingTransport, answer, requests>>

\* The send throws when close() came first.
exchange(c) ==
    /\ At(c, "acquired")
    /\ IF isConnected(call[c].conn)
       THEN /\ requests' = requests \cup {[conn |-> call[c].conn, by |-> c]}
            /\ Goto(c, "reply", call[c].conn)
            /\ UNCHANGED invokeQueue
       ELSE Settled({c}) /\ UNCHANGED requests
    /\ UNCHANGED <<transport, pendingTransport, conn, answer>>

\* The first message settles the invocation that waits on the connection.
Reply(m) ==
    LET W == WaitersOn(m.conn) IN
    /\ m \in requests /\ conn[m.conn] = "open"
    /\ requests' = requests \ {m}
    /\ answer' = [c \in Invokes |-> IF c \in W THEN m.by ELSE answer[c]]
    /\ Settled(W)
    /\ UNCHANGED <<transport, pendingTransport, conn>>

\* The connection stays in use; the next invocation closes it.
Timeout(c) ==
    /\ At(c, "reply")
    /\ Settled({c})
    /\ UNCHANGED <<transport, pendingTransport, conn, answer, requests>>

\* The device ends the connection (it does after each exchange).
PeerEnds(k) ==
    /\ conn[k] = "open"
    /\ \E s \in {"ending", "closed"} : conn' = [conn EXCEPT ![k] = s]
    /\ requests' = {m \in requests : m.conn # k}
    /\ Settled(WaitersOn(k))
    /\ UNCHANGED <<transport, pendingTransport, answer>>

SocketClosed(k) ==
    /\ conn[k] = "ending"
    /\ conn' = [conn EXCEPT ![k] = "closed"]
    /\ Settled(WaitersOn(k))
    /\ UNCHANGED <<transport, pendingTransport, answer, requests>>

-----------------------------------------------------------------------------
(* getTransport(), close() *)

\* Mutant: the call takes a place in the invocation queue it never gives up.
getTransport_Queued(c) ==
    /\ c \in Borrows /\ At(c, "idle")
    /\ Goto(c, "joined", None)
    /\ invokeQueue' = Append(invokeQueue, c)
    /\ UNCHANGED <<transport, pendingTransport, conn, answer, requests>>

getTransport(c) ==
    /\ c \in Borrows /\ At(c, "idle")
    /\ IF isConnected(transport)
       THEN Goto(c, "done", None) /\ UNCHANGED <<pendingTransport, conn>>
       ELSE IF pendingTransport # None
       THEN Goto(c, "joined", None) /\ UNCHANGED <<pendingTransport, conn>>
       ELSE \E k \in Conns : Dial(k) /\ pendingTransport' = k /\ Goto(c, "joined", None)
    /\ UNCHANGED <<transport, invokeQueue, answer, requests>>

PendingSettles ==
    /\ pendingTransport # None
    /\ pendingTransport' = None
    /\ \/ /\ conn' = [conn EXCEPT ![pendingTransport] = "open"]
          /\ transport' = pendingTransport
       \/ /\ conn' = [conn EXCEPT ![pendingTransport] = "closed"]
          /\ UNCHANGED transport
    /\ call' = [c \in Calls |-> IF At(c, "joined") THEN [pc |-> "done", conn |-> None]
                                ELSE call[c]]
    /\ UNCHANGED <<invokeQueue, answer, requests>>

BeginClose(c) ==
    /\ c \in Closes /\ At(c, "idle")
    /\ IF pendingTransport = None THEN Goto(c, "closing", None)
       ELSE Goto(c, "pending", pendingTransport)
    /\ UNCHANGED <<transport, pendingTransport, invokeQueue, conn, answer, requests>>

\* The connection awaited, if any, has settled; the one in use is closed.
CloseTransport(c) ==
    /\ \/ At(c, "closing")
       \/ At(c, "pending") /\ conn[call[c].conn] # "connecting"
    /\ IF transport = None
       THEN Goto(c, "done", None) /\ UNCHANGED <<transport, conn, requests>>
       ELSE Shutdown /\ Goto(c, "shutting", transport)
    /\ UNCHANGED <<pendingTransport, invokeQueue, answer>>

CloseReturns(c) ==
    /\ At(c, "shutting") /\ Closed(c)
    /\ Goto(c, "done", None)
    /\ UNCHANGED <<transport, pendingTransport, invokeQueue, conn, answer, requests>>

-----------------------------------------------------------------------------
Progress(c) ==
    \/ refreshTransport(c) \/ newTransport(c) \/ FreshConnected(c) \/ FreshFailed(c)
    \/ exchange(c) \/ Timeout(c)
    \/ c \in Closes /\ (CloseTransport(c) \/ CloseReturns(c))

Begin(c) == Invoke(c) \/ getTransport(c) \/ BeginClose(c)

Next ==
    \/ \E c \in Calls : Begin(c) \/ Progress(c)
    \/ PendingSettles
    \/ \E m \in requests : Reply(m)
    \/ \E k \in Conns : PeerEnds(k) \/ SocketClosed(k)

Spec == Init /\ [][Next]_vars

\* Opening, closing and waiting are bounded by timers; the device promises
\* nothing.
FairSpec ==
    /\ Spec
    /\ \A c \in Calls : WF_vars(Progress(c))
    /\ WF_vars(PendingSettles)
    /\ \A k \in Conns : WF_vars(SocketClosed(k))

-----------------------------------------------------------------------------
(* Properties *)

\* Types of the variables.
TypeOK ==
    /\ {transport, pendingTransport} \subseteq Conns \cup {None}
    /\ invokeQueue \in Seq(Invokes)
    /\ conn \in [Conns -> {"unused", "connecting", "open", "ending", "closed"}]
    /\ call \in [Calls -> [pc : {"idle", "queued", "dropping", "connecting", "acquired",
                                 "reply", "joined", "closing", "pending", "shutting",
                                 "done"},
                           conn : Conns \cup {None}]]
    /\ answer \in [Invokes -> Invokes \cup {None}]
    /\ requests \subseteq [conn : Conns, by : Invokes]

\* An invocation returns the reply to its own request, never the late reply to
\* one that timed out before, though replies are not matched by id.
OwnReply == \A c \in Invokes : answer[c] \in {c, None}

\* The invocations share the service as calls that are each answered once, with
\* their own reply or not at all: no request is sent again, and no late message
\* settles an invocation or changes how it settled.
Stage(c) == IF At(c, "reply") THEN "asked"
            ELSE IF ~At(c, "done") THEN "new"
            ELSE IF answer[c] = None THEN "failed" ELSE "replied"
Promise == INSTANCE RequestReply WITH
    Calls <- Invokes, stage <- [c \in Invokes |-> Stage(c)], reply <- answer,
    pending <- {m.by : m \in requests}
ImplementsRequestReply == Promise!Spec

\* Every call settles, whatever the device does.
Settles == \A c \in Calls : ~At(c, "idle") ~> At(c, "done")

=============================================================================
