------------------------- MODULE FileServiceSession -------------------------
(***************************************************************************)
(* The CoreDevice file service (services/ios/file-service/index.ts) on the *)
(* connection it keeps (services/ios/core-device/core-device-service.ts).  *)
(*                                                                         *)
(* Concurrent calls share one connection to the device and one session on  *)
(* it.  invokeQueue serialises the request/reply exchanges; a failed       *)
(* exchange, a transfer cut short and close() each take the connection     *)
(* away, and the next call opens another one.  A session dies with its     *)
(* connection, so a request must go out with the id of a session created   *)
(* on the very connection that carries it.                                 *)
(*                                                                         *)
(* A step runs from one await to the next; between any two steps every     *)
(* other call, a timer, the socket and the device may act.  The device     *)
(* answers each request at most once, at any time or never.                *)
(***************************************************************************)
EXTENDS Naturals, FiniteSets, Sequences

CONSTANTS
    Requests,   \* calls that are one request: listing, rm, mkdir, rename
    Pulls,      \* calls to pull()
    Pushes,     \* calls to push()
    Closes,     \* calls to close()
    None,       \* no connection
    MaxConns    \* connections there is room to number

Transfers == Pulls \cup Pushes
Calls == Requests \cup Transfers \cup Closes
Conns == 1..MaxConns

\* A call is of one kind.
CallsAssumption ==
    /\ Requests \cap (Transfers \cup Closes) = {}
    /\ Pulls \cap Pushes = {} /\ Transfers \cap Closes = {}
ASSUME CallsAssumption

\* A push makes up to three requests and every other call at most one; each
\* request opens at most one connection, so numbering never runs out.
ConnsAssumption ==
    /\ IsFiniteSet(Calls)
    /\ MaxConns \in Nat
    /\ MaxConns >= Cardinality(Requests \cup Pulls \cup Closes) + 3 * Cardinality(Pushes)
    /\ None \notin Conns
ASSUME ConnsAssumption

VARIABLES
    transport,         \* the connection in use, or None
    pendingTransport,  \* the connection being opened, or None
    nextMessageId,     \* id of the next message to send
    invokeQueue,       \* calls waiting for their turn; the head has it
    session,           \* connection of the cached session, or None
    sessionId,         \* per connection: state of its session's id promise
    conn,              \* per connection: state of its socket
    call,              \* per call: where it is and what it holds
    aborted,           \* transfers whose abort signal fired
    requests,          \* requests the device has not answered
    partial,           \* pushes whose temporary file is on the device
    closing            \* per close(): the transfers it awaits, and the
                       \* connections that were live when it was called
vars == <<transport, pendingTransport, nextMessageId, invokeQueue, session,
          sessionId, conn, call, aborted, requests, partial, closing>>
service == <<transport, pendingTransport, nextMessageId, session, sessionId,
             conn, requests>>

\* A call at pc, with its last request, that holds nothing.
Fresh(pc, step) == [pc |-> pc, step |-> step, conn |-> None, id |-> 0, sid |-> None]

Init ==
    /\ transport = None
    /\ pendingTransport = None
    /\ nextMessageId = 1
    /\ invokeQueue = <<>>
    /\ session = None
    /\ sessionId = [k \in Conns |-> "none"]
    /\ conn = [k \in Conns |-> "unused"]
    /\ call = [c \in Calls |-> Fresh("idle", "main")]
    /\ aborted = {}
    /\ requests = {}
    /\ partial = {}
    /\ closing = [c \in Closes |-> [awaited |-> {}, saw |-> {}]]

-----------------------------------------------------------------------------
(* The connection and the queue *)

isConnected(k) == k # None /\ conn[k] = "open"
Live == {k \in Conns : conn[k] \in {"connecting", "open"}}
At(c, pc) == call[c].pc = pc
HasTurn(c) == invokeQueue # <<>> /\ Head(invokeQueue) = c

\* c is suspended at pc; a call that is done holds nothing any more.
Goto(c, pc) ==
    call' = [call EXCEPT ![c] = IF pc = "done" THEN Fresh(pc, call[c].step)
                                ELSE [call[c] EXCEPT !.pc = pc,
                                         !.step = IF pc = "data" THEN pc ELSE call[c].step]]
GotoWith(c, pc, k) == call' = [call EXCEPT ![c].pc = pc, ![c].conn = k]

enqueueInvocation(c, step, sid) ==
    /\ call' = [call EXCEPT ![c] = [Fresh("queued", step) EXCEPT !.sid = sid]]
    /\ invokeQueue' = Append(invokeQueue, c)

\* Mutant: the connection is forgotten, not closed.
Shutdown_NotClosed ==
    /\ transport' = None
    /\ UNCHANGED <<conn, requests>>

\* The connection in use is given up and its socket starts to shut down;
\* whatever the device still sends on it is no longer read.
Shutdown ==
    /\ transport' = None
    /\ conn' = [k \in Conns |-> IF k = transport /\ conn[k] = "open"
                                THEN "ending" ELSE conn[k]]
    /\ requests' = {m \in requests : m.conn # transport}

\* c gives up the connection in use and, at pc, waits for it to be closed.
dropTransport(c, pc) ==
    /\ Shutdown
    /\ GotoWith(c, pc, transport)
    /\ UNCHANGED <<pendingTransport, nextMessageId, invokeQueue, session, sessionId>>

\* The connection c waits for, if any, is closed.
Closed(c) == \A k \in Conns : k = call[c].conn => conn[k] = "closed"

\* Takes the open connection, or joins the opening of one, or starts it.
getTransport(c) ==
    /\ HasTurn(c) /\ At(c, "queued")
    /\ \/ /\ isConnected(transport)
          /\ GotoWith(c, "acquired", transport)
          /\ UNCHANGED <<pendingTransport, conn>>
       \/ /\ ~isConnected(transport)
          /\ pendingTransport # None
          /\ Goto(c, "connecting")
          /\ UNCHANGED <<pendingTransport, conn>>
       \/ /\ ~isConnected(transport)
          /\ pendingTransport = None
          /\ \E k \in Conns :
                /\ conn[k] = "unused"
                /\ \A j \in 1..(k - 1) : conn[j] # "unused"
                /\ conn' = [conn EXCEPT ![k] = "connecting"]
                /\ pendingTransport' = k
          /\ Goto(c, "connecting")
    /\ UNCHANGED <<transport, nextMessageId, invokeQueue, session, sessionId,
                   aborted, requests, partial, closing>>

\* newTransport() and the continuations of pendingTransport.
TransportConnected ==
    /\ pendingTransport # None
    /\ conn' = [conn EXCEPT ![pendingTransport] = "open"]
    /\ transport' = pendingTransport
    /\ nextMessageId' = 1
    /\ pendingTransport' = None
    /\ call' = [c \in Calls |-> IF At(c, "connecting")
                  THEN [call[c] EXCEPT !.pc = "acquired", !.conn = pendingTransport]
                  ELSE call[c]]
    /\ UNCHANGED <<invokeQueue, session, sessionId, aborted, requests, partial, closing>>

TransportFailed ==
    /\ pendingTransport # None
    /\ conn' = [conn EXCEPT ![pendingTransport] = "closed"]
    /\ pendingTransport' = None
    /\ call' = [c \in Calls |-> IF At(c, "connecting")
                  THEN [call[c] EXCEPT !.pc = "failing"] ELSE call[c]]
    /\ UNCHANGED <<transport, nextMessageId, invokeQueue, session, sessionId,
                   aborted, requests, partial, closing>>

-----------------------------------------------------------------------------
(* The exchange: a session on the connection, the request, its reply *)

Awaiting(c) == call[c].pc \in {"creating", "reply"}
WaitersOn(k) == {c \in Calls : Awaiting(c) /\ call[c].conn = k}

\* The calls W stop waiting; the id promise of a session that one of them was
\* creating rejects, and that session is no longer cached.
FailWaiters(W) ==
    LET lost == {call[c].conn : c \in {w \in W : At(w, "creating")}} IN
    /\ call' = [c \in Calls |-> IF c \in W THEN [call[c] EXCEPT !.pc = "failing"]
                                ELSE call[c]]
    /\ sessionId' = [k \in Conns |-> IF k \in lost THEN "failed" ELSE sessionId[k]]
    /\ session' = IF session \in lost THEN None ELSE session

\* Allocates an id and sends; the waiter of the reply is c itself.  The send
\* throws when the connection is no longer open.
SendAndAwait(c, step, sid, pc) ==
    LET k == call[c].conn IN
    /\ nextMessageId' = nextMessageId + 2
    /\ IF isConnected(k)
       THEN /\ requests' = requests \cup
                 {[conn |-> k, id |-> nextMessageId, by |-> c, step |-> step,
                   sid |-> sid, applied |-> FALSE]}
            /\ call' = [call EXCEPT ![c].pc = pc, ![c].id = nextMessageId]
       ELSE /\ Goto(c, "failing")
            /\ UNCHANGED requests

\* Mutant: a cached session is used whatever its connection.
ensureSessionOn_AnySession(c) ==
    LET k == call[c].conn IN
    /\ At(c, "acquired") /\ call[c].step # "end"
    /\ \/ /\ session # None
          /\ call' = [call EXCEPT ![c].pc = "sending", ![c].sid = session]
          /\ UNCHANGED <<nextMessageId, session, sessionId, requests>>
       \/ /\ session = None
          /\ SendAndAwait(c, "create", None, "creating")
          /\ session' = IF isConnected(k) THEN k ELSE None
          /\ sessionId' = [sessionId EXCEPT ![k] = IF isConnected(k)
                                                   THEN "creating" ELSE "failed"]
    /\ UNCHANGED <<transport, pendingTransport, invokeQueue, conn, aborted, partial, closing>>

\* The session cached for this connection, or a new one.
ensureSessionOn(c) ==
    LET k == call[c].conn IN
    /\ At(c, "acquired") /\ call[c].step # "end"
    /\ \/ /\ session = k
          /\ sessionId[k] # "creating"
          /\ call' = [call EXCEPT ![c].pc = IF sessionId[k] = "ready"
                                            THEN "sending" ELSE "failing",
                                  ![c].sid = session]
          /\ UNCHANGED <<nextMessageId, session, sessionId, requests>>
       \/ /\ session # k
          /\ SendAndAwait(c, "create", None, "creating")
          /\ session' = IF isConnected(k) THEN k ELSE None
          /\ sessionId' = [sessionId EXCEPT ![k] = IF isConnected(k)
                                                   THEN "creating" ELSE "failed"]
    /\ UNCHANGED <<transport, pendingTransport, invokeQueue, conn, aborted, partial, closing>>

\* END_SESSION has no session to resolve: close() fixed its body.
exchange(c) ==
    /\ At(c, "sending") \/ (At(c, "acquired") /\ call[c].step = "end")
    /\ SendAndAwait(c, call[c].step, call[c].sid, "reply")
    /\ UNCHANGED <<transport, pendingTransport, invokeQueue, session, sessionId,
                   conn, aborted, partial, closing>>

\* What the service method does once its request is answered or has failed.
Resume(c, ok) ==
    CASE c \in Closes -> "closing"
      [] c \in Transfers /\ call[c].step = "main" /\ ok -> "data"
      [] c \in Pushes /\ call[c].step = "rename" /\ ~ok -> "tidy"
      [] OTHER -> "done"

\* The device carries out a request about the temporary file of a push:
\* announcing it creates it, renaming it into place and removing it end it.
Apply(m) ==
    /\ m \in requests /\ m.by \in Pushes /\ m.step # "create" /\ ~m.applied
    /\ requests' = (requests \ {m}) \cup {[m EXCEPT !.applied = TRUE]}
    /\ partial' = IF m.step = "main" THEN partial \cup {m.by} ELSE partial \ {m.by}
    /\ UNCHANGED <<transport, pendingTransport, nextMessageId, invokeQueue, session,
                   sessionId, conn, call, aborted, closing>>

\* A reply reaches the one waiter whose connection and id it matches, or none.
\* An error reply fails the service method, not the exchange; one that refuses
\* the session fails the exchange.
Reply(m, ok) ==
    /\ m \in requests /\ conn[m.conn] = "open"
    /\ m.by \in Pushes /\ m.step # "create" => ok = m.applied
    /\ requests' = requests \ {m}
    /\ LET W == {c \in WaitersOn(m.conn) : call[c].id = m.id} IN
       \/ /\ W = {}
          /\ UNCHANGED <<call, invokeQueue, session, sessionId>>
       \/ \E c \in W :
             \/ /\ At(c, "creating") /\ ok
                /\ call' = [call EXCEPT ![c].pc = "sending", ![c].sid = m.conn]
                /\ sessionId' = [sessionId EXCEPT ![m.conn] = "ready"]
                /\ UNCHANGED <<invokeQueue, session>>
             \/ /\ At(c, "creating") /\ ~ok
                /\ FailWaiters({c})
                /\ UNCHANGED invokeQueue
             \/ /\ At(c, "reply")
                /\ Goto(c, Resume(c, ok))
                /\ invokeQueue' = Tail(invokeQueue)
                /\ UNCHANGED <<session, sessionId>>
    /\ UNCHANGED <<transport, pendingTransport, nextMessageId, conn, aborted, partial, closing>>

\* No message for the length of the timer.
Timeout(c) ==
    /\ Awaiting(c)
    /\ FailWaiters({c})
    /\ UNCHANGED <<transport, pendingTransport, nextMessageId, invokeQueue, conn,
                   aborted, requests, partial, closing>>

\* Mutant: a failed exchange leaves the connection in use.
CatchFailure_KeepTransport(c) ==
    /\ At(c, "failing")
    /\ GotoWith(c, "dropping", None)
    /\ UNCHANGED <<service, invokeQueue, aborted, partial, closing>>

\* The catch of sendReceiveOnConnection: the call keeps its turn until the
\* connection is closed.
CatchFailure(c) ==
    /\ At(c, "failing")
    /\ dropTransport(c, "dropping")
    /\ UNCHANGED <<aborted, partial, closing>>

\* Mutant: a failed call does not release its turn.
Dropped_KeepTurn(c) ==
    /\ At(c, "dropping") /\ Closed(c)
    /\ Goto(c, Resume(c, FALSE))
    /\ UNCHANGED <<service, invokeQueue, aborted, partial, closing>>

Dropped(c) ==
    /\ At(c, "dropping") /\ Closed(c)
    /\ Goto(c, Resume(c, FALSE))
    /\ invokeQueue' = Tail(invokeQueue)
    /\ UNCHANGED <<service, aborted, partial, closing>>

\* The device or the network ends an open connection: at once, or by a frame
\* after which the transport closes itself.
PeerEnds(k) ==
    /\ conn[k] = "open"
    /\ \E s \in {"ending", "closed"} : conn' = [conn EXCEPT ![k] = s]
    /\ requests' = {m \in requests : m.conn # k}
    /\ FailWaiters(WaitersOn(k))
    /\ UNCHANGED <<transport, pendingTransport, nextMessageId, invokeQueue,
                   aborted, partial, closing>>

\* The 'close' event of a socket that was being shut down.
SocketClosed(k) ==
    /\ conn[k] = "ending"
    /\ conn' = [conn EXCEPT ![k] = "closed"]
    /\ FailWaiters(WaitersOn(k))
    /\ UNCHANGED <<transport, pendingTransport, nextMessageId, invokeQueue,
                   aborted, requests, partial, closing>>

-----------------------------------------------------------------------------
(* The calls *)

BeginRequest(c) ==
    /\ c \in Requests /\ At(c, "idle")
    /\ enqueueInvocation(c, "main", None)
    /\ UNCHANGED <<service, aborted, partial, closing>>

BeginTransfer(c) ==
    /\ c \in Transfers /\ At(c, "idle")
    /\ Goto(c, "opening")
    /\ UNCHANGED <<service, invokeQueue, aborted, partial, closing>>

\* The data channel is connected before the request is made, or is not and the
\* transfer fails.
openDataChannel(c) ==
    /\ At(c, "opening")
    /\ \/ /\ c \notin aborted
          /\ enqueueInvocation(c, "main", None)
       \/ /\ Goto(c, "done")
          /\ UNCHANGED invokeQueue
    /\ UNCHANGED <<service, aborted, partial, closing>>

\* All bytes transferred.  A push then renames the file into place.
DataDone(c) ==
    /\ At(c, "data") /\ c \notin aborted
    /\ IF c \in Pushes THEN enqueueInvocation(c, "rename", None)
       ELSE Goto(c, "done") /\ UNCHANGED invokeQueue
    /\ UNCHANGED <<service, aborted, partial, closing>>

\* The transfer is cut short, by its idle watchdog, a socket error or close().
DataFailed(c) ==
    /\ At(c, "data")
    /\ dropTransport(c, "cutting")
    /\ UNCHANGED <<aborted, partial, closing>>

\* Mutant: a push cut short leaves its temporary file.
CutShort_NotTidied(c) ==
    /\ At(c, "cutting") /\ Closed(c)
    /\ Goto(c, "done")
    /\ UNCHANGED <<service, invokeQueue, aborted, partial, closing>>

CutShort(c) ==
    /\ At(c, "cutting") /\ Closed(c)
    /\ Goto(c, IF c \in Pushes THEN "tidy" ELSE "done")
    /\ UNCHANGED <<service, invokeQueue, aborted, partial, closing>>

removeIncompleteUpload(c) ==
    /\ At(c, "tidy")
    /\ enqueueInvocation(c, "cleanup", None)
    /\ UNCHANGED <<service, aborted, partial, closing>>

\* Mutant: close() aborts every running call.
BeginClose_AbortAll(c) ==
    LET running == {t \in Calls : ~At(t, "idle") /\ ~At(t, "done")} IN
    /\ c \in Closes /\ At(c, "idle")
    /\ aborted' = aborted \cup running
    /\ closing' = [closing EXCEPT ![c] = [awaited |-> running, saw |-> Live]]
    /\ Goto(c, "settling")
    /\ UNCHANGED <<service, invokeQueue, partial>>

\* close() aborts the transfers and waits for them to settle ...
BeginClose(c) ==
    LET running == {t \in Transfers : ~At(t, "idle") /\ ~At(t, "done")} IN
    /\ c \in Closes /\ At(c, "idle")
    /\ aborted' = aborted \cup running
    /\ closing' = [closing EXCEPT ![c] = [awaited |-> running, saw |-> Live]]
    /\ Goto(c, "settling")
    /\ UNCHANGED <<service, invokeQueue, partial>>

\* ... takes the session, whose id it awaits if its connection is in use ...
TakeSession(c) ==
    /\ At(c, "settling") /\ \A t \in closing[c].awaited : At(t, "done")
    /\ session' = None
    /\ IF session = transport /\ isConnected(session)
       THEN GotoWith(c, "sessionId", session)
       ELSE Goto(c, "closing")
    /\ UNCHANGED <<transport, pendingTransport, nextMessageId, invokeQueue,
                   sessionId, conn, aborted, requests, partial, closing>>

\* ... queues END_SESSION with that id ...
EndSession(c) ==
    LET k == call[c].conn IN
    /\ At(c, "sessionId") /\ sessionId[k] # "creating"
    /\ IF sessionId[k] = "ready" THEN enqueueInvocation(c, "end", k)
       ELSE Goto(c, "closing") /\ UNCHANGED invokeQueue
    /\ UNCHANGED <<service, aborted, partial, closing>>

\* Mutant: a connection being opened is not awaited.
CloseTransport_NotAwaited(c) ==
    /\ At(c, "closing")
    /\ \/ transport = None /\ Goto(c, "done")
          /\ UNCHANGED <<service, invokeQueue>>
       \/ transport # None /\ dropTransport(c, "shutting")
    /\ UNCHANGED <<aborted, partial, closing>>

\* ... awaits a connection being opened, then closes the one in use, if any.
CloseTransport(c) ==
    /\ \/ At(c, "closing") /\ pendingTransport = None
       \/ At(c, "pending") /\ conn[call[c].conn] # "connecting"
    /\ \/ transport = None /\ Goto(c, "done")
          /\ UNCHANGED <<service, invokeQueue>>
       \/ transport # None /\ dropTransport(c, "shutting")
    /\ UNCHANGED <<aborted, partial, closing>>

AwaitPending(c) ==
    /\ At(c, "closing") /\ pendingTransport # None
    /\ GotoWith(c, "pending", pendingTransport)
    /\ UNCHANGED <<service, invokeQueue, aborted, partial, closing>>

CloseReturns(c) ==
    /\ At(c, "shutting") /\ Closed(c)
    /\ Goto(c, "done")
    /\ UNCHANGED <<service, invokeQueue, aborted, partial, closing>>

-----------------------------------------------------------------------------
\* The steps call c takes by itself, its timers included.
Progress(c) ==
    \/ getTransport(c) \/ ensureSessionOn(c) \/ exchange(c) \/ Timeout(c)
    \/ CatchFailure(c) \/ Dropped(c)
    \/ openDataChannel(c) \/ DataDone(c) \/ DataFailed(c) \/ CutShort(c)
    \/ removeIncompleteUpload(c)
    \/ c \in Closes /\ (TakeSession(c) \/ EndSession(c) \/ AwaitPending(c)
                        \/ CloseTransport(c) \/ CloseReturns(c))

Begin(c) == BeginRequest(c) \/ BeginTransfer(c) \/ BeginClose(c)

Next ==
    \/ \E c \in Calls : Begin(c) \/ Progress(c)
    \/ TransportConnected \/ TransportFailed
    \/ \E m \in requests : Apply(m) \/ \E ok \in BOOLEAN : Reply(m, ok)
    \/ \E k \in Conns : PeerEnds(k) \/ SocketClosed(k)

Spec == Init /\ [][Next]_vars

\* Every wait is bounded by a timer or by another call's progress; nothing is
\* assumed of the device, but that it ends the messages of a listing, each of
\* which restarts the timer, and of the caller, but that it reads what it pulls.
FairSpec ==
    /\ Spec
    /\ \A c \in Calls : WF_vars(Progress(c))
    /\ WF_vars(TransportConnected \/ TransportFailed)
    /\ \A k \in Conns : WF_vars(SocketClosed(k))

-----------------------------------------------------------------------------
(* Properties *)

\* Types of the variables.
TypeOK ==
    /\ {transport, pendingTransport, session} \subseteq Conns \cup {None}
    /\ nextMessageId \in Nat
    /\ invokeQueue \in Seq(Calls)
    /\ sessionId \in [Conns -> {"none", "creating", "ready", "failed"}]
    /\ conn \in [Conns -> {"unused", "connecting", "open", "ending", "closed"}]
    /\ call \in [Calls -> [pc : {"idle", "opening", "queued", "connecting", "acquired",
                                 "creating", "sending", "reply", "failing", "dropping",
                                 "data", "cutting", "tidy", "settling", "sessionId",
                                 "closing", "pending", "shutting", "done"},
                           step : {"main", "data", "rename", "cleanup", "end"},
                           conn : Conns \cup {None}, id : Nat,
                           sid : Conns \cup {None}]]
    /\ aborted \subseteq Transfers
    /\ requests \subseteq [conn : Conns, id : Nat, by : Calls, sid : Conns \cup {None},
                           step : {"create", "main", "rename", "cleanup", "end"},
                           applied : BOOLEAN]
    /\ partial \subseteq Pushes
    /\ closing \in [Closes -> [awaited : SUBSET Transfers, saw : SUBSET Conns]]

\* A request goes out with the id of a session the device created on the very
\* connection that carries it, however often the connection was replaced while
\* the call waited for its turn: it is resolved inside the turn.  END_SESSION's
\* is not, and may be the id of a session that went with its connection.
RequestsOnOwnSession ==
    \A m \in requests : m.step \notin {"create", "end"} =>
        m.sid = m.conn /\ sessionId[m.conn] = "ready"

\* The device owes at most one reply on a connection that is still read: after
\* a request that timed out, nothing more is sent on its connection, whose late
\* reply could otherwise arrive in the middle of the next exchange.
OneOutstandingRequest ==
    \A m, n \in requests :
        m.conn = n.conn /\ conn[m.conn] = "open" => m = n

\* However calls, failures and close() interleave, at most one connection is
\* open or being opened, and an open one is the one the service would close.
OneConnection ==
    /\ Cardinality(Live) <= 1
    /\ \A k \in Live : k = (IF conn[k] = "open" THEN transport ELSE pendingTransport)

\* When close() returns, no connection is left of those that were open or being
\* opened when it was called.
CloseCovers ==
    [][\A c \in Closes : ~At(c, "done") /\ At(c, "done")' =>
          \A k \in closing[c].saw : conn'[k] \notin {"connecting", "open"}]_vars

\* A push that was told its file was created does not settle, with the file
\* still there, before the device was asked to remove it.
FailedPushTidies ==
    \A c \in Pushes : At(c, "done") /\ call[c].step # "main" /\ c \in partial =>
        call[c].step = "cleanup"

\* Every call that is made settles, though the device may never answer: no turn
\* is lost and no two calls wait for each other.
Settles == \A c \in Calls : ~At(c, "idle") ~> At(c, "done")

=============================================================================
