----------------------- MODULE CoreDeviceInvokeProofs -----------------------
(***************************************************************************)
(* Proofs about CoreDeviceInvoke, for any invocations, borrows, closes and *)
(* connections.                                                            *)
(***************************************************************************)
EXTENDS CoreDeviceInvoke, SequenceTheorems, TLAPS

\* The places of a call, and those in which an invocation has its turn and a
\* connection of its own.
Places == {"idle", "queued", "dropping", "connecting", "acquired", "reply", "joined", "closing",
           "pending", "shutting", "done"}
Own == {"connecting", "acquired", "reply"}
CallStates == [pc : Places, conn : Conns \cup {None}]

\* Only invocations are in the queue's places, and with a connection opened.
Holders ==
    \A c \in Calls :
        /\ call[c].pc \in Own \cup {"queued", "dropping"} => c \in Invokes
        /\ call[c].pc \in Own => call[c].conn \in Conns /\ conn[call[c].conn] # "unused"

LEMMA SomeCalls == Invokes \subseteq Calls /\ Borrows \subseteq Calls /\ Closes \subseteq Calls
  BY DEF Calls

LEMMA NoConn == None \notin Conns
  BY ConnsAssumption DEF ConnsAssumption

\* What Goto() leaves behind.
LEMMA GotoType ==
    ASSUME TypeOK, NEW c \in Calls, NEW pc \in Places, NEW k \in Conns \cup {None},
           Goto(c, pc, k)
    PROVE  call' \in [Calls -> CallStates]
  BY DEF TypeOK, Goto, CallStates, Places

\* What Settled() leaves behind.
LEMMA SettledTypes ==
    ASSUME TypeOK, NEW W, Settled(W)
    PROVE  call' \in [Calls -> CallStates] /\ invokeQueue' \in Seq(Invokes)
<1>1. call' \in [Calls -> CallStates]
  BY DEF TypeOK, Settled, CallStates, Places
<1>2. invokeQueue # << >> => Tail(invokeQueue) \in Seq(Invokes)
  BY DEF TypeOK
<1>3. invokeQueue' \in Seq(Invokes)
  BY <1>2 DEF TypeOK, Settled, HasTurn
<1> QED
  BY <1>1, <1>3

\* What Shutdown leaves behind.
LEMMA ShutdownTypes ==
    ASSUME TypeOK, Shutdown
    PROVE  /\ transport' = None
           /\ conn' \in [Conns -> {"unused", "connecting", "open", "ending", "closed"}]
           /\ requests' \subseteq [conn : Conns, by : Invokes]
           /\ \A k \in Conns : conn[k] # "unused" => conn'[k] # "unused"
  BY DEF TypeOK, Shutdown

\* Who has the turn is an invocation.
LEMMA TurnTaker ==
    ASSUME TypeOK, NEW c, HasTurn(c)
    PROVE  c \in Invokes
  BY DEF TypeOK, HasTurn

\* The variables that a step leaves alone keep their types.
LEMMA Retyped ==
    ASSUME TypeOK,
           transport' \in Conns \cup {None}, pendingTransport' \in Conns \cup {None},
           invokeQueue' \in Seq(Invokes),
           conn' \in [Conns -> {"unused", "connecting", "open", "ending", "closed"}],
           call' \in [Calls -> CallStates],
           answer' \in [Invokes -> Invokes \cup {None}],
           requests' \subseteq [conn : Conns, by : Invokes]
    PROVE  TypeOK'
  BY DEF TypeOK, CallStates, Places

TypeInv == TypeOK /\ Holders

LEMMA TypeInvariant == Spec => []TypeInv
<1>1. Init => TypeInv
  <2> SUFFICES ASSUME Init PROVE TypeInv
    OBVIOUS
  <2>1. invokeQueue \in Seq(Invokes)
    BY DEF Init
  <2>2. TypeOK
    BY <2>1 DEF Init, TypeOK
  <2>3. Holders
    BY DEF Init, Holders, Own
  <2> QED
    BY <2>2, <2>3 DEF TypeInv
<1>2. TypeInv /\ [Next]_vars => TypeInv'
  <2> SUFFICES ASSUME TypeOK, Holders, [Next]_vars PROVE TypeOK' /\ Holders'
    BY DEF TypeInv
  <2> USE SomeCalls, NoConn
  <2>0. /\ transport \in Conns \cup {None} /\ pendingTransport \in Conns \cup {None}
        /\ invokeQueue \in Seq(Invokes) /\ call \in [Calls -> CallStates]
        /\ conn \in [Conns -> {"unused", "connecting", "open", "ending", "closed"}]
        /\ answer \in [Invokes -> Invokes \cup {None}]
        /\ requests \subseteq [conn : Conns, by : Invokes]
    BY DEF TypeOK, CallStates, Places
  <2>1. ASSUME NEW c \in Calls, Invoke(c) PROVE TypeOK' /\ Holders'
    <3>1. call' \in [Calls -> CallStates]
      BY <2>1, GotoType DEF Invoke, Places
    <3>2. invokeQueue' \in Seq(Invokes)
      BY <2>0, <2>1 DEF Invoke
    <3> QED
      BY <2>0, <2>1, <3>1, <3>2, Retyped DEF Invoke, Goto, Holders, Own
  <2>2. ASSUME NEW c \in Calls, refreshTransport(c) PROVE TypeOK' /\ Holders'
    <3>1. call' \in [Calls -> CallStates]
      BY <2>0, <2>2, GotoType DEF refreshTransport, Places
    <3>2. c \in Invokes
      BY <2>2, TurnTaker DEF refreshTransport
    <3>3. Shutdown
      BY <2>2 DEF refreshTransport
    <3> QED
      BY <2>0, <2>2, <3>1, <3>2, <3>3, ShutdownTypes, Retyped
      DEF refreshTransport, Goto, Holders, Own
  <2>3. ASSUME NEW c \in Calls, newTransport(c) PROVE TypeOK' /\ Holders'
    <3>1. PICK k \in Conns : Dial(k) /\ Goto(c, "connecting", k)
      BY <2>3 DEF newTransport
    <3>2. call' \in [Calls -> CallStates]
      BY <3>1, GotoType DEF Places
    <3>3. c \in Invokes
      BY <2>3, TurnTaker DEF newTransport
    <3>4. /\ conn' \in [Conns -> {"unused", "connecting", "open", "ending", "closed"}]
          /\ conn'[k] # "unused" /\ \A j \in Conns : conn[j] # "unused" => conn'[j] # "unused"
      BY <2>0, <3>1 DEF Dial
    <3> QED
      BY <2>0, <2>3, <3>1, <3>2, <3>3, <3>4, Retyped DEF newTransport, Goto, Holders, Own
  <2>4. ASSUME NEW c \in Calls, FreshConnected(c) PROVE TypeOK' /\ Holders'
    <3>1. call[c].conn \in Conns
      BY <2>4 DEF FreshConnected, Holders, Own, At
    <3>2. call' \in [Calls -> CallStates]
      BY <2>4, <3>1, GotoType DEF FreshConnected, Places
    <3>3. /\ conn' \in [Conns -> {"unused", "connecting", "open", "ending", "closed"}]
          /\ \A j \in Conns : conn[j] # "unused" => conn'[j] # "unused"
      BY <2>0, <2>4 DEF FreshConnected
    <3>4. conn'[call[c].conn] # "unused"
      BY <2>0, <2>4, <3>1 DEF FreshConnected
    <3> QED
      BY <2>0, <2>4, <3>1, <3>2, <3>3, <3>4, Retyped DEF FreshConnected, Goto, Holders, Own
  <2>5. ASSUME NEW W, Settled(W), transport' = transport \/ transport' = pendingTransport,
               pendingTransport' \in {pendingTransport, None},
               conn' \in [Conns -> {"unused", "connecting", "open", "ending", "closed"}],
               \A j \in Conns : conn[j] # "unused" => conn'[j] # "unused",
               requests' \subseteq requests, answer' \in [Invokes -> Invokes \cup {None}]
        PROVE  TypeOK' /\ Holders'
    <3>1. Holders'
      BY <2>0, <2>5 DEF Settled, Holders, Own
    <3>2. TypeOK'
      BY <2>0, <2>5, SettledTypes, Retyped
    <3> QED
      BY <3>1, <3>2
  <2>6. ASSUME NEW c \in Calls, FreshFailed(c) PROVE TypeOK' /\ Holders'
    <3>1. /\ conn' \in [Conns -> {"unused", "connecting", "open", "ending", "closed"}]
          /\ \A j \in Conns : conn[j] # "unused" => conn'[j] # "unused"
      BY <2>0, <2>6 DEF FreshFailed
    <3> QED
      BY <2>0, <2>5, <2>6, <3>1 DEF FreshFailed
  <2>7. ASSUME NEW c \in Calls, exchange(c) PROVE TypeOK' /\ Holders'
    <3>1. c \in Invokes /\ call[c].conn \in Conns /\ conn[call[c].conn] # "unused"
      BY <2>7 DEF exchange, Holders, Own, At
    <3>2. CASE Settled({c}) /\ UNCHANGED requests
      BY <2>0, <2>5, <2>7, <3>2 DEF exchange
    <3>3. CASE /\ requests' = requests \cup {[conn |-> call[c].conn, by |-> c]}
               /\ Goto(c, "reply", call[c].conn) /\ UNCHANGED invokeQueue
      <4>1. call' \in [Calls -> CallStates]
        BY <3>1, <3>3, GotoType DEF Places
      <4>2. requests' \subseteq [conn : Conns, by : Invokes]
        BY <2>0, <3>1, <3>3
      <4> QED
        BY <2>0, <2>7, <3>1, <3>3, <4>1, <4>2, Retyped DEF exchange, Goto, Holders, Own
    <3> QED
      BY <2>7, <3>2, <3>3 DEF exchange
  <2>8. ASSUME NEW m \in requests, Reply(m) PROVE TypeOK' /\ Holders'
    <3>1. answer' \in [Invokes -> Invokes \cup {None}]
      BY <2>0, <2>8 DEF Reply
    <3> QED
      BY <2>0, <2>5, <2>8, <3>1 DEF Reply
  <2>9. ASSUME NEW c \in Calls, Timeout(c) PROVE TypeOK' /\ Holders'
    BY <2>0, <2>5, <2>9 DEF Timeout
  <2>10. ASSUME NEW k \in Conns, PeerEnds(k) \/ SocketClosed(k) PROVE TypeOK' /\ Holders'
    <3>1. /\ conn' \in [Conns -> {"unused", "connecting", "open", "ending", "closed"}]
          /\ \A j \in Conns : conn[j] # "unused" => conn'[j] # "unused"
      BY <2>0, <2>10 DEF PeerEnds, SocketClosed
    <3> QED
      BY <2>0, <2>5, <2>10, <3>1 DEF PeerEnds, SocketClosed
  <2>11. ASSUME NEW c \in Calls, getTransport(c) PROVE TypeOK' /\ Holders'
    <3>1. call' \in [Calls -> CallStates]
      BY <2>11, GotoType DEF getTransport, Places
    <3>2. /\ conn' \in [Conns -> {"unused", "connecting", "open", "ending", "closed"}]
          /\ \A j \in Conns : conn[j] # "unused" => conn'[j] # "unused"
          /\ pendingTransport' \in Conns \cup {None}
      BY <2>0, <2>11 DEF getTransport, Dial
    <3>3. /\ \A d \in Calls : d # c => call'[d] = call[d]
          /\ call'[c].pc \in {"done", "joined"}
      BY <2>0, <2>11 DEF getTransport, Goto
    <3> QED
      BY <2>0, <2>11, <3>1, <3>2, <3>3, Retyped DEF getTransport, Holders, Own
  <2>12. CASE PendingSettles
    <3>1. call' \in [Calls -> CallStates]
      BY <2>0, <2>12 DEF PendingSettles, CallStates, Places
    <3>2. /\ conn' \in [Conns -> {"unused", "connecting", "open", "ending", "closed"}]
          /\ \A j \in Conns : conn[j] # "unused" => conn'[j] # "unused"
      BY <2>0, <2>12 DEF PendingSettles
    <3> QED
      BY <2>0, <2>12, <3>1, <3>2, Retyped DEF PendingSettles, Holders, Own
  <2>13. ASSUME NEW c \in Calls, BeginClose(c) PROVE TypeOK' /\ Holders'
    <3>1. call' \in [Calls -> CallStates]
      BY <2>0, <2>13, GotoType DEF BeginClose, Places
    <3>2. /\ \A d \in Calls : d # c => call'[d] = call[d]
          /\ call'[c].pc \in {"closing", "pending"}
      BY <2>0, <2>13 DEF BeginClose, Goto
    <3> QED
      BY <2>0, <2>13, <3>1, <3>2, Retyped DEF BeginClose, Holders, Own
  <2>14. ASSUME NEW c \in Calls, CloseTransport(c) PROVE TypeOK' /\ Holders'
    <3>1. call' \in [Calls -> CallStates]
      BY <2>0, <2>14, GotoType DEF CloseTransport, Places
    <3>2. /\ \A d \in Calls : d # c => call'[d] = call[d]
          /\ call'[c].pc \in {"done", "shutting"}
      BY <2>0, <2>14 DEF CloseTransport, Goto
    <3>3. /\ transport' \in Conns \cup {None}
          /\ conn' \in [Conns -> {"unused", "connecting", "open", "ending", "closed"}]
          /\ requests' \subseteq [conn : Conns, by : Invokes]
          /\ \A k \in Conns : conn[k] # "unused" => conn'[k] # "unused"
      BY <2>0, <2>14, ShutdownTypes DEF CloseTransport
    <3> QED
      BY <2>0, <2>14, <3>1, <3>2, <3>3, Retyped DEF CloseTransport, Holders, Own
  <2>15. ASSUME NEW c \in Calls, CloseReturns(c) PROVE TypeOK' /\ Holders'
    <3>1. call' \in [Calls -> CallStates]
      BY <2>15, GotoType DEF CloseReturns, Places
    <3> QED
      BY <2>0, <2>15, <3>1, Retyped DEF CloseReturns, Goto, Holders, Own
  <2>16. CASE UNCHANGED vars
    BY <2>16 DEF vars, TypeOK, Holders
  <2> QED
    BY <2>1, <2>2, <2>3, <2>4, <2>6, <2>7, <2>8, <2>9, <2>10, <2>11, <2>12, <2>13, <2>14,
       <2>15, <2>16 DEF Next, Begin, Progress
<1> QED
  BY <1>1, <1>2, PTL DEF Spec

\* Every variable keeps its type.
THEOREM TypeCorrect == Spec => []TypeOK
<1>1. TypeInv => TypeOK
  BY DEF TypeInv
<1> QED
  BY <1>1, TypeInvariant, PTL
-----------------------------------------------------------------------------
(* A reply is its invocation's own *)

\* Two invocations never have one connection, and a request not answered is of
\* the only invocation that may have its connection.
OwnConns == \A c, d \in Invokes :
    c # d /\ call[c].pc \in Own /\ call[d].pc \in Own => call[c].conn # call[d].conn
OwnRequests ==
    \A m \in requests :
        /\ conn[m.conn] # "unused"
        /\ \A c \in Invokes : call[c].pc \in Own /\ call[c].conn = m.conn => c = m.by
OwnInv == TypeInv /\ OwnConns /\ OwnRequests /\ OwnReply

\* Invocations keep their connections or leave them, connections stay used,
\* and no request and no answer is new.
NothingNew ==
    /\ \A c \in Invokes : call'[c].pc \in Own =>
           call[c].pc \in Own /\ call'[c].conn = call[c].conn
    /\ \A k \in Conns : conn[k] # "unused" => conn'[k] # "unused"
    /\ requests' \subseteq requests
    /\ answer' = answer

LEMMA KeptOwn ==
    ASSUME OwnInv, NothingNew
    PROVE  OwnConns' /\ OwnRequests' /\ OwnReply'
<1>1. OwnConns'
  BY DEF OwnInv, OwnConns, NothingNew
<1>2. \A m \in requests : m.conn \in Conns
  BY DEF OwnInv, TypeInv, TypeOK
<1>3. OwnRequests'
  BY <1>2 DEF OwnInv, OwnRequests, NothingNew
<1>4. OwnReply'
  BY DEF OwnInv, OwnReply, NothingNew
<1> QED
  BY <1>1, <1>3, <1>4

\* An invocation opens a connection no other has.
LEMMA DialOwn ==
    ASSUME OwnInv, NEW c \in Calls, newTransport(c)
    PROVE  OwnConns' /\ OwnRequests' /\ OwnReply'
<1>1. PICK k \in Conns : Dial(k) /\ Goto(c, "connecting", k)
  BY DEF newTransport
<1>2. conn[k] = "unused" /\ \A j \in Conns : conn[j] # "unused" => conn'[j] # "unused"
  BY <1>1 DEF Dial, OwnInv, TypeInv, TypeOK
<1>3. \A d \in Invokes : call[d].pc \in Own => call[d].conn # k
  BY <1>2, SomeCalls DEF OwnInv, TypeInv, Holders
<1>4. /\ call'[c] = [pc |-> "connecting", conn |-> k]
      /\ \A d \in Invokes : d # c => call'[d] = call[d]
  BY <1>1, SomeCalls DEF Goto, OwnInv, TypeInv, TypeOK
<1>5. OwnConns'
  BY <1>3, <1>4 DEF OwnInv, OwnConns
<1>6. \A m \in requests : m.conn \in Conns /\ m.conn # k
  BY <1>2 DEF OwnInv, TypeInv, TypeOK, OwnRequests
<1>7. OwnRequests'
  BY <1>2, <1>4, <1>6 DEF OwnInv, OwnRequests, newTransport
<1>8. OwnReply'
  BY DEF OwnInv, OwnReply, newTransport
<1> QED
  BY <1>5, <1>7, <1>8

\* A request goes out on the connection of its invocation alone.
LEMMA SendOwn ==
    ASSUME OwnInv, NEW c \in Calls, exchange(c)
    PROVE  OwnConns' /\ OwnRequests' /\ OwnReply'
<1>1. c \in Invokes /\ call[c].pc \in Own /\ call[c].conn \in Conns
      /\ conn[call[c].conn] # "unused"
  BY DEF exchange, At, Own, OwnInv, TypeInv, Holders
<1>2. CASE Settled({c}) /\ UNCHANGED requests
  <2>1. NothingNew
    BY <1>2, SomeCalls DEF exchange, Settled, NothingNew, Own
  <2> QED
    BY <2>1, KeptOwn
<1>3. CASE /\ requests' = requests \cup {[conn |-> call[c].conn, by |-> c]}
           /\ Goto(c, "reply", call[c].conn)
  <2>1. \A d \in Invokes : call'[d].conn = call[d].conn /\ (call'[d].pc \in Own => call[d].pc \in Own)
    BY <1>1, <1>3, SomeCalls DEF Goto, OwnInv, TypeInv, TypeOK
  <2>2. OwnConns'
    BY <2>1 DEF OwnInv, OwnConns
  <2>3. OwnRequests'
    <3> SUFFICES ASSUME NEW m \in requests'
                 PROVE  /\ conn'[m.conn] # "unused"
                        /\ \A d \in Invokes :
                               call'[d].pc \in Own /\ call'[d].conn = m.conn => d = m.by
      BY DEF OwnRequests
    <3>1. CASE m \in requests
      BY <2>1, <3>1 DEF OwnInv, OwnRequests, exchange
    <3>2. CASE m = [conn |-> call[c].conn, by |-> c]
      BY <1>1, <2>1, <3>2 DEF OwnInv, OwnConns, exchange
    <3> QED
      BY <1>3, <3>1, <3>2
  <2>4. OwnReply'
    BY DEF OwnInv, OwnReply, exchange
  <2> QED
    BY <2>2, <2>3, <2>4
<1> QED
  BY <1>2, <1>3 DEF exchange

\* A reply finds its own invocation waiting, or none.
LEMMA ReplyOwn ==
    ASSUME OwnInv, NEW m \in requests, Reply(m)
    PROVE  OwnConns' /\ OwnRequests' /\ OwnReply'
<1>1. \A c \in WaitersOn(m.conn) : c = m.by
  BY DEF WaitersOn, At, Own, OwnInv, OwnRequests
<1>2. \A c \in Invokes : answer'[c] = IF c \in WaitersOn(m.conn) THEN m.by ELSE answer[c]
  BY DEF Reply
<1>3. OwnReply'
  BY <1>1, <1>2 DEF OwnInv, OwnReply
<1>4. \A c \in Invokes : call'[c].pc \in Own =>
          call[c].pc \in Own /\ call'[c].conn = call[c].conn
  BY SomeCalls DEF Reply, Settled, Own
<1>5. requests' \subseteq requests /\ conn' = conn
  BY DEF Reply
<1>6. OwnConns'
  BY <1>4 DEF OwnInv, OwnConns
<1>7. OwnRequests'
  BY <1>4, <1>5 DEF OwnInv, OwnRequests
<1> QED
  BY <1>3, <1>6, <1>7

LEMMA OwnInvariant == Spec => []OwnInv
<1>1. Init => OwnConns /\ OwnRequests /\ OwnReply
  BY SomeCalls DEF Init, OwnConns, OwnRequests, OwnReply, Own
<1>2. OwnInv /\ [Next]_vars => OwnConns' /\ OwnRequests' /\ OwnReply'
  <2> SUFFICES ASSUME OwnInv, [Next]_vars PROVE OwnConns' /\ OwnRequests' /\ OwnReply'
    OBVIOUS
  <2> USE SomeCalls
  <2>0. call \in [Calls -> CallStates] /\ requests \subseteq [conn : Conns, by : Invokes]
        /\ conn \in [Conns -> {"unused", "connecting", "open", "ending", "closed"}]
    BY DEF OwnInv, TypeInv, TypeOK, CallStates, Places
  <2>1. ASSUME NEW c \in Calls, NEW pc \in {"queued", "dropping", "joined", "closing", "pending",
                                             "shutting", "done"},
               NEW k \in Conns \cup {None}, Goto(c, pc, k)
        PROVE  \A d \in Invokes : call'[d].pc \in Own =>
                   call[d].pc \in Own /\ call'[d].conn = call[d].conn
    BY <2>0, <2>1 DEF Goto, Own
  <2>2. ASSUME NEW W, Settled(W)
        PROVE  \A d \in Invokes : call'[d].pc \in Own =>
                   call[d].pc \in Own /\ call'[d].conn = call[d].conn
    BY <2>2 DEF Settled, Own
  <2>3. ASSUME Shutdown
        PROVE  /\ \A k \in Conns : conn[k] # "unused" => conn'[k] # "unused"
               /\ requests' \subseteq requests
    BY <2>3 DEF Shutdown
  <2>4. ASSUME NEW c \in Calls, Invoke(c) PROVE NothingNew
    BY <2>1, <2>4 DEF Invoke, NothingNew
  <2>5. ASSUME NEW c \in Calls, refreshTransport(c) PROVE NothingNew
    <3>1. transport \in Conns \cup {None}
      BY DEF OwnInv, TypeInv, TypeOK
    <3> QED
      BY <2>1, <2>3, <2>5, <3>1 DEF refreshTransport, NothingNew
  <2>6. ASSUME NEW c \in Calls, FreshConnected(c) PROVE NothingNew
    <3>1. At(c, "connecting") /\ call'[c].conn = call[c].conn
          /\ \A d \in Invokes : d # c => call'[d] = call[d]
      BY <2>0, <2>6 DEF FreshConnected, Goto
    <3>2. \A k \in Conns : conn[k] # "unused" => conn'[k] # "unused"
      BY <2>0, <2>6 DEF FreshConnected
    <3> QED
      BY <2>6, <3>1, <3>2 DEF FreshConnected, NothingNew, At, Own
  <2>7. ASSUME NEW c \in Calls, FreshFailed(c) PROVE NothingNew
    <3>1. \A k \in Conns : conn[k] # "unused" => conn'[k] # "unused"
      BY <2>0, <2>7 DEF FreshFailed
    <3> QED
      BY <2>2, <2>7, <3>1 DEF FreshFailed, NothingNew
  <2>8. ASSUME NEW c \in Calls, Timeout(c) PROVE NothingNew
    BY <2>2, <2>8 DEF Timeout, NothingNew
  <2>9. ASSUME NEW k \in Conns, PeerEnds(k) \/ SocketClosed(k) PROVE NothingNew
    <3>1. \A j \in Conns : conn[j] # "unused" => conn'[j] # "unused"
      BY <2>0, <2>9 DEF PeerEnds, SocketClosed
    <3> QED
      BY <2>2, <2>9, <3>1 DEF PeerEnds, SocketClosed, NothingNew
  <2>10. ASSUME NEW c \in Calls, getTransport(c) PROVE NothingNew
    <3>1. Goto(c, "done", None) \/ Goto(c, "joined", None)
      BY <2>10 DEF getTransport
    <3>2. \A j \in Conns : conn[j] # "unused" => conn'[j] # "unused"
      BY <2>0, <2>10 DEF getTransport, Dial
    <3> QED
      BY <2>1, <2>10, <3>1, <3>2 DEF getTransport, NothingNew
  <2>11. CASE PendingSettles
    <3>1. \A j \in Conns : conn[j] # "unused" => conn'[j] # "unused"
      BY <2>0, <2>11 DEF PendingSettles
    <3>2. \A d \in Invokes : call'[d].pc \in Own =>
              call[d].pc \in Own /\ call'[d].conn = call[d].conn
      BY <2>11 DEF PendingSettles, Own
    <3>3. NothingNew
      BY <2>11, <3>1, <3>2 DEF PendingSettles, NothingNew
    <3> QED
      BY <3>3, KeptOwn
  <2>12. ASSUME NEW c \in Calls, BeginClose(c) PROVE NothingNew
    <3>1. pendingTransport \in Conns \cup {None}
      BY DEF OwnInv, TypeInv, TypeOK
    <3> QED
      BY <2>1, <2>12, <3>1 DEF BeginClose, NothingNew
  <2>13. ASSUME NEW c \in Calls, CloseTransport(c) PROVE NothingNew
    <3>1. transport \in Conns \cup {None}
      BY DEF OwnInv, TypeInv, TypeOK
    <3>2. \/ Goto(c, "done", None) /\ UNCHANGED <<conn, requests>>
          \/ Shutdown /\ Goto(c, "shutting", transport)
      BY <2>13 DEF CloseTransport
    <3>3. answer' = answer
      BY <2>13 DEF CloseTransport
    <3> QED
      BY <2>1, <2>3, <3>1, <3>2, <3>3 DEF NothingNew
  <2>14. ASSUME NEW c \in Calls, CloseReturns(c) PROVE NothingNew
    BY <2>1, <2>14 DEF CloseReturns, NothingNew
  <2>15. CASE UNCHANGED vars
    <3>1. NothingNew
      BY <2>15 DEF vars, NothingNew
    <3> QED
      BY <3>1, KeptOwn
  <2> QED
    BY <2>4, <2>5, <2>6, <2>7, <2>8, <2>9, <2>10, <2>11, <2>12, <2>13, <2>14, <2>15,
       KeptOwn, DialOwn, SendOwn, ReplyOwn DEF Next, Begin, Progress
<1> QED
  BY <1>1, <1>2, TypeInvariant, PTL DEF Spec, OwnInv

\* Whatever was cut short before, an invocation returns the reply to its own
\* request, though replies are not matched by id: its connection is its own.
THEOREM OwnReplySafe == Spec => []OwnReply
<1>1. OwnInv => OwnReply
  BY DEF OwnInv
<1> QED
  BY <1>1, OwnInvariant, PTL
-----------------------------------------------------------------------------
(* The service answers each invocation once *)

\* A request not answered is the only one of an invocation that waits or is over, and
\* who has a reply is over.
Asked ==
    /\ \A m \in requests : call[m.by].pc \in {"reply", "done"}
    /\ \A m, n \in requests : m.by = n.by => m = n
Answered == \A c \in Invokes : answer[c] # None => call[c].pc = "done"
OnceInv == OwnInv /\ Asked /\ Answered

\* No invocation asks or is answered: it goes on, or settles with nothing.
GivenUp == {c \in Invokes : call[c].pc # "done" /\ call'[c].pc = "done"}
Quiet ==
    /\ answer' = answer /\ requests' \subseteq requests
    /\ \A c \in Invokes \ GivenUp :
          /\ call'[c].pc = "reply" <=> call[c].pc = "reply"
          /\ call'[c].pc = "done" <=> call[c].pc = "done"

LEMMA QuietGivesUp ==
    ASSUME OnceInv, Quiet
    PROVE  Promise!GiveUp(GivenUp) /\ Asked' /\ Answered'
<1>1. \A c \in GivenUp : answer[c] = None /\ Stage(c) \in {"new", "asked"} /\ Stage(c)' = "failed"
  BY DEF OnceInv, Answered, GivenUp, Stage, At, Quiet
<1>2. \A c \in Invokes \ GivenUp : Stage(c)' = Stage(c)
  BY DEF Quiet, Stage, At
<1>3. {m.by : m \in requests'} \subseteq {m.by : m \in requests}
  BY DEF Quiet
<1>4. Promise!GiveUp(GivenUp)
  BY <1>1, <1>2, <1>3 DEF Promise!GiveUp, Quiet, GivenUp
<1>5. \A m \in requests : m.by \in Invokes
  BY DEF OnceInv, OwnInv, TypeInv, TypeOK
<1>6. Asked'
  BY <1>5 DEF OnceInv, Asked, Quiet, GivenUp
<1>7. Answered'
  BY DEF OnceInv, Answered, Quiet, GivenUp
<1> QED
  BY <1>4, <1>6, <1>7

\* What any step does to the promise.
Promised == Promise!Next /\ Asked' /\ Answered'

LEMMA QuietPromised ==
    ASSUME OnceInv, Quiet
    PROVE  Promised
<1>1. GivenUp \in SUBSET Invokes
  BY DEF GivenUp
<1> QED
  BY <1>1, QuietGivesUp DEF Promised, Promise!Next, Promise!GiveUp

\* The request of an invocation goes out, once, or its connection is gone.
LEMMA SendPromised ==
    ASSUME OnceInv, NEW c \in Calls, exchange(c)
    PROVE  Promised
<1>1. /\ c \in Invokes /\ call[c].pc = "acquired" /\ call \in [Calls -> CallStates]
      /\ call[c].conn \in Conns /\ answer' = answer
  BY DEF exchange, At, OnceInv, OwnInv, TypeInv, TypeOK, Holders, Own, CallStates, Places
<1>2. CASE Settled({c}) /\ UNCHANGED requests
  <2>1. Quiet
    BY <1>1, <1>2, SomeCalls DEF Settled, Quiet, GivenUp
  <2> QED
    BY <2>1, QuietPromised
<1>3. CASE /\ requests' = requests \cup {[conn |-> call[c].conn, by |-> c]}
           /\ Goto(c, "reply", call[c].conn)
  <2>1. /\ call'[c].pc = "reply"
        /\ \A d \in Invokes : d # c => call'[d] = call[d]
    BY <1>1, <1>3, SomeCalls DEF Goto
  <2>2. Stage(c) = "new" /\ Stage(c)' = "asked" /\ \A d \in Invokes : d # c => Stage(d)' = Stage(d)
    BY <1>1, <2>1 DEF Stage, At
  <2>3. {m.by : m \in requests'} \subseteq {m.by : m \in requests} \cup {c}
    <3>1. \A m \in requests' : m \in requests \/ m.by = c
      BY <1>3
    <3> QED
      BY <3>1
  <2>4. Promise!Ask(c)
    BY <1>1, <2>2, <2>3 DEF Promise!Ask
  <2>5. \A m \in requests : m.by \in Invokes /\ m.by # c
    BY <1>1 DEF OnceInv, Asked, OwnInv, TypeInv, TypeOK
  <2>6. Asked'
    BY <1>3, <2>1, <2>5 DEF OnceInv, Asked
  <2>7. Answered'
    BY <1>1, <2>1 DEF OnceInv, Answered
  <2> QED
    BY <1>1, <2>4, <2>6, <2>7 DEF Promised, Promise!Next
<1> QED
  BY <1>2, <1>3 DEF exchange

\* A reply settles its own invocation, or none.
LEMMA ReplyPromised ==
    ASSUME OnceInv, NEW m \in requests, Reply(m)
    PROVE  Promised
<1> DEFINE W == WaitersOn(m.conn)
<1>1. W \subseteq {m.by} /\ m.by \in Invokes /\ W \subseteq Invokes
  BY DEF WaitersOn, At, Own, OnceInv, OwnInv, OwnRequests, TypeInv, TypeOK
<1>2. /\ \A c \in W : call[c].pc = "reply"
      /\ \A c \in Invokes : call'[c] = IF c \in W THEN [pc |-> "done", conn |-> None] ELSE call[c]
  BY SomeCalls DEF Reply, Settled, WaitersOn, At
<1>3. /\ requests' = requests \ {m}
      /\ answer' = [c \in Invokes |-> IF c \in W THEN m.by ELSE answer[c]]
      /\ answer \in [Invokes -> Invokes \cup {None}]
  BY DEF Reply, OnceInv, OwnInv, TypeInv, TypeOK
<1> HIDE DEF W
<1>4. CASE W = {}
  <2>1. Quiet
    BY <1>2, <1>3, <1>4 DEF Quiet, GivenUp
  <2> QED
    BY <2>1, QuietPromised
<1>5. CASE W = {m.by}
  <2> DEFINE c == m.by
  <2>1. c \in Invokes /\ call[c].pc = "reply" /\ call'[c].pc = "done" /\ c \in Calls
        /\ \A d \in Invokes : d # c => call'[d] = call[d]
    BY <1>1, <1>2, <1>5, SomeCalls
  <2>2. answer' = [answer EXCEPT ![c] = c]
    BY <1>1, <1>3, <1>5
  <2>3. answer'[c] = c /\ c # None /\ \A d \in Invokes : d # c => answer'[d] = answer[d]
    BY <1>3, <2>1, <2>2, ConnsAssumption DEF ConnsAssumption
  <2>4. c \in {n.by : n \in requests} /\ {n.by : n \in requests'} \subseteq {n.by : n \in requests} \ {c}
    BY <1>3 DEF OnceInv, Asked
  <2> HIDE DEF c
  <2>5. Stage(c) = "asked" /\ Stage(c)' = "replied"
    BY <2>1, <2>3 DEF Stage, At
  <2>6. \A d \in Invokes : d # c => Stage(d)' = Stage(d)
    BY <2>1, <2>3 DEF Stage, At
  <2>7. Promise!Answer(c)
    BY <2>1, <2>2, <2>4, <2>5, <2>6 DEF Promise!Answer
  <2>8. Asked'
    <3>1. \A n \in requests' : n \in requests /\ n.by # c /\ n.by \in Invokes
      BY <1>3, <2>4 DEF OnceInv, OwnInv, TypeInv, TypeOK
    <3> QED
      BY <2>1, <3>1 DEF OnceInv, Asked
  <2>9. Answered'
    BY <2>1, <2>3 DEF OnceInv, Answered
  <2> QED
    BY <2>1, <2>7, <2>8, <2>9 DEF Promised, Promise!Next
<1> QED
  BY <1>1, <1>4, <1>5

LEMMA StepPromised ==
    ASSUME OnceInv, [Next]_vars
    PROVE  Promised
<1> USE SomeCalls
<1>0. /\ call \in [Calls -> CallStates]
      /\ transport \in Conns \cup {None} /\ pendingTransport \in Conns \cup {None}
      /\ \A c \in Calls : call[c].pc \in {"queued", "dropping", "connecting", "acquired", "reply"}
                             => c \in Invokes
  BY DEF OnceInv, OwnInv, TypeInv, TypeOK, Holders, Own, CallStates, Places
<1>1. ASSUME NEW c \in Calls, NEW pc, NEW k, pc # "reply", call[c].pc \notin {"reply", "done"},
             Goto(c, pc, k), answer' = answer, requests' \subseteq requests
      PROVE  Promised
  <2>1. call'[c].pc = pc /\ \A d \in Invokes : d # c => call'[d] = call[d]
    BY <1>0, <1>1 DEF Goto
  <2>2. Quiet
    BY <1>1, <2>1 DEF Quiet, GivenUp
  <2> QED
    BY <2>2, QuietPromised
<1>2. ASSUME NEW W, Settled(W), answer' = answer, requests' \subseteq requests
      PROVE  Promised
  <2>1. \A d \in Invokes : call'[d] = call[d] \/ call'[d].pc = "done"
    BY <1>2 DEF Settled
  <2>2. Quiet
    BY <1>2, <2>1 DEF Quiet, GivenUp
  <2> QED
    BY <2>2, QuietPromised
<1>3. ASSUME Shutdown PROVE requests' \subseteq requests
  BY <1>3 DEF Shutdown
<1>4. ASSUME NEW c \in Calls, Invoke(c) PROVE Promised
  BY <1>1, <1>4 DEF Invoke, At
<1>5. ASSUME NEW c \in Calls, refreshTransport(c) PROVE Promised
  BY <1>1, <1>3, <1>5 DEF refreshTransport, At
<1>6. ASSUME NEW c \in Calls, newTransport(c) PROVE Promised
  BY <1>1, <1>6 DEF newTransport, At
<1>7. ASSUME NEW c \in Calls, FreshConnected(c) PROVE Promised
  BY <1>1, <1>7 DEF FreshConnected, At
<1>8. ASSUME NEW c \in Calls, FreshFailed(c) PROVE Promised
  BY <1>2, <1>8 DEF FreshFailed
<1>9. ASSUME NEW c \in Calls, Timeout(c) PROVE Promised
  BY <1>2, <1>9 DEF Timeout
<1>10. ASSUME NEW k \in Conns, PeerEnds(k) \/ SocketClosed(k) PROVE Promised
  BY <1>2, <1>10 DEF PeerEnds, SocketClosed
<1>11. ASSUME NEW c \in Calls, getTransport(c) PROVE Promised
  BY <1>1, <1>11 DEF getTransport, At
<1>12. CASE PendingSettles
  <2>1. \A d \in Invokes : call'[d] = call[d] \/ (call[d].pc = "joined" /\ call'[d].pc = "done")
    BY <1>12 DEF PendingSettles, At
  <2>2. Quiet
    BY <1>12, <2>1 DEF Quiet, GivenUp, PendingSettles
  <2> QED
    BY <2>2, QuietPromised
<1>13. ASSUME NEW c \in Calls, BeginClose(c) PROVE Promised
  BY <1>1, <1>13 DEF BeginClose, At
<1>14. ASSUME NEW c \in Calls, CloseTransport(c) PROVE Promised
  <2>1. call[c].pc \in {"closing", "pending"} /\ answer' = answer
        /\ requests' \subseteq requests
        /\ (Goto(c, "done", None) \/ Goto(c, "shutting", transport))
    BY <1>3, <1>14 DEF CloseTransport, At
  <2> QED
    BY <1>1, <2>1
<1>15. ASSUME NEW c \in Calls, CloseReturns(c) PROVE Promised
  BY <1>1, <1>15 DEF CloseReturns, At
<1>16. CASE UNCHANGED vars
  <2>1. Quiet
    BY <1>16 DEF vars, Quiet, GivenUp
  <2> QED
    BY <2>1, QuietPromised
<1> QED
  BY <1>4, <1>5, <1>6, <1>7, <1>8, <1>9, <1>10, <1>11, <1>12, <1>13, <1>14, <1>15, <1>16,
     SendPromised, ReplyPromised DEF Next, Begin, Progress

\* The invocations share the service as calls that are each answered once: for any
\* invocations, borrows and closes, a request goes out once, its reply settles its own
\* invocation or nobody, and no late message changes how an invocation settled.
THEOREM Refinement == Spec => ImplementsRequestReply
<1>1. Init => Promise!Init /\ Asked /\ Answered
  BY SomeCalls DEF Init, Promise!Init, Asked, Answered, Stage, At
<1>2. OnceInv /\ [Next]_vars => [Promise!Next]_(Promise!requestVars) /\ Asked' /\ Answered'
  BY StepPromised DEF Promised
<1> QED
  BY <1>1, <1>2, OwnInvariant, PTL DEF Spec, OnceInv, ImplementsRequestReply, Promise!Spec
=============================================================================
