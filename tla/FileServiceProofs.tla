-------------------------- MODULE FileServiceProofs --------------------------
(***************************************************************************)
(* Proofs about FileServiceSession, for any requests, transfers, closes    *)
(* and connections.                                                        *)
(***************************************************************************)
EXTENDS FileServiceSession, FiniteSetTheorems, SequenceTheorems, TLAPS

ConnStates == {"unused", "connecting", "open", "ending", "closed"}
Places == {"idle", "opening", "queued", "connecting", "acquired", "creating", "sending",
           "reply", "failing", "dropping", "data", "cutting", "tidy", "settling",
           "sessionId", "closing", "pending", "shutting", "done"}
StepNames == {"main", "data", "rename", "cleanup", "end"}
CallStates == [pc : Places, step : StepNames, conn : Conns \cup {None}, id : Nat,
               sid : Conns \cup {None}]
SessionStates == {"none", "creating", "ready", "failed"}
Messages == [conn : Conns, id : Nat, by : Calls, sid : Conns \cup {None},
             step : {"create", "main", "rename", "cleanup", "end"}, applied : BOOLEAN]
\* The places of a call that has its turn, and those where it has a connection.
InTurn == {"connecting", "acquired", "creating", "sending", "reply", "failing", "dropping"}
OnConn == {"acquired", "creating", "sending", "reply"}

\* Only the head of the queue is past the queue, and it has a connection once
\* it got one.  The step of a transfer that transfers is not a request's.
Turns ==
    \A c \in Calls :
        /\ call[c].pc \in InTurn => HasTurn(c)
        /\ call[c].pc \in OnConn => call[c].conn \in Conns
        /\ call[c].step = "data" => call[c].pc \in {"data", "cutting", "tidy", "done"}

\* An open connection is the one in use, one being opened the pending one, and
\* there are not both.
Connections ==
    /\ \A k \in Conns : conn[k] = "open" => transport = k
    /\ \A k \in Conns : conn[k] = "connecting" => pendingTransport = k
    /\ pendingTransport # None => conn[pendingTransport] = "connecting" /\ ~isConnected(transport)

\* A session is being created where a call creates one, and there where a call
\* is about to send.
Sessions ==
    \A c \in Calls :
        /\ At(c, "creating") => sessionId[call[c].conn] = "creating"
        /\ At(c, "sending") => /\ call[c].sid = call[c].conn
                               /\ sessionId[call[c].conn] = "ready"

\* A request not answered is the only one, is on the open connection in use,
\* and the call that made it waits for its reply or has just given up.
Outstanding ==
    /\ \A m, n \in requests : m = n
    /\ \A m \in requests :
        /\ m.conn = transport /\ conn[m.conn] = "open"
        /\ call[m.by].pc \in {"creating", "reply", "failing"}
        /\ At(m.by, "creating") => m.step = "create"
        /\ At(m.by, "reply") => m.step = call[m.by].step
        /\ m.step \notin {"create", "end"} => m.sid = m.conn /\ sessionId[m.conn] = "ready"

\* Where a push is, by the last request it made, and its file.
Upload(c) ==
    /\ call[c].step # "end"
    /\ call[c].pc \in {"idle", "opening"} => call[c].step = "main"
    /\ call[c].step = "data" => ~At(c, "done")
    /\ call[c].step = "rename" /\ At(c, "done") => c \notin partial
Uploads ==
    /\ \A c \in Pushes : Upload(c)
    /\ \A m \in requests : m.step = "rename" /\ m.applied => m.by \notin partial

\* What a close() that waits for connections has still to see closed.
Cover(c) ==
    /\ call[c].pc \notin {"opening", "data", "cutting", "tidy"}
    /\ \A k \in closing[c].saw : conn[k] # "unused"
    /\ At(c, "pending") => \A k \in closing[c].saw \cap Live : k = call[c].conn
    /\ At(c, "shutting") => closing[c].saw \cap Live = {}
Covered == \A c \in Closes : Cover(c)
-----------------------------------------------------------------------------
(* What the helpers leave behind *)

LEMMA Kinds ==
    /\ Requests \subseteq Calls /\ Transfers \subseteq Calls /\ Closes \subseteq Calls
    /\ Pulls \subseteq Transfers /\ Pushes \subseteq Transfers
    /\ Requests \cap (Transfers \cup Closes) = {} /\ Transfers \cap Closes = {}
    /\ None \notin Conns
  BY CallsAssumption, ConnsAssumption DEF Calls, Transfers, CallsAssumption, ConnsAssumption

\* The types under the names used here.
LEMMA Types ==
    ASSUME TypeOK
    PROVE  /\ transport \in Conns \cup {None} /\ pendingTransport \in Conns \cup {None}
           /\ session \in Conns \cup {None}
           /\ nextMessageId \in Nat /\ invokeQueue \in Seq(Calls)
           /\ sessionId \in [Conns -> SessionStates] /\ conn \in [Conns -> ConnStates]
           /\ call \in [Calls -> CallStates] /\ aborted \subseteq Transfers
           /\ requests \subseteq Messages /\ partial \subseteq Pushes
           /\ closing \in [Closes -> [awaited : SUBSET Transfers, saw : SUBSET Conns]]
  BY DEF TypeOK, SessionStates, ConnStates, CallStates, Places, StepNames, Messages

\* Call c moves to a place with its last request, or to a queue with a new one.
LEMMA GotoMoves ==
    ASSUME TypeOK, NEW c \in Calls, NEW pc \in Places, Goto(c, pc)
    PROVE  /\ call' \in [Calls -> CallStates]
           /\ \A d \in Calls : d # c => call'[d] = call[d]
           /\ call'[c].pc = pc
           /\ call'[c].step = IF pc = "data" THEN "data" ELSE call[c].step
           /\ pc # "done" => call'[c].conn = call[c].conn /\ call'[c].sid = call[c].sid
  <1>1. call \in [Calls -> CallStates]
    BY Types
  <1>2. CASE pc = "done"
    BY <1>1, <1>2 DEF Goto, CallStates, Fresh, StepNames
  <1>3. CASE pc # "done"
    BY <1>1, <1>3 DEF Goto, CallStates, StepNames
  <1> QED
    BY <1>2, <1>3

LEMMA GotoWithMoves ==
    ASSUME TypeOK, NEW c \in Calls, NEW pc \in Places, NEW k \in Conns \cup {None},
           GotoWith(c, pc, k)
    PROVE  /\ call' \in [Calls -> CallStates]
           /\ \A d \in Calls : d # c => call'[d] = call[d]
           /\ call'[c].pc = pc /\ call'[c].conn = k
           /\ call'[c].step = call[c].step /\ call'[c].sid = call[c].sid
  <1>1. call \in [Calls -> CallStates]
    BY Types
  <1> QED
    BY <1>1 DEF GotoWith, CallStates

LEMMA EnqueueMoves ==
    ASSUME TypeOK, NEW c \in Calls, NEW step \in StepNames, NEW sid \in Conns \cup {None},
           enqueueInvocation(c, step, sid)
    PROVE  /\ call' \in [Calls -> CallStates]
           /\ \A d \in Calls : d # c => call'[d] = call[d]
           /\ call'[c].pc = "queued" /\ call'[c].step = step
           /\ invokeQueue' \in Seq(Calls) /\ invokeQueue' # << >>
           /\ invokeQueue # << >> => Head(invokeQueue') = Head(invokeQueue)
  <1>1. call' \in [Calls -> CallStates] /\ \A d \in Calls : d # c => call'[d] = call[d]
    BY DEF TypeOK, enqueueInvocation, Fresh, CallStates, Places, StepNames
  <1>2. call'[c].pc = "queued" /\ call'[c].step = step
    BY DEF TypeOK, enqueueInvocation, Fresh
  <1>3. invokeQueue \in Seq(Calls) /\ invokeQueue' = Append(invokeQueue, c)
    BY DEF TypeOK, enqueueInvocation
  <1>4. /\ invokeQueue' \in Seq(Calls) /\ invokeQueue' # << >>
        /\ invokeQueue # << >> => Head(invokeQueue') = Head(invokeQueue)
    BY <1>3
  <1> QED
    BY <1>1, <1>2, <1>4

LEMMA ShutdownLeaves ==
    ASSUME TypeOK, Shutdown
    PROVE  /\ transport' = None
           /\ conn' \in [Conns -> ConnStates]
           /\ \A k \in Conns : conn'[k] = IF k = transport /\ conn[k] = "open" THEN "ending"
                                          ELSE conn[k]
           /\ requests' = {m \in requests : m.conn # transport}
  BY DEF TypeOK, Shutdown, ConnStates

\* The calls of W fail, the sessions they were creating too.
LEMMA FailWaitersLeaves ==
    ASSUME TypeOK, NEW W, FailWaiters(W)
    PROVE  /\ call' \in [Calls -> CallStates]
           /\ \A c \in Calls :
                /\ c \notin W => call'[c] = call[c]
                /\ c \in W => call'[c].pc = "failing"
                /\ call'[c].step = call[c].step /\ call'[c].conn = call[c].conn
                /\ call'[c].sid = call[c].sid
           /\ sessionId' \in [Conns -> SessionStates]
           /\ \A k \in Conns : sessionId'[k] = sessionId[k]
                  \/ \E c \in W : At(c, "creating") /\ call[c].conn = k
           /\ session' \in {session, None}
  <1>1. call' \in [Calls -> CallStates]
    <2>1. call \in [Calls -> CallStates] /\ "failing" \in Places
      BY Types DEF Places
    <2> QED
      BY <2>1 DEF FailWaiters, CallStates
  <1>2. \A c \in Calls :
           /\ c \notin W => call'[c] = call[c]
           /\ c \in W => call'[c].pc = "failing"
           /\ call'[c].step = call[c].step /\ call'[c].conn = call[c].conn
           /\ call'[c].sid = call[c].sid
    BY DEF TypeOK, FailWaiters
  <1> DEFINE lost == {call[c].conn : c \in {w \in W : At(w, "creating")}}
  <1>3. /\ sessionId' = [k \in Conns |-> IF k \in lost THEN "failed" ELSE sessionId[k]]
        /\ session' = IF session \in lost THEN None ELSE session
    BY DEF FailWaiters
  <1>4. \A k \in lost : \E c \in W : At(c, "creating") /\ call[c].conn = k
    OBVIOUS
  <1> HIDE DEF lost
  <1>5. sessionId' \in [Conns -> SessionStates]
    BY <1>3, Types DEF SessionStates
  <1> QED
    BY <1>1, <1>2, <1>3, <1>4, <1>5

\* A call sends, and waits at pc, or the send throws.
LEMMA SendMoves ==
    ASSUME TypeOK, NEW c \in Calls, call[c].conn \in Conns, NEW step \in {"create"} \cup StepNames,
           step # "data",
           NEW sid \in Conns \cup {None}, NEW pc \in Places, SendAndAwait(c, step, sid, pc)
    PROVE  /\ call' \in [Calls -> CallStates] /\ nextMessageId' \in Nat
           /\ \A d \in Calls : d # c => call'[d] = call[d]
           /\ call'[c].step = call[c].step /\ call'[c].conn = call[c].conn
           /\ call'[c].sid = call[c].sid
           /\ requests' \subseteq Messages
           /\ IF isConnected(call[c].conn)
              THEN /\ call'[c].pc = pc
                   /\ requests' = requests \cup
                        {[conn |-> call[c].conn, id |-> nextMessageId, by |-> c, step |-> step,
                          sid |-> sid, applied |-> FALSE]}
              ELSE call'[c].pc = "failing" /\ requests' = requests
  <1>1. nextMessageId' \in Nat
    BY DEF TypeOK, SendAndAwait
  <1>2. CASE isConnected(call[c].conn)
    <2>1. /\ call' = [call EXCEPT ![c].pc = pc, ![c].id = nextMessageId]
          /\ requests' = requests \cup
                 {[conn |-> call[c].conn, id |-> nextMessageId, by |-> c, step |-> step,
                   sid |-> sid, applied |-> FALSE]}
      BY <1>2 DEF SendAndAwait
    <2>2. /\ call' \in [Calls -> CallStates]
          /\ \A d \in Calls : d # c => call'[d] = call[d]
          /\ call'[c].step = call[c].step /\ call'[c].conn = call[c].conn
          /\ call'[c].sid = call[c].sid /\ call'[c].pc = pc
      <3>1. call \in [Calls -> CallStates] /\ nextMessageId \in Nat
        BY Types
      <3> QED
        BY <2>1, <3>1 DEF CallStates
    <2>4. requests' \subseteq Messages
      <3>1. requests \subseteq Messages /\ nextMessageId \in Nat
        BY Types
      <3>2. [conn |-> call[c].conn, id |-> nextMessageId, by |-> c, step |-> step,
             sid |-> sid, applied |-> FALSE] \in Messages
        BY <3>1 DEF Messages, StepNames
      <3> QED
        BY <2>1, <3>1, <3>2
    <2> QED
      BY <1>1, <1>2, <2>1, <2>2, <2>4
  <1>3. CASE ~isConnected(call[c].conn)
    <2>1. Goto(c, "failing") /\ requests' = requests
      BY <1>3 DEF SendAndAwait
    <2>2. requests \subseteq Messages /\ "failing" \in Places
      BY Types DEF Places
    <2> QED
      BY <1>1, <1>3, <2>1, <2>2, GotoMoves
  <1> QED
    BY <1>2, <1>3
LEMMA Retyped ==
    ASSUME transport' \in Conns \cup {None}, pendingTransport' \in Conns \cup {None},
           session' \in Conns \cup {None}, nextMessageId' \in Nat, invokeQueue' \in Seq(Calls),
           sessionId' \in [Conns -> SessionStates], conn' \in [Conns -> ConnStates],
           call' \in [Calls -> CallStates], aborted' \subseteq Transfers,
           requests' \subseteq Messages, partial' \subseteq Pushes,
           closing' \in [Closes -> [awaited : SUBSET Transfers, saw : SUBSET Conns]]
    PROVE  TypeOK'
  BY DEF TypeOK, SessionStates, ConnStates, CallStates, Places, StepNames, Messages

\* What follows the reply to a request, or its failure.
LEMMA ResumePlaces ==
    ASSUME NEW c \in Calls, NEW ok \in BOOLEAN
    PROVE  /\ Resume(c, ok) \in {"closing", "data", "tidy", "done"}
           /\ c \in Closes => Resume(c, ok) = "closing"
           /\ Resume(c, ok) = "data" => c \in Transfers /\ call[c].step = "main"
           /\ c \in Pushes /\ call[c].step = "rename" =>
                  Resume(c, ok) = IF ok THEN "done" ELSE "tidy"
           /\ Resume(c, ok) = "tidy" => c \in Pushes
<1>1. CASE c \in Closes
  <2>1. c \notin Transfers /\ c \notin Pushes
    BY <1>1, Kinds
  <2>2. Resume(c, ok) = "closing"
    BY <1>1, <2>1 DEF Resume
  <2> QED
    BY <2>1, <2>2
<1>2. CASE c \in Transfers /\ call[c].step = "main" /\ ok
  <2>1. c \notin Closes
    BY <1>2, Kinds
  <2>2. Resume(c, ok) = "data"
    BY <1>2, <2>1 DEF Resume
  <2> QED
    BY <1>2, <2>1, <2>2
<1>3. CASE c \in Pushes /\ call[c].step = "rename" /\ ~ok
  <2>1. c \notin Closes
    BY <1>3, Kinds
  <2>2. Resume(c, ok) = "tidy"
    BY <1>3, <2>1 DEF Resume
  <2> QED
    BY <1>3, <2>1, <2>2
<1>4. CASE /\ c \notin Closes /\ ~(c \in Transfers /\ call[c].step = "main" /\ ok)
           /\ ~(c \in Pushes /\ call[c].step = "rename" /\ ~ok)
  <2>1. Resume(c, ok) = "done"
    BY <1>4 DEF Resume
  <2> QED
    BY <1>4, <2>1
<1> QED
  BY <1>1, <1>2, <1>3, <1>4

-----------------------------------------------------------------------------
(* Types and turns *)

TypeInv == TypeOK /\ Turns

\* A call that is not past the queue moves; the queue may get longer.
LEMMA AsideTurns ==
    ASSUME Turns, NEW c \in Calls, call'[c].pc \notin InTurn,
           call'[c].step = "data" => call'[c].pc \in {"data", "cutting", "tidy", "done"},
           \A d \in Calls : d # c => call'[d] = call[d],
           invokeQueue # << >> => invokeQueue' # << >> /\ Head(invokeQueue') = Head(invokeQueue)
    PROVE  Turns'
  BY DEF Turns, HasTurn, InTurn, OnConn

\* The call that has its turn releases it.
LEMMA ReleasedTurns ==
    ASSUME Turns, NEW c \in Calls, HasTurn(c), call'[c].pc \notin InTurn,
           call'[c].step = "data" => call'[c].pc \in {"data", "cutting", "tidy", "done"},
           \A d \in Calls : d # c => call'[d] = call[d]
    PROVE  Turns'
  BY DEF Turns, HasTurn, InTurn, OnConn

\* The call that has its turn goes on with it.
LEMMA OnwardTurns ==
    ASSUME Turns, NEW c \in Calls, HasTurn(c), call'[c].pc \in InTurn,
           call'[c].pc \in OnConn => call'[c].conn \in Conns,
           call[c].step # "data", call'[c].step = call[c].step,
           \A d \in Calls : d # c => call'[d] = call[d],
           invokeQueue' = invokeQueue
    PROVE  Turns'
  BY DEF Turns, HasTurn, InTurn, OnConn

\* Waiters fail.
LEMMA FailingTurns ==
    ASSUME TypeOK, Turns, NEW W, \A c \in W : c \in Calls /\ Awaiting(c), FailWaiters(W),
           invokeQueue' = invokeQueue
    PROVE  Turns'
<1>1. \A c \in Calls :
        /\ c \notin W => call'[c] = call[c]
        /\ c \in W => call'[c].pc = "failing"
        /\ call'[c].step = call[c].step /\ call'[c].conn = call[c].conn
  BY FailWaitersLeaves
<1>2. \A c \in W : call[c].pc \in InTurn /\ call[c].step # "data"
  BY DEF Awaiting, Turns, InTurn
<1> QED
  BY <1>1, <1>2 DEF Turns, HasTurn, InTurn, OnConn
LEMMA Lookups ==
    /\ InTurn \subseteq Places /\ OnConn \subseteq InTurn
    /\ {"idle", "opening", "queued", "data", "cutting", "tidy", "settling", "sessionId",
        "closing", "pending", "shutting", "done"} = Places \ InTurn
    /\ {"main", "data", "rename", "cleanup", "end"} = StepNames
  BY DEF InTurn, OnConn, Places, StepNames

\* A call gets a session, or none, and goes on.
LEMMA SessionMoves ==
    ASSUME TypeOK, NEW c \in Calls, NEW pc \in Places, NEW k \in Conns \cup {None},
           call' = [call EXCEPT ![c].pc = pc, ![c].sid = k]
    PROVE  /\ call' \in [Calls -> CallStates]
           /\ \A d \in Calls : d # c => call'[d] = call[d]
           /\ call'[c].pc = pc /\ call'[c].sid = k
           /\ call'[c].step = call[c].step /\ call'[c].conn = call[c].conn
<1>1. call \in [Calls -> CallStates]
  BY Types
<1> QED
  BY <1>1 DEF CallStates

\* The opening of the connection settles, and every call that waits for it goes on.
LEMMA PendingMoves ==
    ASSUME TypeOK, TransportConnected \/ TransportFailed
    PROVE  /\ call' \in [Calls -> CallStates] /\ conn' \in [Conns -> ConnStates]
           /\ \A c \in Calls :
                /\ ~At(c, "connecting") => call'[c] = call[c]
                /\ At(c, "connecting") =>
                      IF TransportConnected
                      THEN call'[c].pc = "acquired" /\ call'[c].conn = pendingTransport
                      ELSE call'[c].pc = "failing"
                /\ call'[c].step = call[c].step /\ call'[c].sid = call[c].sid
           /\ pendingTransport \in Conns
<1>1. call \in [Calls -> CallStates] /\ conn \in [Conns -> ConnStates]
      /\ pendingTransport \in Conns \cup {None}
  BY Types
<1>2. pendingTransport \in Conns /\ {"acquired", "failing"} \subseteq Places
  BY <1>1 DEF TransportConnected, TransportFailed, Places
<1>3. CASE TransportConnected
  <2>1. /\ conn' = [conn EXCEPT ![pendingTransport] = "open"]
        /\ call' = [c \in Calls |-> IF At(c, "connecting")
                      THEN [call[c] EXCEPT !.pc = "acquired", !.conn = pendingTransport]
                      ELSE call[c]]
    BY <1>3 DEF TransportConnected
  <2>2. conn' \in [Conns -> ConnStates]
    BY <1>1, <2>1 DEF ConnStates
  <2>3. call' \in [Calls -> CallStates]
    BY <1>1, <1>2, <2>1 DEF CallStates
  <2> QED
    BY <1>1, <1>2, <1>3, <2>1, <2>2, <2>3 DEF CallStates
<1>4. CASE TransportFailed
  <2>1. /\ conn' = [conn EXCEPT ![pendingTransport] = "closed"]
        /\ call' = [c \in Calls |-> IF At(c, "connecting")
                      THEN [call[c] EXCEPT !.pc = "failing"] ELSE call[c]]
    BY <1>4 DEF TransportFailed
  <2>2. conn' \in [Conns -> ConnStates] /\ conn'[pendingTransport] = "closed"
    BY <1>1, <1>2, <2>1 DEF ConnStates
  <2>3. call' \in [Calls -> CallStates]
    BY <1>1, <1>2, <2>1 DEF CallStates
  <2>4. ~TransportConnected
    BY <1>1, <1>2, <2>2 DEF TransportConnected
  <2> QED
    BY <1>1, <1>2, <2>1, <2>2, <2>3, <2>4 DEF CallStates
<1> QED
  BY <1>3, <1>4

\* What a connection being opened becomes moves those that wait for it.
LEMMA PendingTurns ==
    ASSUME Turns, invokeQueue' = invokeQueue,
           \A c \in Calls :
              /\ ~At(c, "connecting") => call'[c] = call[c]
              /\ At(c, "connecting") => /\ call'[c].pc \in {"acquired", "failing"}
                                        /\ call'[c].pc = "acquired" => call'[c].conn \in Conns
              /\ call'[c].step = call[c].step
    PROVE  Turns'
<1> SUFFICES ASSUME NEW c \in Calls
             PROVE  /\ call'[c].pc \in InTurn => HasTurn(c)'
                    /\ call'[c].pc \in OnConn => call'[c].conn \in Conns
                    /\ call'[c].step = "data" => call'[c].pc \in {"data", "cutting", "tidy", "done"}
  BY DEF Turns
<1>1. HasTurn(c)' <=> HasTurn(c)
  BY DEF HasTurn
<1>2. CASE At(c, "connecting")
  <2>1. HasTurn(c) /\ call[c].step # "data"
    BY <1>2 DEF Turns, At, InTurn
  <2> QED
    BY <1>1, <1>2, <2>1 DEF OnConn
<1>3. CASE ~At(c, "connecting")
  BY <1>1, <1>3 DEF Turns
<1> QED
  BY <1>2, <1>3

LEMMA TypeStep ==
    ASSUME TypeOK, Turns, [Next]_vars
    PROVE  TypeOK' /\ Turns'
<1> USE Kinds, Lookups
<1>0. /\ transport \in Conns \cup {None} /\ pendingTransport \in Conns \cup {None}
      /\ session \in Conns \cup {None}
      /\ nextMessageId \in Nat /\ invokeQueue \in Seq(Calls)
      /\ sessionId \in [Conns -> SessionStates] /\ conn \in [Conns -> ConnStates]
      /\ call \in [Calls -> CallStates] /\ aborted \subseteq Transfers
      /\ requests \subseteq Messages /\ partial \subseteq Pushes
      /\ closing \in [Closes -> [awaited : SUBSET Transfers, saw : SUBSET Conns]]
  BY Types
<1>1. ASSUME NEW c \in Calls, getTransport(c) PROVE TypeOK' /\ Turns'
  <2>1. \/ GotoWith(c, "acquired", transport) /\ transport \in Conns
        \/ Goto(c, "connecting")
    BY <1>0, <1>1 DEF getTransport, isConnected
  <2>2. /\ call' \in [Calls -> CallStates] /\ call'[c].pc \in {"acquired", "connecting"}
        /\ call'[c].step = call[c].step /\ \A d \in Calls : d # c => call'[d] = call[d]
        /\ call'[c].pc = "acquired" => call'[c].conn \in Conns
    BY <1>0, <2>1, GotoMoves, GotoWithMoves DEF InTurn
  <2>3. call[c].step # "data" /\ HasTurn(c)
    BY <1>1 DEF getTransport, Turns, At
  <2>4. pendingTransport' \in Conns \cup {None} /\ conn' \in [Conns -> ConnStates]
    BY <1>0, <1>1 DEF getTransport, ConnStates
  <2>5. Turns'
    BY <1>1, <2>2, <2>3, OnwardTurns DEF getTransport, InTurn, OnConn
  <2> QED
    BY <1>0, <1>1, <2>2, <2>4, <2>5, Retyped DEF getTransport
<1>2. CASE TransportConnected
  <2>1. Turns'
    <3>1. \A c \in Calls : At(c, "connecting") => call'[c].pc = "acquired" /\ call'[c].conn \in Conns
      BY <1>2, PendingMoves
    <3>2. invokeQueue' = invokeQueue
      BY <1>2 DEF TransportConnected
    <3> QED
      BY <1>2, <3>1, <3>2, PendingMoves, PendingTurns
  <2> QED
    BY <1>0, <1>2, <2>1, PendingMoves, Retyped DEF TransportConnected
<1>3. CASE TransportFailed
  <2>1. Turns'
    <3>1. ~TransportConnected /\ invokeQueue' = invokeQueue
      BY <1>0, <1>3 DEF TransportFailed, TransportConnected, ConnStates
    <3>2. \A c \in Calls : At(c, "connecting") => call'[c].pc = "failing"
      BY <1>3, <3>1, PendingMoves
    <3> QED
      BY <1>3, <3>1, <3>2, PendingMoves, PendingTurns
  <2> QED
    BY <1>0, <1>3, <2>1, PendingMoves, Retyped DEF TransportFailed
<1>4. ASSUME NEW c \in Calls, NEW step \in {"create"} \cup StepNames, step # "data",
             NEW sid \in Conns \cup {None}, NEW pc \in {"creating", "reply"},
             SendAndAwait(c, step, sid, pc), call[c].pc \in {"acquired", "sending"},
             invokeQueue' = invokeQueue
      PROVE  /\ call' \in [Calls -> CallStates] /\ nextMessageId' \in Nat
             /\ requests' \subseteq Messages /\ Turns'
  <2>1. call[c].conn \in Conns /\ HasTurn(c) /\ call[c].step # "data"
    BY <1>4 DEF Turns, InTurn, OnConn
  <2>2. pc \in Places
    BY <1>4 DEF Places
  <2>3. /\ call' \in [Calls -> CallStates] /\ nextMessageId' \in Nat
        /\ requests' \subseteq Messages /\ call'[c].pc \in {pc, "failing"}
        /\ call'[c].step = call[c].step /\ call'[c].conn = call[c].conn
        /\ \A d \in Calls : d # c => call'[d] = call[d]
    BY <1>4, <2>1, <2>2, SendMoves
  <2>4. Turns'
    BY <1>4, <2>1, <2>3, OnwardTurns DEF InTurn
  <2> QED
    BY <2>3, <2>4
<1>5. ASSUME NEW c \in Calls, ensureSessionOn(c) PROVE TypeOK' /\ Turns'
  <2>1. call[c].conn \in Conns /\ HasTurn(c) /\ call[c].step # "data"
    BY <1>5 DEF ensureSessionOn, Turns, InTurn, OnConn, At
  <2>2. CASE SendAndAwait(c, "create", None, "creating") /\ session # call[c].conn
    <3>1. /\ sessionId' \in [Conns -> SessionStates] /\ session' \in Conns \cup {None}
      BY <1>0, <1>5, <2>1, <2>2 DEF ensureSessionOn, SessionStates
    <3>2. call[c].pc = "acquired" /\ invokeQueue' = invokeQueue
      BY <1>5 DEF ensureSessionOn, At
    <3>3. /\ call' \in [Calls -> CallStates] /\ nextMessageId' \in Nat
          /\ requests' \subseteq Messages /\ Turns'
      BY <1>4, <2>2, <3>2
    <3> QED
      BY <1>0, <1>5, <3>1, <3>3, Retyped DEF ensureSessionOn
  <2>3. CASE /\ call' = [call EXCEPT ![c].pc = IF sessionId[call[c].conn] = "ready"
                                              THEN "sending" ELSE "failing",
                                    ![c].sid = session]
             /\ UNCHANGED <<nextMessageId, session, sessionId, requests>>
    <3> DEFINE pc == IF sessionId[call[c].conn] = "ready" THEN "sending" ELSE "failing"
    <3>0. pc \in Places /\ pc \in {"sending", "failing"}
      BY DEF Places
    <3>1. /\ call' \in [Calls -> CallStates] /\ call'[c].pc \in {"sending", "failing"}
          /\ call'[c].step = call[c].step /\ call'[c].conn = call[c].conn
          /\ \A d \in Calls : d # c => call'[d] = call[d]
      <4>1. call' = [call EXCEPT ![c].pc = pc, ![c].sid = session]
        BY <2>3
      <4> HIDE DEF pc
      <4> QED
        BY <1>0, <3>0, <4>1, SessionMoves
    <3>2. Turns'
      BY <1>5, <2>1, <3>1, OnwardTurns DEF ensureSessionOn, InTurn
    <3> QED
      BY <1>0, <1>5, <2>3, <3>1, <3>2, Retyped DEF ensureSessionOn
  <2> QED
    BY <1>5, <2>2, <2>3 DEF ensureSessionOn
<1>6. ASSUME NEW c \in Calls, exchange(c) PROVE TypeOK' /\ Turns'
  <2>1. call[c].pc \in {"acquired", "sending"} /\ invokeQueue' = invokeQueue
    BY <1>6 DEF exchange, At
  <2>2. call[c].step \in StepNames /\ call[c].sid \in Conns \cup {None}
    BY <1>0 DEF CallStates
  <2>3. call[c].step # "data"
    BY <2>1 DEF Turns
  <2>4. /\ call' \in [Calls -> CallStates] /\ nextMessageId' \in Nat
        /\ requests' \subseteq Messages /\ Turns'
    BY <1>4, <1>6, <2>1, <2>2, <2>3 DEF exchange
  <2> QED
    BY <1>0, <1>6, <2>4, Retyped DEF exchange
<1>7. ASSUME NEW m \in requests, Apply(m) PROVE TypeOK' /\ Turns'
  <2>1. requests' \subseteq Messages
    BY <1>0, <1>7 DEF Apply, Messages
  <2>2. Turns'
    BY <1>7 DEF Apply, Turns, HasTurn
  <2>3. partial' \subseteq Pushes
    BY <1>0, <1>7 DEF Apply
  <2> QED
    BY <1>0, <1>7, <2>1, <2>2, <2>3, Retyped DEF Apply
<1>8. ASSUME NEW W, \A c \in W : c \in Calls /\ Awaiting(c), FailWaiters(W),
             invokeQueue' = invokeQueue
      PROVE  /\ call' \in [Calls -> CallStates] /\ sessionId' \in [Conns -> SessionStates]
             /\ session' \in Conns \cup {None} /\ Turns'
  BY <1>0, <1>8, FailWaitersLeaves, FailingTurns
<1>9. ASSUME NEW m \in requests, NEW ok \in BOOLEAN, Reply(m, ok) PROVE TypeOK' /\ Turns'
  <2> DEFINE W == {c \in WaitersOn(m.conn) : call[c].id = m.id}
  <2>1. \A c \in W : c \in Calls /\ Awaiting(c)
    BY DEF WaitersOn
  <2>2. /\ requests' \subseteq Messages /\ m.conn \in Conns
        /\ UNCHANGED <<transport, pendingTransport, nextMessageId, conn, aborted, partial, closing>>
    BY <1>0, <1>9 DEF Reply, Messages
  <2>3. \/ W = {} /\ UNCHANGED <<call, invokeQueue, session, sessionId>>
        \/ \E c \in W :
             \/ /\ At(c, "creating")
                /\ call' = [call EXCEPT ![c].pc = "sending", ![c].sid = m.conn]
                /\ sessionId' = [sessionId EXCEPT ![m.conn] = "ready"]
                /\ UNCHANGED <<invokeQueue, session>>
             \/ /\ At(c, "creating")
                /\ FailWaiters({c})
                /\ UNCHANGED invokeQueue
             \/ /\ At(c, "reply")
                /\ Goto(c, Resume(c, ok))
                /\ invokeQueue' = Tail(invokeQueue)
                /\ UNCHANGED <<session, sessionId>>
    BY <1>9 DEF Reply
  <2> HIDE DEF W
  <2>4. CASE UNCHANGED <<call, invokeQueue, session, sessionId>>
    <3>1. Turns'
      BY <2>4 DEF Turns, HasTurn
    <3> QED
      BY <1>0, <2>2, <2>4, <3>1, Retyped
  <2>5. ASSUME NEW c \in W, At(c, "creating"),
               call' = [call EXCEPT ![c].pc = "sending", ![c].sid = m.conn],
               sessionId' = [sessionId EXCEPT ![m.conn] = "ready"],
               UNCHANGED <<invokeQueue, session>>
        PROVE  TypeOK' /\ Turns'
    <3>1. c \in Calls /\ HasTurn(c) /\ call[c].step # "data" /\ call[c].conn \in Conns
      BY <2>1, <2>5 DEF Turns, At, InTurn, OnConn
    <3>2. /\ call' \in [Calls -> CallStates] /\ call'[c].pc = "sending"
          /\ call'[c].step = call[c].step /\ call'[c].conn = call[c].conn
          /\ \A d \in Calls : d # c => call'[d] = call[d]
      <4>1. "sending" \in Places
        BY DEF Places
      <4> QED
        BY <2>2, <2>5, <3>1, <4>1, SessionMoves
    <3>3. Turns'
      BY <2>5, <3>1, <3>2, OnwardTurns DEF InTurn
    <3>4. sessionId' \in [Conns -> SessionStates]
      BY <1>0, <2>5 DEF SessionStates
    <3> QED
      BY <1>0, <2>2, <2>5, <3>2, <3>3, <3>4, Retyped
  <2>6. ASSUME NEW c \in W, FailWaiters({c}), UNCHANGED invokeQueue PROVE TypeOK' /\ Turns'
    <3>1. \A d \in {c} : d \in Calls /\ Awaiting(d)
      BY <2>1
    <3> QED
      BY <1>0, <1>8, <2>2, <2>6, <3>1, Retyped
  <2>7. ASSUME NEW c \in W, At(c, "reply"), Goto(c, Resume(c, ok)),
               invokeQueue' = Tail(invokeQueue), UNCHANGED <<session, sessionId>>
        PROVE  TypeOK' /\ Turns'
    <3>1. c \in Calls /\ HasTurn(c) /\ call[c].step # "data"
      BY <2>1, <2>7 DEF Turns, At, InTurn
    <3>2. Resume(c, ok) \in {"closing", "data", "tidy", "done"}
      BY <3>1, ResumePlaces
    <3>3. /\ call' \in [Calls -> CallStates] /\ call'[c].pc = Resume(c, ok)
          /\ call'[c].step = IF Resume(c, ok) = "data" THEN "data" ELSE call[c].step
          /\ \A d \in Calls : d # c => call'[d] = call[d]
      BY <2>7, <3>1, <3>2, GotoMoves
    <3>4. invokeQueue' \in Seq(Calls)
      BY <1>0, <2>7, <3>1 DEF HasTurn
    <3>5. Turns'
      BY <3>1, <3>2, <3>3, ReleasedTurns
    <3> QED
      BY <1>0, <2>2, <2>7, <3>3, <3>4, <3>5, Retyped
  <2> QED
    BY <2>3, <2>4, <2>5, <2>6, <2>7
<1>10. ASSUME NEW c \in Calls, Timeout(c) PROVE TypeOK' /\ Turns'
  BY <1>0, <1>8, <1>10, Retyped DEF Timeout
<1>11. ASSUME NEW k \in Conns, PeerEnds(k) \/ SocketClosed(k) PROVE TypeOK' /\ Turns'
  <2>1. FailWaiters(WaitersOn(k)) /\ invokeQueue' = invokeQueue
    BY <1>11 DEF PeerEnds, SocketClosed
  <2>2. \A c \in WaitersOn(k) : c \in Calls /\ Awaiting(c)
    BY DEF WaitersOn
  <2>3. conn' \in [Conns -> ConnStates] /\ requests' \subseteq Messages
    BY <1>0, <1>11 DEF PeerEnds, SocketClosed, ConnStates
  <2> QED
    BY <1>0, <1>8, <1>11, <2>1, <2>2, <2>3, Retyped DEF PeerEnds, SocketClosed
<1>12. ASSUME NEW c \in Calls, NEW pc \in {"dropping", "cutting", "shutting"}, dropTransport(c, pc)
       PROVE  /\ transport' \in Conns \cup {None} /\ conn' \in [Conns -> ConnStates]
              /\ requests' \subseteq Messages /\ call' \in [Calls -> CallStates]
              /\ call'[c].pc = pc /\ call'[c].step = call[c].step
              /\ \A d \in Calls : d # c => call'[d] = call[d]
  <2>1. pc \in Places /\ Shutdown /\ GotoWith(c, pc, transport)
    BY <1>12 DEF Places, dropTransport
  <2>2. /\ transport' \in Conns \cup {None} /\ conn' \in [Conns -> ConnStates]
        /\ requests' \subseteq Messages
    BY <1>0, <2>1, ShutdownLeaves
  <2> QED
    BY <1>0, <2>1, <2>2, GotoWithMoves
<1>13. ASSUME NEW c \in Calls, CatchFailure(c) PROVE TypeOK' /\ Turns'
  <2>1. HasTurn(c) /\ call[c].step # "data" /\ invokeQueue' = invokeQueue
    BY <1>13 DEF CatchFailure, dropTransport, Turns, InTurn, At
  <2>2. Turns'
    BY <1>12, <1>13, <2>1, OnwardTurns DEF CatchFailure, InTurn, OnConn
  <2> QED
    BY <1>0, <1>12, <1>13, <2>2, Retyped DEF CatchFailure, dropTransport
<1>14. ASSUME NEW c \in Calls, NEW pc \in Places \ InTurn, NEW step, call[c].pc \notin InTurn,
              call' \in [Calls -> CallStates], call'[c].pc = pc, call'[c].step = step,
              step = "data" => pc \in {"data", "cutting", "tidy", "done"},
              \A d \in Calls : d # c => call'[d] = call[d],
              \/ invokeQueue' = invokeQueue
              \/ /\ invokeQueue' \in Seq(Calls) /\ invokeQueue' # << >>
                 /\ invokeQueue # << >> => Head(invokeQueue') = Head(invokeQueue)
       PROVE  Turns' /\ invokeQueue' \in Seq(Calls)
  BY <1>0, <1>14, AsideTurns
<1>15. ASSUME NEW c \in Calls, Dropped(c) PROVE TypeOK' /\ Turns'
  <2>1. HasTurn(c) /\ call[c].step # "data"
    BY <1>15 DEF Dropped, Turns, InTurn, At
  <2>2. Resume(c, FALSE) \in {"closing", "data", "tidy", "done"}
    BY ResumePlaces
  <2>3. /\ call' \in [Calls -> CallStates] /\ call'[c].pc = Resume(c, FALSE)
        /\ call'[c].step = IF Resume(c, FALSE) = "data" THEN "data" ELSE call[c].step
        /\ \A d \in Calls : d # c => call'[d] = call[d]
    BY <1>15, <2>2, GotoMoves DEF Dropped
  <2>4. invokeQueue' \in Seq(Calls)
    BY <1>0, <1>15, <2>1 DEF Dropped, HasTurn
  <2>5. Turns'
    BY <2>1, <2>2, <2>3, ReleasedTurns
  <2> QED
    BY <1>0, <1>15, <2>3, <2>4, <2>5, Retyped DEF Dropped, service
<1>16. ASSUME NEW c \in Calls, NEW step \in {"main", "rename", "cleanup", "end"},
              NEW sid \in Conns \cup {None}, enqueueInvocation(c, step, sid),
              call[c].pc \notin InTurn
       PROVE  Turns' /\ invokeQueue' \in Seq(Calls) /\ call' \in [Calls -> CallStates]
  <2>1. step \in StepNames /\ step # "data" /\ "queued" \in Places \ InTurn
    BY DEF StepNames, Places, InTurn
  <2> QED
    BY <1>14, <1>16, <2>1, EnqueueMoves
<1>17. ASSUME NEW c \in Calls, call[c].pc \notin InTurn, invokeQueue' = invokeQueue,
              NEW pc \in Places \ InTurn, Goto(c, pc),
              call[c].step = "data" => pc \in {"data", "cutting", "tidy", "done"}
       PROVE  Turns' /\ call' \in [Calls -> CallStates]
  BY <1>14, <1>17, GotoMoves
<1>18. ASSUME NEW c \in Calls, call[c].pc \notin InTurn, invokeQueue' = invokeQueue,
              NEW pc \in Places \ InTurn, NEW k \in Conns \cup {None}, GotoWith(c, pc, k),
              call[c].step = "data" => pc \in {"data", "cutting", "tidy", "done"}
       PROVE  Turns' /\ call' \in [Calls -> CallStates]
  BY <1>14, <1>18, GotoWithMoves
<1>19. ASSUME NEW c \in Calls
       PROVE  /\ call[c].pc \in {"idle", "opening", "tidy", "data", "cutting", "settling",
                                 "sessionId", "closing", "pending", "shutting"}
                     => call[c].pc \notin InTurn
              /\ call[c].pc \in {"idle", "opening", "settling", "sessionId", "closing", "pending",
                                 "shutting"} => call[c].step # "data"
  BY DEF Turns, InTurn
<1>20. {"opening", "done", "tidy", "cutting", "settling", "sessionId", "closing", "pending",
        "shutting"} \subseteq Places \ InTurn
  BY DEF Places, InTurn
<1>21. ASSUME NEW c \in Calls, BeginRequest(c) PROVE TypeOK' /\ Turns'
  BY <1>0, <1>16, <1>19, <1>21, Retyped DEF BeginRequest, service, At
<1>22. ASSUME NEW c \in Calls, BeginTransfer(c) PROVE TypeOK' /\ Turns'
  BY <1>0, <1>17, <1>19, <1>20, <1>22, Retyped DEF BeginTransfer, service, At
<1>23. ASSUME NEW c \in Calls, BeginClose(c) PROVE TypeOK' /\ Turns'
  <2>1. Turns' /\ call' \in [Calls -> CallStates]
    BY <1>17, <1>19, <1>20, <1>23 DEF BeginClose, At
  <2>2. /\ aborted' \subseteq Transfers
        /\ closing' \in [Closes -> [awaited : SUBSET Transfers, saw : SUBSET Conns]]
    BY <1>0, <1>23 DEF BeginClose, Live
  <2> QED
    BY <1>0, <1>23, <2>1, <2>2, Retyped DEF BeginClose, service
<1>24. ASSUME NEW c \in Calls, openDataChannel(c) PROVE TypeOK' /\ Turns'
  <2>1. Turns' /\ call' \in [Calls -> CallStates] /\ invokeQueue' \in Seq(Calls)
    BY <1>0, <1>16, <1>17, <1>19, <1>20, <1>24 DEF openDataChannel, At
  <2> QED
    BY <1>0, <1>24, <2>1, Retyped DEF openDataChannel, service
<1>25. ASSUME NEW c \in Calls, DataDone(c) PROVE TypeOK' /\ Turns'
  <2>1. Turns' /\ call' \in [Calls -> CallStates] /\ invokeQueue' \in Seq(Calls)
    BY <1>0, <1>16, <1>17, <1>19, <1>20, <1>25 DEF DataDone, At
  <2> QED
    BY <1>0, <1>25, <2>1, Retyped DEF DataDone, service
<1>26. ASSUME NEW c \in Calls, NEW pc \in {"cutting", "shutting"}, dropTransport(c, pc),
              call[c].pc \notin InTurn, call[c].step = "data" => pc = "cutting",
              UNCHANGED <<aborted, partial, closing>>
       PROVE  TypeOK' /\ Turns'
  <2>1. Turns'
    BY <1>12, <1>14, <1>20, <1>26 DEF dropTransport
  <2> QED
    BY <1>0, <1>12, <1>26, <2>1, Retyped DEF dropTransport
<1>27. ASSUME NEW c \in Calls, DataFailed(c) PROVE TypeOK' /\ Turns'
  BY <1>19, <1>26, <1>27 DEF DataFailed, At
<1>28. ASSUME NEW c \in Calls, CutShort(c) PROVE TypeOK' /\ Turns'
  <2>1. Turns' /\ call' \in [Calls -> CallStates]
    BY <1>17, <1>19, <1>20, <1>28 DEF CutShort, At
  <2> QED
    BY <1>0, <1>28, <2>1, Retyped DEF CutShort, service
<1>29. ASSUME NEW c \in Calls, removeIncompleteUpload(c) PROVE TypeOK' /\ Turns'
  BY <1>0, <1>16, <1>19, <1>29, Retyped DEF removeIncompleteUpload, service, At
<1>30. ASSUME NEW c \in Calls, TakeSession(c) PROVE TypeOK' /\ Turns'
  <2>1. Turns' /\ call' \in [Calls -> CallStates]
    BY <1>0, <1>17, <1>18, <1>19, <1>20, <1>30 DEF TakeSession, At
  <2> QED
    BY <1>0, <1>30, <2>1, Retyped DEF TakeSession
<1>31. ASSUME NEW c \in Calls, EndSession(c) PROVE TypeOK' /\ Turns'
  <2>1. call[c].conn \in Conns \cup {None}
    BY <1>0 DEF CallStates
  <2>2. Turns' /\ call' \in [Calls -> CallStates] /\ invokeQueue' \in Seq(Calls)
    BY <1>0, <1>16, <1>17, <1>19, <1>20, <1>31, <2>1 DEF EndSession, At
  <2> QED
    BY <1>0, <1>31, <2>2, Retyped DEF EndSession, service
<1>32. ASSUME NEW c \in Calls, CloseTransport(c) PROVE TypeOK' /\ Turns'
  <2>1. call[c].pc \notin InTurn /\ call[c].step # "data"
    BY <1>19, <1>32 DEF CloseTransport, At
  <2>2. CASE Goto(c, "done") /\ UNCHANGED <<service, invokeQueue>>
    <3>1. Turns' /\ call' \in [Calls -> CallStates]
      BY <1>17, <1>20, <2>1, <2>2
    <3> QED
      BY <1>0, <1>32, <2>2, <3>1, Retyped DEF CloseTransport, service
  <2>3. CASE dropTransport(c, "shutting")
    BY <1>26, <1>32, <2>1, <2>3 DEF CloseTransport
  <2> QED
    BY <1>32, <2>2, <2>3 DEF CloseTransport
<1>33. ASSUME NEW c \in Calls, AwaitPending(c) PROVE TypeOK' /\ Turns'
  <2>1. Turns' /\ call' \in [Calls -> CallStates]
    BY <1>0, <1>18, <1>19, <1>20, <1>33 DEF AwaitPending, At
  <2> QED
    BY <1>0, <1>33, <2>1, Retyped DEF AwaitPending, service
<1>34. ASSUME NEW c \in Calls, CloseReturns(c) PROVE TypeOK' /\ Turns'
  <2>1. Turns' /\ call' \in [Calls -> CallStates]
    BY <1>17, <1>19, <1>20, <1>34 DEF CloseReturns, At
  <2> QED
    BY <1>0, <1>34, <2>1, Retyped DEF CloseReturns, service
<1>35. CASE UNCHANGED vars
  <2>1. Turns'
    BY <1>35 DEF vars, Turns, HasTurn
  <2> QED
    BY <1>0, <1>35, <2>1, Retyped DEF vars
<1> QED
  BY <1>1, <1>2, <1>3, <1>5, <1>6, <1>7, <1>9, <1>10, <1>11, <1>13, <1>15, <1>21, <1>22, <1>23,
     <1>24, <1>25, <1>27, <1>28, <1>29, <1>30, <1>31, <1>32, <1>33, <1>34, <1>35
  DEF Next, Begin, Progress

LEMMA TypeInvariant == Spec => []TypeInv
<1>1. Init => TypeInv
  <2> SUFFICES ASSUME Init PROVE TypeInv
    OBVIOUS
  <2>1. call \in [Calls -> CallStates] /\ \A c \in Calls : call[c] = Fresh("idle", "main")
    BY DEF Init, CallStates, Fresh, Places, StepNames
  <2>2. TypeOK
    BY <2>1 DEF Init, TypeOK, CallStates, Places, StepNames
  <2>3. Turns
    BY <2>1 DEF Turns, Fresh, InTurn, OnConn
  <2> QED
    BY <2>2, <2>3 DEF TypeInv
<1>2. TypeInv /\ [Next]_vars => TypeInv'
  BY TypeStep DEF TypeInv
<1> QED
  BY <1>1, <1>2, PTL DEF Spec

\* Every variable keeps its type.
THEOREM TypeCorrect == Spec => []TypeOK
<1>1. TypeInv => TypeOK
  BY DEF TypeInv
<1> QED
  BY <1>1, TypeInvariant, PTL
-----------------------------------------------------------------------------
(* Connections *)

\* What each step does to the connections.
LEMMA ConnectionSteps ==
    ASSUME TypeOK, [Next]_vars
    PROVE  \/ UNCHANGED <<transport, pendingTransport, conn>>
           \/ \E c \in Calls : getTransport(c)
           \/ TransportConnected \/ TransportFailed
           \/ Shutdown /\ pendingTransport' = pendingTransport
           \/ \E k \in Conns : PeerEnds(k) \/ SocketClosed(k)
<1>1. ASSUME NEW c \in Calls, Begin(c) PROVE UNCHANGED <<transport, pendingTransport, conn>>
  BY <1>1 DEF Begin, BeginRequest, BeginTransfer, BeginClose, service
<1>2. ASSUME NEW c \in Calls, ensureSessionOn(c) \/ exchange(c) \/ Timeout(c) \/ Dropped(c)
                              \/ openDataChannel(c) \/ DataDone(c) \/ CutShort(c)
                              \/ removeIncompleteUpload(c)
      PROVE  UNCHANGED <<transport, pendingTransport, conn>>
  BY <1>2 DEF ensureSessionOn, exchange, Timeout, Dropped, openDataChannel, DataDone, CutShort,
              removeIncompleteUpload, service
<1>3. ASSUME NEW c \in Calls, TakeSession(c) \/ EndSession(c) \/ AwaitPending(c) \/ CloseReturns(c)
      PROVE  UNCHANGED <<transport, pendingTransport, conn>>
  BY <1>3 DEF TakeSession, EndSession, AwaitPending, CloseReturns, service
<1>4. ASSUME NEW c \in Calls, CatchFailure(c) \/ DataFailed(c)
      PROVE  Shutdown /\ pendingTransport' = pendingTransport
  BY <1>4 DEF CatchFailure, DataFailed, dropTransport
<1>5. ASSUME NEW c \in Calls, CloseTransport(c)
      PROVE  \/ UNCHANGED <<transport, pendingTransport, conn>>
             \/ Shutdown /\ pendingTransport' = pendingTransport
  BY <1>5 DEF CloseTransport, dropTransport, service
<1>6. ASSUME NEW m \in requests, Apply(m) \/ \E ok \in BOOLEAN : Reply(m, ok)
      PROVE  UNCHANGED <<transport, pendingTransport, conn>>
  BY <1>6 DEF Apply, Reply
<1>7. UNCHANGED vars => UNCHANGED <<transport, pendingTransport, conn>>
  BY DEF vars
<1> QED
  BY <1>1, <1>2, <1>3, <1>4, <1>5, <1>6, <1>7 DEF Next, Progress

LEMMA ConnectionsStep ==
    ASSUME TypeOK, Connections, [Next]_vars
    PROVE  Connections'
<1> USE Kinds
<1>0. /\ transport \in Conns \cup {None} /\ pendingTransport \in Conns \cup {None}
      /\ conn \in [Conns -> ConnStates]
  BY Types
<1>1. CASE UNCHANGED <<transport, pendingTransport, conn>>
  BY <1>1 DEF Connections, isConnected
<1>2. ASSUME NEW c \in Calls, getTransport(c) PROVE Connections'
  <2>1. CASE UNCHANGED <<pendingTransport, conn>>
    BY <1>1, <1>2, <2>1 DEF getTransport
  <2>2. CASE /\ ~isConnected(transport) /\ pendingTransport = None
             /\ \E k \in Conns : /\ conn[k] = "unused"
                                 /\ conn' = [conn EXCEPT ![k] = "connecting"]
                                 /\ pendingTransport' = k
    BY <1>0, <1>2, <2>2 DEF getTransport, Connections, isConnected
  <2> QED
    BY <1>2, <2>1, <2>2 DEF getTransport
<1>3. CASE TransportConnected
  <2>1. pendingTransport \in Conns /\ conn' = [conn EXCEPT ![pendingTransport] = "open"]
        /\ transport' = pendingTransport /\ pendingTransport' = None
    BY <1>0, <1>3 DEF TransportConnected
  <2>2. \A k \in Conns : conn[k] # "open"
    BY <1>0, <2>1 DEF Connections, isConnected
  <2> QED
    BY <1>0, <2>1, <2>2 DEF Connections, isConnected
<1>4. CASE TransportFailed
  <2>1. pendingTransport \in Conns /\ conn' = [conn EXCEPT ![pendingTransport] = "closed"]
        /\ transport' = transport /\ pendingTransport' = None
    BY <1>0, <1>4 DEF TransportFailed
  <2> QED
    BY <1>0, <2>1 DEF Connections, isConnected
<1>5. CASE Shutdown /\ pendingTransport' = pendingTransport
  <2>1. transport' = None /\ \A k \in Conns : conn'[k] = IF k = transport /\ conn[k] = "open"
                                                        THEN "ending" ELSE conn[k]
    BY <1>5, ShutdownLeaves
  <2> QED
    BY <1>0, <1>5, <2>1 DEF Connections, isConnected
<1>6. ASSUME NEW k \in Conns, PeerEnds(k) \/ SocketClosed(k) PROVE Connections'
  <2>1. /\ conn[k] \in {"open", "ending"} /\ conn'[k] \in {"ending", "closed"}
        /\ \A j \in Conns : j # k => conn'[j] = conn[j]
        /\ UNCHANGED <<transport, pendingTransport>>
    BY <1>0, <1>6 DEF PeerEnds, SocketClosed
  <2> QED
    BY <1>0, <2>1 DEF Connections, isConnected
<1> QED
  BY <1>1, <1>2, <1>3, <1>4, <1>5, <1>6, ConnectionSteps

LEMMA ConnectionsInvariant == Spec => [](TypeInv /\ Connections)
<1>1. Init => Connections
  BY DEF Init, Connections
<1>2. TypeInv /\ Connections /\ [Next]_vars => Connections'
  BY ConnectionsStep DEF TypeInv
<1> QED
  BY <1>1, <1>2, TypeInvariant, PTL DEF Spec

\* However calls, failures and close() interleave, at most one connection is
\* open or being opened.
THEOREM OneConnectionSafe == Spec => []OneConnection
<1>1. TypeInv /\ Connections => OneConnection
  <2> SUFFICES ASSUME TypeInv, Connections PROVE OneConnection
    OBVIOUS
  <2>1. \A k \in Live : k = (IF conn[k] = "open" THEN transport ELSE pendingTransport)
    BY DEF Live, Connections
  <2>2. \A j, k \in Live : j = k
    BY Kinds DEF Live, Connections, isConnected
  <2>3. CASE Live = {}
    BY <2>1, <2>3, FS_EmptySet DEF OneConnection
  <2>4. ASSUME NEW k \in Live PROVE OneConnection
    <3>1. Live = {k}
      BY <2>2, <2>4
    <3>2. Cardinality({k}) = 1
      BY FS_Singleton
    <3> QED
      BY <2>1, <3>1, <3>2 DEF OneConnection
  <2> QED
    BY <2>3, <2>4
<1> QED
  BY <1>1, ConnectionsInvariant, PTL
-----------------------------------------------------------------------------
(* Sessions and requests *)

ReadInv == TypeInv /\ Connections /\ Sessions /\ Outstanding

LEMMA HeadAlone ==
    ASSUME Turns, NEW c \in Calls, HasTurn(c)
    PROVE  \A d \in Calls : d # c => call[d].pc \notin InTurn
  BY DEF Turns, HasTurn

\* The request that is out is of the call that has its turn, which waits.
LEMMA AskerHasTurn ==
    ASSUME TypeOK, Turns, Outstanding, NEW m \in requests
    PROVE  m.by \in Calls /\ m.conn \in Conns /\ HasTurn(m.by)
<1>1. m.by \in Calls /\ m.conn \in Conns
  BY Types DEF Messages
<1> QED
  BY <1>1 DEF Outstanding, Turns, InTurn

LEMMA NothingOut ==
    ASSUME TypeOK, Turns, Outstanding, NEW c \in Calls, HasTurn(c),
           call[c].pc \notin {"creating", "reply", "failing"}
    PROVE  requests = {}
  BY AskerHasTurn DEF HasTurn, Outstanding

\* A call without its turn moves, and the request that is out stays as it is or
\* is given up.
LEMMA AsideOwn ==
    ASSUME ReadInv, NEW c \in Calls, call[c].pc \notin InTurn, call'[c].pc \notin InTurn,
           \A d \in Calls : d # c => call'[d] = call[d], sessionId' = sessionId,
           requests' = {} \/ UNCHANGED <<requests, transport, conn>>
    PROVE  Sessions' /\ Outstanding'
<1>1. Sessions'
  BY DEF ReadInv, Sessions, At, InTurn
<1>2. CASE requests' = {}
  BY <1>1, <1>2 DEF Outstanding
<1>3. CASE UNCHANGED <<requests, transport, conn>>
  <2>1. \A m \in requests : m.by \in Calls /\ m.by # c
    BY AskerHasTurn DEF ReadInv, TypeInv, Outstanding, InTurn
  <2> QED
    BY <1>1, <1>3, <2>1 DEF ReadInv, Outstanding, At
<1> QED
  BY <1>2, <1>3

\* The call that has its turn moves while nothing is out, or ends that.
LEMMA TurnOwn ==
    ASSUME ReadInv, NEW c \in Calls, HasTurn(c), \A d \in Calls : d # c => call'[d] = call[d],
           requests' = {},
           call'[c].pc = "creating" => sessionId'[call'[c].conn] = "creating",
           call'[c].pc = "sending" => /\ call'[c].sid = call'[c].conn
                                      /\ sessionId'[call'[c].conn] = "ready"
    PROVE  Sessions' /\ Outstanding'
<1>1. \A d \in Calls : d # c => call'[d].pc \notin InTurn
  BY HeadAlone DEF ReadInv, TypeInv
<1>2. Sessions'
  BY <1>1 DEF Sessions, At, InTurn
<1> QED
  BY <1>2 DEF Outstanding

\* Those who wait fail; what is out stays out or is given up.
LEMMA FailOwn ==
    ASSUME ReadInv, NEW W, \A c \in W : c \in Calls /\ Awaiting(c), FailWaiters(W),
           requests' \subseteq requests, transport' = transport,
           \A m \in requests' : conn'[m.conn] = conn[m.conn]
    PROVE  Sessions' /\ Outstanding'
<1>0. TypeOK /\ Turns
  BY DEF ReadInv, TypeInv
<1>1. /\ \A c \in Calls :
             /\ c \notin W => call'[c] = call[c]
             /\ c \in W => call'[c].pc = "failing"
             /\ call'[c].step = call[c].step
      /\ \A k \in Conns : sessionId'[k] = sessionId[k]
             \/ \E c \in W : At(c, "creating") /\ call[c].conn = k
  BY <1>0, FailWaitersLeaves
<1>2. \A c \in W : c \in Calls /\ HasTurn(c)
  BY <1>0 DEF Awaiting, Turns, InTurn
<1>3. Sessions'
  <2> SUFFICES ASSUME NEW c \in Calls, call'[c].pc \in {"creating", "sending"}
               PROVE  c \notin W /\ call'[c] = call[c]
                      /\ sessionId'[call[c].conn] = sessionId[call[c].conn]
    BY DEF ReadInv, Sessions, At
  <2>1. c \notin W /\ call'[c] = call[c]
    BY <1>1
  <2>2. call[c].conn \in Conns /\ HasTurn(c)
    BY <1>0, <2>1 DEF Turns, InTurn, OnConn
  <2>3. W = {}
    BY <1>2, <2>1, <2>2 DEF HasTurn
  <2> QED
    BY <1>1, <2>1, <2>2, <2>3
<1>4. ASSUME NEW m \in requests'
      PROVE  /\ m.conn = transport' /\ conn'[m.conn] = "open"
             /\ call'[m.by].pc \in {"creating", "reply", "failing"}
             /\ call'[m.by].pc = "creating" => m.step = "create"
             /\ call'[m.by].pc = "reply" => m.step = call'[m.by].step
             /\ m.step \notin {"create", "end"} => m.sid = m.conn /\ sessionId'[m.conn] = "ready"
  <2>1. m \in requests /\ m.by \in Calls /\ m.conn \in Conns /\ HasTurn(m.by)
    BY <1>0, <1>4, AskerHasTurn DEF ReadInv
  <2>2. \A c \in W : c = m.by
    BY <1>2, <2>1 DEF HasTurn
  <2>3. m.step \notin {"create", "end"} => sessionId'[m.conn] = sessionId[m.conn]
    BY <1>1, <2>1, <2>2 DEF ReadInv, Outstanding
  <2> QED
    BY <1>1, <2>1, <2>3 DEF ReadInv, Outstanding, At
<1>5. \A m, n \in requests' : m = n
  BY DEF ReadInv, Outstanding
<1>6. Outstanding'
  BY <1>4, <1>5 DEF Outstanding, At
<1> QED
  BY <1>3, <1>6
\* The steps a call takes without its turn.
Aside(c) ==
    \/ BeginRequest(c) \/ BeginTransfer(c) \/ BeginClose(c) \/ openDataChannel(c) \/ DataDone(c)
    \/ DataFailed(c) \/ CutShort(c) \/ removeIncompleteUpload(c)
    \/ c \in Closes /\ (TakeSession(c) \/ EndSession(c) \/ AwaitPending(c)
                        \/ CloseTransport(c) \/ CloseReturns(c))

LEMMA AsideSteps ==
    ASSUME TypeOK, NEW c \in Calls, Aside(c)
    PROVE  /\ call[c].pc \notin InTurn /\ call'[c].pc \notin InTurn
           /\ \A d \in Calls : d # c => call'[d] = call[d]
           /\ sessionId' = sessionId
           /\ Shutdown \/ UNCHANGED <<requests, transport, conn>>
<1> USE Kinds
<1>0. {"queued", "opening", "done", "tidy", "cutting", "settling", "sessionId", "closing",
       "pending", "shutting"} \subseteq Places \ InTurn
      /\ {"main", "rename", "cleanup", "end"} \subseteq StepNames
  BY DEF Places, InTurn, StepNames
<1>1. transport \in Conns \cup {None} /\ pendingTransport \in Conns \cup {None}
      /\ session \in Conns \cup {None} /\ call[c].conn \in Conns \cup {None}
  BY Types DEF CallStates
<1>2. ASSUME NEW step \in {"main", "rename", "cleanup", "end"}, NEW sid \in Conns \cup {None},
             enqueueInvocation(c, step, sid)
      PROVE  call'[c].pc \notin InTurn /\ \A d \in Calls : d # c => call'[d] = call[d]
  BY <1>0, <1>2, EnqueueMoves DEF InTurn
<1>3. ASSUME NEW pc \in {"opening", "done", "tidy", "settling", "closing"}, Goto(c, pc)
      PROVE  call'[c].pc \notin InTurn /\ \A d \in Calls : d # c => call'[d] = call[d]
  BY <1>0, <1>3, GotoMoves
<1>4. ASSUME NEW pc \in {"cutting", "sessionId", "pending", "shutting"},
             NEW k \in Conns \cup {None}, GotoWith(c, pc, k)
      PROVE  call'[c].pc \notin InTurn /\ \A d \in Calls : d # c => call'[d] = call[d]
  BY <1>0, <1>4, GotoWithMoves
<1>5. CASE BeginRequest(c) \/ BeginTransfer(c) \/ BeginClose(c)
  BY <1>2, <1>3, <1>5 DEF BeginRequest, BeginTransfer, BeginClose, service, At, InTurn
<1>6. CASE openDataChannel(c) \/ DataDone(c)
  BY <1>2, <1>3, <1>6 DEF openDataChannel, DataDone, service, At, InTurn
<1>7. CASE DataFailed(c)
  BY <1>1, <1>4, <1>7 DEF DataFailed, dropTransport, At, InTurn
<1>8. CASE CutShort(c) \/ removeIncompleteUpload(c)
  BY <1>2, <1>3, <1>8 DEF CutShort, removeIncompleteUpload, service, At, InTurn
<1>9. CASE TakeSession(c)
  BY <1>1, <1>3, <1>4, <1>9 DEF TakeSession, At, InTurn
<1>10. CASE EndSession(c)
  BY <1>1, <1>2, <1>3, <1>10 DEF EndSession, service, At, InTurn
<1>11. CASE AwaitPending(c) \/ CloseReturns(c)
  BY <1>1, <1>3, <1>4, <1>11 DEF AwaitPending, CloseReturns, service, At, InTurn
<1>12. CASE CloseTransport(c)
  <2>1. call[c].pc \notin InTurn
    BY <1>12 DEF CloseTransport, At, InTurn
  <2>2. CASE Goto(c, "done") /\ UNCHANGED <<service, invokeQueue>>
    BY <1>3, <2>1, <2>2 DEF service
  <2>3. CASE dropTransport(c, "shutting")
    BY <1>1, <1>4, <2>1, <2>3 DEF dropTransport
  <2> QED
    BY <1>12, <2>2, <2>3 DEF CloseTransport
<1> QED
  BY <1>5, <1>6, <1>7, <1>8, <1>9, <1>10, <1>11, <1>12 DEF Aside

\* A connection given up takes what is out with it.
LEMMA ShutdownEnds ==
    ASSUME TypeOK, Outstanding, Shutdown
    PROVE  requests' = {}
  BY ShutdownLeaves DEF Outstanding

LEMMA ReadStep ==
    ASSUME ReadInv, [Next]_vars
    PROVE  Sessions' /\ Outstanding'
<1> USE Kinds
<1>0. TypeOK /\ Turns /\ Connections /\ Sessions /\ Outstanding
  BY DEF ReadInv, TypeInv
<1>1. ASSUME NEW c \in Calls, Aside(c) PROVE Sessions' /\ Outstanding'
  <2>1. requests' = {} \/ UNCHANGED <<requests, transport, conn>>
    BY <1>0, <1>1, AsideSteps, ShutdownEnds
  <2> QED
    BY <1>0, <1>1, <2>1, AsideSteps, AsideOwn
<1>2. ASSUME NEW c \in Calls, getTransport(c) PROVE Sessions' /\ Outstanding'
  <2>1. HasTurn(c) /\ requests = {} /\ requests' = requests
    BY <1>0, <1>2, NothingOut DEF getTransport, At
  <2>2. {"acquired", "connecting"} \subseteq Places
    BY DEF Places
  <2>3. transport \in Conns \cup {None}
    BY <1>0, Types
  <2>4. call'[c].pc \in {"acquired", "connecting"} /\ \A d \in Calls : d # c => call'[d] = call[d]
    BY <1>0, <1>2, <2>2, <2>3, GotoMoves, GotoWithMoves DEF getTransport
  <2> QED
    BY <2>1, <2>4, TurnOwn
<1>3. CASE TransportConnected \/ TransportFailed
  <2>1. requests = {} /\ pendingTransport # None
    <3>1. pendingTransport # None /\ transport \in Conns \cup {None}
      BY <1>0, <1>3, Types DEF TransportConnected, TransportFailed
    <3>2. ~isConnected(transport)
      BY <1>0, <3>1 DEF Connections
    <3>3. \A m \in requests : m.conn = transport /\ m.conn \in Conns /\ conn[m.conn] = "open"
      BY <1>0, AskerHasTurn DEF Outstanding
    <3> QED
      BY <3>1, <3>2, <3>3 DEF isConnected
  <2>2. requests' = {} /\ sessionId' = sessionId
    BY <1>3, <2>1 DEF TransportConnected, TransportFailed
  <2>3. \A c \in Calls : call'[c] = call[c] \/ call'[c].pc \in {"acquired", "failing"}
    BY <1>0, <1>3, PendingMoves
  <2>4. Sessions'
    BY <1>0, <2>2, <2>3 DEF Sessions, At
  <2> QED
    BY <2>2, <2>4 DEF Outstanding
<1>4. ASSUME NEW c \in Calls, NEW step \in {"create"} \cup StepNames, step # "data",
             NEW sid \in Conns \cup {None}, NEW pc \in {"creating", "reply"},
             call[c].pc \in {"acquired", "sending"}, SendAndAwait(c, step, sid, pc),
             transport' = transport, conn' = conn,
             pc = "creating" => step = "create",
             pc = "creating" /\ isConnected(call[c].conn) => sessionId'[call[c].conn] = "creating",
             pc = "reply" => step = call[c].step,
             step \notin {"create", "end"} => sid = call[c].conn /\ sessionId'[sid] = "ready"
      PROVE  Sessions' /\ Outstanding'
  <2>1. HasTurn(c) /\ requests = {} /\ call[c].conn \in Conns
    BY <1>0, <1>4, NothingOut DEF Turns, InTurn, OnConn
  <2>2. pc \in Places
    BY <1>4 DEF Places
  <2>3. /\ \A d \in Calls : d # c => call'[d] = call[d]
        /\ call'[c].step = call[c].step /\ call'[c].conn = call[c].conn
        /\ IF isConnected(call[c].conn)
           THEN /\ call'[c].pc = pc
                /\ requests' = {[conn |-> call[c].conn, id |-> nextMessageId, by |-> c,
                                 step |-> step, sid |-> sid, applied |-> FALSE]}
           ELSE call'[c].pc = "failing" /\ requests' = {}
    BY <1>0, <1>4, <2>1, <2>2, SendMoves
  <2>4. CASE isConnected(call[c].conn)
    <3>1. Sessions'
      BY <1>0, <1>4, <2>1, <2>3, <2>4, HeadAlone DEF Sessions, At, InTurn
    <3>2. transport = call[c].conn /\ conn[call[c].conn] = "open"
      BY <1>0, <2>1, <2>4 DEF Connections, isConnected
    <3>3. Outstanding'
      <4> DEFINE new == [conn |-> call[c].conn, id |-> nextMessageId, by |-> c,
                         step |-> step, sid |-> sid, applied |-> FALSE]
      <4>1. requests' = {new} /\ call'[c].pc = pc /\ call'[c].step = call[c].step
        BY <2>3, <2>4
      <4>2. /\ new.conn = call[c].conn /\ new.by = c /\ new.step = step /\ new.sid = sid
        OBVIOUS
      <4> HIDE DEF new
      <4> QED
        BY <1>4, <3>2, <4>1, <4>2 DEF Outstanding, At
    <3> QED
      BY <3>1, <3>3
  <2>5. CASE ~isConnected(call[c].conn)
    BY <2>1, <2>3, <2>5, TurnOwn
  <2> QED
    BY <2>4, <2>5
<1>5. ASSUME NEW c \in Calls, ensureSessionOn(c) PROVE Sessions' /\ Outstanding'
  <2>1. /\ HasTurn(c) /\ requests = {} /\ call[c].conn \in Conns /\ call[c].pc = "acquired"
        /\ transport' = transport /\ conn' = conn
    BY <1>0, <1>5, NothingOut DEF ensureSessionOn, Turns, InTurn, OnConn, At
  <2>2. CASE /\ SendAndAwait(c, "create", None, "creating")
             /\ sessionId' = [sessionId EXCEPT ![call[c].conn] =
                                IF isConnected(call[c].conn) THEN "creating" ELSE "failed"]
    <3>1. isConnected(call[c].conn) => sessionId'[call[c].conn] = "creating"
      <4>1. sessionId \in [Conns -> SessionStates]
        BY <1>0, Types
      <4> QED
        BY <2>1, <2>2, <4>1
    <3>2. "create" # "data" /\ "create" \in {"create"} \cup StepNames
      OBVIOUS
    <3> QED
      BY <1>4, <2>1, <2>2, <3>1, <3>2
  <2>3. CASE /\ session = call[c].conn
             /\ call' = [call EXCEPT ![c].pc = IF sessionId[call[c].conn] = "ready"
                                              THEN "sending" ELSE "failing",
                                    ![c].sid = session]
             /\ UNCHANGED <<nextMessageId, session, sessionId, requests>>
    <3> DEFINE pc == IF sessionId[call[c].conn] = "ready" THEN "sending" ELSE "failing"
    <3>0. pc \in Places
      BY DEF Places
    <3>1. call' = [call EXCEPT ![c].pc = pc, ![c].sid = session] /\ session \in Conns \cup {None}
      BY <2>1, <2>3
    <3>2. pc = "sending" => sessionId[call[c].conn] = "ready"
      OBVIOUS
    <3>3. pc # "creating"
      OBVIOUS
    <3> HIDE DEF pc
    <3>4. /\ call' \in [Calls -> CallStates]
          /\ call'[c].pc = pc /\ call'[c].sid = session /\ call'[c].conn = call[c].conn
          /\ \A d \in Calls : d # c => call'[d] = call[d]
      <4>1. TypeOK /\ call \in [Calls -> CallStates]
        BY <1>0, Types
      <4>2. call[c] \in CallStates /\ call' = [call EXCEPT ![c] = [call[c] EXCEPT !.pc = pc, !.sid = session]]
        BY <3>1, <4>1
      <4>3. [call[c] EXCEPT !.pc = pc, !.sid = session] \in CallStates
        BY <3>0, <3>1, <4>2 DEF CallStates
      <4>4. call'[c] = [call[c] EXCEPT !.pc = pc, !.sid = session]
        BY <4>1, <4>2
      <4>5. call'[c].pc = pc /\ call'[c].sid = session /\ call'[c].conn = call[c].conn
        BY <4>2, <4>4 DEF CallStates
      <4> QED
        BY <4>1, <4>2, <4>3, <4>5
    <3>5. requests' = {} /\ sessionId' = sessionId
      BY <2>1, <2>3
    <3> QED
      BY <2>1, <2>3, <3>2, <3>3, <3>4, <3>5, TurnOwn
  <2> QED
    BY <1>5, <2>2, <2>3 DEF ensureSessionOn
<1>6. ASSUME NEW c \in Calls, exchange(c) PROVE Sessions' /\ Outstanding'
  <2>1. /\ call[c].pc \in {"acquired", "sending"} /\ transport' = transport /\ conn' = conn
        /\ sessionId' = sessionId /\ SendAndAwait(c, call[c].step, call[c].sid, "reply")
    BY <1>6 DEF exchange, At
  <2>2. /\ call[c].step \in StepNames /\ call[c].step # "data"
        /\ call[c].sid \in Conns \cup {None}
    BY <1>0, <2>1, Types DEF CallStates, Turns
  <2>3. call[c].step \notin {"create", "end"} =>
            call[c].sid = call[c].conn /\ sessionId'[call[c].sid] = "ready"
    BY <1>0, <1>6, <2>1 DEF exchange, Sessions, At
  <2> QED
    BY <1>4, <2>1, <2>2, <2>3
<1>7. ASSUME NEW m \in requests, Apply(m) PROVE Sessions' /\ Outstanding'
  <2>1. requests = {m}
    BY <1>0 DEF Outstanding
  <2>2. requests' = {[m EXCEPT !.applied = TRUE]}
    BY <1>7, <2>1 DEF Apply
  <2>3. UNCHANGED <<transport, conn, call, sessionId>>
    BY <1>7 DEF Apply
  <2>4. \E n \in Messages : n = m
    BY <1>0, Types
  <2>5. \A n \in requests' : /\ n.conn = m.conn /\ n.by = m.by /\ n.step = m.step /\ n.sid = m.sid
    BY <2>2, <2>4 DEF Messages
  <2>6. Outstanding'
    BY <1>0, <2>2, <2>3, <2>5 DEF Outstanding, At
  <2> QED
    BY <1>0, <2>3, <2>6 DEF Sessions, At
<1>8. ASSUME NEW m \in requests, NEW ok \in BOOLEAN, Reply(m, ok) PROVE Sessions' /\ Outstanding'
  <2> DEFINE W == {c \in WaitersOn(m.conn) : call[c].id = m.id}
  <2>1. \A c \in W : c \in Calls /\ Awaiting(c) /\ call[c].conn = m.conn
    BY DEF WaitersOn
  <2>2. requests' = {} /\ UNCHANGED <<transport, conn>>
    BY <1>0, <1>8 DEF Reply, Outstanding
  <2>3. \/ UNCHANGED <<call, sessionId>>
        \/ \E c \in W :
             \/ /\ call' = [call EXCEPT ![c].pc = "sending", ![c].sid = m.conn]
                /\ sessionId' = [sessionId EXCEPT ![m.conn] = "ready"]
             \/ FailWaiters({c})
             \/ Goto(c, Resume(c, ok)) /\ sessionId' = sessionId
    BY <1>8 DEF Reply
  <2> HIDE DEF W
  <2>4. CASE UNCHANGED <<call, sessionId>>
    BY <1>0, <2>2, <2>4 DEF Sessions, Outstanding, At
  <2>5. ASSUME NEW c \in W
        PROVE  c \in Calls /\ HasTurn(c) /\ call[c].conn = m.conn /\ m.conn \in Conns
    BY <1>0, <2>1, <2>5, AskerHasTurn DEF Awaiting, Turns, InTurn
  <2>6. ASSUME NEW c \in W, call' = [call EXCEPT ![c].pc = "sending", ![c].sid = m.conn],
               sessionId' = [sessionId EXCEPT ![m.conn] = "ready"]
        PROVE  Sessions' /\ Outstanding'
    <3>1. "sending" \in Places /\ sessionId \in [Conns -> SessionStates]
      BY <1>0, Types DEF Places
    <3>2. /\ call' \in [Calls -> CallStates]
          /\ call'[c].pc = "sending" /\ call'[c].sid = m.conn /\ call'[c].conn = m.conn
          /\ \A d \in Calls : d # c => call'[d] = call[d]
      <4>1. /\ TypeOK /\ m.conn \in Conns \cup {None} /\ c \in Calls /\ call[c].conn = m.conn
            /\ call \in [Calls -> CallStates]
        BY <1>0, <2>5, Types
      <4>2. call' = [call EXCEPT ![c].pc = "sending", ![c].sid = m.conn] /\ "sending" \in Places
        BY <2>6, <3>1
      <4>3. /\ call[c] \in CallStates
            /\ call' = [call EXCEPT ![c] = [call[c] EXCEPT !.pc = "sending", !.sid = m.conn]]
        BY <4>1, <4>2
      <4>4. [call[c] EXCEPT !.pc = "sending", !.sid = m.conn] \in CallStates
        BY <4>1, <4>2, <4>3 DEF CallStates
      <4>5. call[c] \in [pc : Places, step : StepNames, conn : Conns \cup {None}, id : Nat,
                         sid : Conns \cup {None}]
        BY <4>3 DEF CallStates
      <4> QED
        BY <4>1, <4>3, <4>4, <4>5
    <3>3. sessionId'[m.conn] = "ready"
      BY <2>5, <2>6, <3>1
    <3> QED
      BY <2>2, <2>5, <3>2, <3>3, TurnOwn
  <2>7. ASSUME NEW c \in W, FailWaiters({c}) PROVE Sessions' /\ Outstanding'
    <3>1. \A d \in {c} : d \in Calls /\ Awaiting(d)
      BY <2>1
    <3> QED
      BY <2>2, <2>7, <3>1, FailOwn
  <2>8. ASSUME NEW c \in W, Goto(c, Resume(c, ok)) PROVE Sessions' /\ Outstanding'
    <3>1. Resume(c, ok) \in {"closing", "data", "tidy", "done"}
      BY <2>5, ResumePlaces
    <3>2. Resume(c, ok) \in Places
      BY <3>1 DEF Places
    <3>3. call'[c].pc = Resume(c, ok) /\ \A d \in Calls : d # c => call'[d] = call[d]
      BY <1>0, <2>5, <2>8, <3>2, GotoMoves
    <3> QED
      BY <2>2, <2>5, <3>1, <3>3, TurnOwn
  <2> QED
    BY <2>3, <2>4, <2>6, <2>7, <2>8
<1>9. ASSUME NEW c \in Calls, Timeout(c) PROVE Sessions' /\ Outstanding'
  <2>1. \A d \in {c} : d \in Calls /\ Awaiting(d)
    BY <1>9 DEF Timeout
  <2> QED
    BY <1>9, <2>1, FailOwn DEF Timeout
<1>10. ASSUME NEW c \in Calls, CatchFailure(c) PROVE Sessions' /\ Outstanding'
  <2>1. HasTurn(c) /\ requests' = {}
    BY <1>0, <1>10, ShutdownEnds DEF CatchFailure, dropTransport, Turns, InTurn, At
  <2>2. "dropping" \in Places /\ transport \in Conns \cup {None}
    BY <1>0, Types DEF Places
  <2>3. call'[c].pc = "dropping" /\ \A d \in Calls : d # c => call'[d] = call[d]
    BY <1>0, <1>10, <2>2, GotoWithMoves DEF CatchFailure, dropTransport
  <2> QED
    BY <2>1, <2>3, TurnOwn
<1>11. ASSUME NEW c \in Calls, Dropped(c) PROVE Sessions' /\ Outstanding'
  <2>1. HasTurn(c)
    BY <1>0, <1>11 DEF Dropped, Turns, InTurn, At
  <2>2. requests' = {}
    BY <1>0, <1>11, <2>1, NothingOut DEF Dropped, At, service
  <2>3. Resume(c, FALSE) \in {"closing", "data", "tidy", "done"}
    BY ResumePlaces
  <2>4. Resume(c, FALSE) \in Places
    BY <2>3 DEF Places
  <2>5. call'[c].pc = Resume(c, FALSE) /\ \A d \in Calls : d # c => call'[d] = call[d]
    BY <1>0, <1>11, <2>4, GotoMoves DEF Dropped
  <2> QED
    BY <2>1, <2>2, <2>3, <2>5, TurnOwn
<1>12. ASSUME NEW k \in Conns, PeerEnds(k) \/ SocketClosed(k) PROVE Sessions' /\ Outstanding'
  <2>1. \A c \in WaitersOn(k) : c \in Calls /\ Awaiting(c)
    BY DEF WaitersOn
  <2>2. FailWaiters(WaitersOn(k)) /\ transport' = transport /\ requests' \subseteq requests
        /\ \A j \in Conns : j # k => conn'[j] = conn[j]
    BY <1>12, Types, <1>0 DEF PeerEnds, SocketClosed
  <2>3. \A m \in requests' : m.conn # k
    BY <1>0, <1>12 DEF PeerEnds, SocketClosed, Outstanding
  <2>4. \A m \in requests' : conn'[m.conn] = conn[m.conn]
    BY <1>0, <2>2, <2>3, AskerHasTurn
  <2> QED
    BY <2>1, <2>2, <2>4, FailOwn
<1>13. CASE UNCHANGED vars
  BY <1>0, <1>13 DEF vars, Sessions, Outstanding, At
<1> QED
  BY <1>1, <1>2, <1>3, <1>5, <1>6, <1>7, <1>8, <1>9, <1>10, <1>11, <1>12, <1>13
  DEF Next, Begin, Progress, Aside

LEMMA ReadInvariant == Spec => []ReadInv
<1>1. Init => Sessions /\ Outstanding
  BY DEF Init, Sessions, Outstanding, Fresh, At
<1>2. ReadInv /\ [Next]_vars => Sessions' /\ Outstanding'
  BY ReadStep
<1> QED
  BY <1>1, <1>2, ConnectionsInvariant, PTL DEF Spec, ReadInv

\* A request goes out with the id of a session the device created on the very
\* connection that carries it, however often that was replaced meanwhile.
THEOREM RequestsOnOwnSessionSafe == Spec => []RequestsOnOwnSession
<1>1. ReadInv => RequestsOnOwnSession
  BY DEF ReadInv, Outstanding, RequestsOnOwnSession
<1> QED
  BY <1>1, ReadInvariant, PTL

\* The device never owes two replies on a connection that is read.
THEOREM OneOutstandingRequestSafe == Spec => []OneOutstandingRequest
<1>1. ReadInv => OneOutstandingRequest
  BY DEF ReadInv, Outstanding, OneOutstandingRequest
<1> QED
  BY <1>1, ReadInvariant, PTL
-----------------------------------------------------------------------------
(* Uploads *)

UploadInv == ReadInv /\ Uploads

\* A push that keeps or takes its turn keeps what it was doing.
LEMMA UploadInTurn ==
    ASSUME NEW c \in Pushes, Upload(c), call'[c].pc \in InTurn, call'[c].step = call[c].step
    PROVE  Upload(c)'
  BY DEF Upload, At, InTurn

LEMMA UploadAside ==
    ASSUME UploadInv, NEW c \in Pushes, Aside(c)
    PROVE  Upload(c)'
<1> USE Kinds
<1>0. TypeOK /\ Turns /\ Upload(c) /\ c \in Calls /\ c \notin Requests /\ c \notin Closes
  BY DEF UploadInv, ReadInv, TypeInv, Uploads
<1>1. {"queued", "opening", "done", "tidy", "cutting"} \subseteq Places
      /\ {"main", "rename", "cleanup"} \subseteq StepNames
  BY DEF Places, StepNames
<1>2. ASSUME NEW step \in {"main", "rename", "cleanup"}, enqueueInvocation(c, step, None)
      PROVE  Upload(c)'
  BY <1>0, <1>1, <1>2, EnqueueMoves DEF Upload, At
<1>3. CASE BeginTransfer(c)
  BY <1>0, <1>1, <1>3, GotoMoves DEF BeginTransfer, Upload, At
<1>4. CASE openDataChannel(c)
  <2>1. CASE Goto(c, "done")
    BY <1>0, <1>1, <1>4, <2>1, GotoMoves DEF openDataChannel, Upload, At
  <2> QED
    BY <1>2, <1>4, <2>1 DEF openDataChannel
<1>5. CASE DataDone(c) \/ removeIncompleteUpload(c)
  BY <1>2, <1>5 DEF DataDone, removeIncompleteUpload
<1>6. CASE DataFailed(c)
  <2>1. transport \in Conns \cup {None} /\ GotoWith(c, "cutting", transport)
    BY <1>0, <1>6, Types DEF DataFailed, dropTransport
  <2> QED
    BY <1>0, <1>1, <2>1, GotoWithMoves DEF Upload, At
<1>7. CASE CutShort(c)
  BY <1>0, <1>1, <1>7, GotoMoves DEF CutShort, Upload, At
<1> QED
  BY <1>0, <1>3, <1>4, <1>5, <1>6, <1>7 DEF Aside, BeginRequest, BeginClose

LEMMA UploadsStep ==
    ASSUME UploadInv, [Next]_vars
    PROVE  Uploads'
<1> USE Kinds
<1>0. /\ ReadInv /\ TypeOK /\ Turns /\ Outstanding /\ Uploads
      /\ \A c \in Pushes : Upload(c)
  BY DEF UploadInv, ReadInv, TypeInv, Uploads
<1>1. ASSUME partial' = partial, \A c \in Pushes : call'[c] # call[c] => Upload(c)',
             \A m \in requests' : m \in requests \/ ~m.applied
      PROVE  Uploads'
  BY <1>0, <1>1 DEF Uploads, Upload, At
<1>2. ASSUME NEW c \in Calls, Aside(c) PROVE Uploads'
  <2>1. partial' = partial
    BY <1>2 DEF Aside, BeginRequest, BeginTransfer, BeginClose, openDataChannel, DataDone, DataFailed,
       CutShort, removeIncompleteUpload, TakeSession, EndSession, AwaitPending, CloseTransport,
       CloseReturns
  <2>2. \A d \in Pushes : call'[d] # call[d] => d = c
    BY <1>0, <1>2, AsideSteps
  <2>3. c \in Pushes => Upload(c)'
    BY <1>2, UploadAside
  <2>4. requests' = {} \/ requests' = requests
    BY <1>0, <1>2, AsideSteps, ShutdownEnds
  <2> QED
    BY <1>1, <2>1, <2>2, <2>3, <2>4
<1>3. ASSUME NEW c \in Calls, getTransport(c) PROVE Uploads'
  <2>1. {"acquired", "connecting"} \subseteq Places /\ transport \in Conns \cup {None}
    BY <1>0, Types DEF Places
  <2>2. /\ call'[c].pc \in InTurn /\ call'[c].step = call[c].step
        /\ \A d \in Calls : d # c => call'[d] = call[d]
    BY <1>0, <1>3, <2>1, GotoMoves, GotoWithMoves DEF getTransport, InTurn
  <2>3. partial' = partial /\ requests' = requests
    BY <1>3 DEF getTransport
  <2> QED
    BY <1>0, <1>1, <2>2, <2>3, UploadInTurn
<1>4. CASE TransportConnected \/ TransportFailed
  <2>1. \A c \in Calls : call'[c] = call[c] \/ (call'[c].pc \in InTurn /\ call'[c].step = call[c].step)
    BY <1>0, <1>4, PendingMoves DEF InTurn
  <2>2. partial' = partial /\ requests' = requests
    BY <1>4 DEF TransportConnected, TransportFailed
  <2> QED
    BY <1>0, <1>1, <2>1, <2>2, UploadInTurn
<1>5. ASSUME NEW c \in Calls, NEW step \in {"create"} \cup StepNames, step # "data",
             NEW sid \in Conns \cup {None}, NEW pc \in {"creating", "reply"},
             call[c].pc \in {"acquired", "sending"}, SendAndAwait(c, step, sid, pc),
             partial' = partial
      PROVE  Uploads'
  <2>1. call[c].conn \in Conns /\ pc \in Places
    BY <1>0, <1>5 DEF Turns, OnConn, Places
  <2>2. /\ \A d \in Calls : d # c => call'[d] = call[d]
        /\ call'[c].step = call[c].step /\ call'[c].pc \in {pc, "failing"}
        /\ \A m \in requests' : m \in requests \/ ~m.applied
    BY <1>0, <1>5, <2>1, SendMoves
  <2> QED
    BY <1>0, <1>1, <1>5, <2>2, UploadInTurn DEF InTurn
<1>6. ASSUME NEW c \in Calls, ensureSessionOn(c) PROVE Uploads'
  <2>1. call[c].pc = "acquired" /\ partial' = partial
    BY <1>6 DEF ensureSessionOn, At
  <2>2. CASE SendAndAwait(c, "create", None, "creating")
    BY <1>5, <2>1, <2>2
  <2>3. CASE /\ session = call[c].conn
             /\ call' = [call EXCEPT ![c].pc = IF sessionId[call[c].conn] = "ready"
                                              THEN "sending" ELSE "failing",
                                    ![c].sid = session]
             /\ requests' = requests
    <3>1. call \in [Calls -> CallStates]
      BY <1>0, Types
    <3>2. /\ call'[c].pc \in {"sending", "failing"} /\ call'[c].step = call[c].step
          /\ \A d \in Calls : d # c => call'[d] = call[d]
      BY <2>3, <3>1 DEF CallStates
    <3> QED
      BY <1>0, <1>1, <2>1, <2>3, <3>2, UploadInTurn DEF InTurn
  <2> QED
    BY <1>6, <2>2, <2>3 DEF ensureSessionOn
<1>7. ASSUME NEW c \in Calls, exchange(c) PROVE Uploads'
  <2>1. /\ call[c].pc \in {"acquired", "sending"} /\ partial' = partial
        /\ SendAndAwait(c, call[c].step, call[c].sid, "reply")
    BY <1>7 DEF exchange, At
  <2>2. /\ call[c].step \in StepNames /\ call[c].step # "data"
        /\ call[c].sid \in Conns \cup {None}
    BY <1>0, <2>1, Types DEF CallStates, Turns
  <2> QED
    BY <1>5, <2>1, <2>2
<1>8. ASSUME NEW m \in requests, Apply(m) PROVE Uploads'
  <2>1. /\ requests = {m} /\ m.by \in Calls /\ call[m.by].pc # "done"
        /\ \E n \in Messages : n = m
    BY <1>0, AskerHasTurn, Types DEF Outstanding
  <2>2. /\ requests' = {[m EXCEPT !.applied = TRUE]} /\ call' = call
        /\ partial' = IF m.step = "main" THEN partial \cup {m.by} ELSE partial \ {m.by}
    BY <1>8, <2>1 DEF Apply
  <2>3. \A n \in requests' : n.by = m.by /\ n.step = m.step
    BY <2>1, <2>2 DEF Messages
  <2> QED
    BY <1>0, <2>1, <2>2, <2>3 DEF Uploads, Upload, At
<1>9. ASSUME NEW W, \A c \in W : c \in Calls /\ Awaiting(c), FailWaiters(W),
             requests' \subseteq requests, partial' = partial
      PROVE  Uploads'
  <2>1. \A c \in Calls : call'[c] = call[c] \/ (call'[c].pc \in InTurn /\ call'[c].step = call[c].step)
    BY <1>0, <1>9, FailWaitersLeaves DEF InTurn
  <2> QED
    BY <1>0, <1>1, <1>9, <2>1, UploadInTurn
<1>10. ASSUME NEW m \in requests, NEW ok \in BOOLEAN, Reply(m, ok) PROVE Uploads'
  <2> DEFINE W == {c \in WaitersOn(m.conn) : call[c].id = m.id}
  <2>1. \A c \in W : c \in Calls /\ Awaiting(c)
    BY DEF WaitersOn
  <2>2. requests' = {} /\ partial' = partial
        /\ (m.by \in Pushes /\ m.step # "create" => ok = m.applied)
    BY <1>0, <1>10 DEF Reply, Outstanding
  <2>3. \/ call' = call
        \/ \E c \in W :
             \/ call' = [call EXCEPT ![c].pc = "sending", ![c].sid = m.conn]
             \/ FailWaiters({c})
             \/ At(c, "reply") /\ Goto(c, Resume(c, ok))
    BY <1>10 DEF Reply
  <2> HIDE DEF W
  <2>4. CASE call' = call
    BY <1>1, <2>2, <2>4
  <2>5. ASSUME NEW c \in W, call' = [call EXCEPT ![c].pc = "sending", ![c].sid = m.conn]
        PROVE  Uploads'
    <3>1. call \in [Calls -> CallStates] /\ c \in Calls
      BY <1>0, <2>1, Types
    <3>2. /\ call'[c].pc = "sending" /\ call'[c].step = call[c].step
          /\ \A d \in Calls : d # c => call'[d] = call[d]
      BY <2>5, <3>1 DEF CallStates
    <3> QED
      BY <1>0, <1>1, <2>2, <3>2, UploadInTurn DEF InTurn
  <2>6. ASSUME NEW c \in W, FailWaiters({c}) PROVE Uploads'
    <3>1. \A d \in {c} : d \in Calls /\ Awaiting(d)
      BY <2>1
    <3> QED
      BY <1>9, <2>2, <2>6, <3>1
  <2>7. ASSUME NEW c \in W, At(c, "reply"), Goto(c, Resume(c, ok)) PROVE Uploads'
    <3>1. c \in Calls /\ Resume(c, ok) \in {"closing", "data", "tidy", "done"}
          /\ Resume(c, ok) \in Places
      BY <2>1, ResumePlaces DEF Places
    <3>2. /\ call'[c].pc = Resume(c, ok)
          /\ call'[c].step = IF Resume(c, ok) = "data" THEN "data" ELSE call[c].step
          /\ \A d \in Calls : d # c => call'[d] = call[d]
      BY <1>0, <2>7, <3>1, GotoMoves
    <3>3. c = m.by
      <4>1. HasTurn(c) /\ HasTurn(m.by)
        BY <1>0, <2>7, <3>1, AskerHasTurn DEF Turns, InTurn, At
      <4> QED
        BY <4>1 DEF HasTurn
    <3>4. m.step = call[c].step /\ call[c].step # "data"
      BY <1>0, <2>7, <3>1, <3>3 DEF Outstanding, Turns, At
    <3>5. c \in Pushes /\ call[c].step = "rename" /\ Resume(c, ok) = "done" => c \notin partial
      BY <1>0, <2>2, <3>1, <3>3, <3>4, ResumePlaces DEF Uploads
    <3>6. c \in Pushes => Upload(c)'
      BY <1>0, <2>2, <3>1, <3>2, <3>4, <3>5 DEF Upload, At
    <3> QED
      BY <1>1, <2>2, <3>2, <3>6
  <2> QED
    BY <2>3, <2>4, <2>5, <2>6, <2>7
<1>11. ASSUME NEW c \in Calls, Timeout(c) PROVE Uploads'
  <2>1. \A d \in {c} : d \in Calls /\ Awaiting(d)
    BY <1>11 DEF Timeout
  <2> QED
    BY <1>9, <1>11, <2>1 DEF Timeout
<1>12. ASSUME NEW c \in Calls, CatchFailure(c) PROVE Uploads'
  <2>1. requests' = {} /\ partial' = partial /\ GotoWith(c, "dropping", transport)
    BY <1>0, <1>12, ShutdownEnds DEF CatchFailure, dropTransport
  <2>2. "dropping" \in Places /\ transport \in Conns \cup {None}
    BY <1>0, Types DEF Places
  <2>3. /\ call'[c].pc = "dropping" /\ call'[c].step = call[c].step
        /\ \A d \in Calls : d # c => call'[d] = call[d]
    BY <1>0, <2>1, <2>2, GotoWithMoves
  <2> QED
    BY <1>0, <1>1, <2>1, <2>3, UploadInTurn DEF InTurn
<1>13. ASSUME NEW c \in Calls, Dropped(c) PROVE Uploads'
  <2>1. call[c].step # "data" /\ partial' = partial /\ requests' = requests
    BY <1>0, <1>13 DEF Dropped, Turns, At, service
  <2>2. Resume(c, FALSE) \in {"closing", "data", "tidy", "done"} /\ Resume(c, FALSE) \in Places
    BY ResumePlaces DEF Places
  <2>3. /\ call'[c].pc = Resume(c, FALSE)
        /\ call'[c].step = IF Resume(c, FALSE) = "data" THEN "data" ELSE call[c].step
        /\ \A d \in Calls : d # c => call'[d] = call[d]
    BY <1>0, <1>13, <2>2, GotoMoves DEF Dropped
  <2>4. c \in Pushes /\ call[c].step = "rename" => Resume(c, FALSE) = "tidy"
    BY ResumePlaces
  <2>5. c \in Pushes => Upload(c)'
    BY <1>0, <2>1, <2>2, <2>3, <2>4 DEF Upload, At
  <2> QED
    BY <1>1, <2>1, <2>3, <2>5
<1>14. ASSUME NEW k \in Conns, PeerEnds(k) \/ SocketClosed(k) PROVE Uploads'
  <2>1. \A c \in WaitersOn(k) : c \in Calls /\ Awaiting(c)
    BY DEF WaitersOn
  <2>2. FailWaiters(WaitersOn(k)) /\ partial' = partial /\ requests' \subseteq requests
    BY <1>14 DEF PeerEnds, SocketClosed
  <2> QED
    BY <1>9, <2>1, <2>2
<1>15. CASE UNCHANGED vars
  BY <1>1, <1>15 DEF vars
<1> QED
  BY <1>2, <1>3, <1>4, <1>6, <1>7, <1>8, <1>10, <1>11, <1>12, <1>13, <1>14, <1>15
  DEF Next, Begin, Progress, Aside

\* A push that was told its file was created does not settle, with the file
\* still there, before it asked for the file to be removed.
THEOREM FailedPushTidiesSafe == Spec => []FailedPushTidies
<1>1. Init => Uploads
  BY Kinds DEF Init, Uploads, Upload, Fresh, At
<1>2. UploadInv /\ [Next]_vars => Uploads'
  BY UploadsStep
<1>3. UploadInv => FailedPushTidies
  <2> SUFFICES ASSUME UploadInv, NEW c \in Pushes, At(c, "done"), call[c].step # "main", c \in partial
               PROVE  call[c].step = "cleanup"
    BY DEF FailedPushTidies
  <2>1. call[c].step \in StepNames
    BY Kinds, Types DEF UploadInv, ReadInv, TypeInv, CallStates
  <2> QED
    BY <2>1 DEF UploadInv, Uploads, Upload, StepNames
<1> QED
  BY <1>1, <1>2, <1>3, ReadInvariant, PTL DEF Spec, UploadInv
-----------------------------------------------------------------------------
(* close() *)

CloseInv == TypeInv /\ Connections /\ Covered

\* A connection once opened is not opened again.
LEMMA NoRevival ==
    ASSUME TypeOK, Connections, [Next]_vars, NEW k \in Conns, conn[k] # "unused"
    PROVE  /\ conn'[k] # "unused"
           /\ k \notin Live => k \notin Live'
<1>0. /\ conn \in [Conns -> ConnStates] /\ transport \in Conns \cup {None}
      /\ pendingTransport \in Conns \cup {None}
  BY Types
<1>1. CASE UNCHANGED <<transport, pendingTransport, conn>>
  BY <1>1 DEF Live
<1>2. ASSUME NEW c \in Calls, getTransport(c) PROVE conn'[k] = conn[k]
  BY <1>0, <1>2 DEF getTransport
<1>3. CASE TransportConnected \/ TransportFailed
  <2>1. /\ conn'[k] = conn[k] \/ (k = pendingTransport /\ conn'[k] \in {"open", "closed"})
        /\ pendingTransport # None
    BY <1>0, <1>3 DEF TransportConnected, TransportFailed
  <2>2. k = pendingTransport => k \in Live
    BY <2>1 DEF Connections, Live
  <2> QED
    BY <2>1, <2>2 DEF Live
<1>4. CASE Shutdown
  BY <1>4, ShutdownLeaves DEF Live
<1>5. ASSUME NEW j \in Conns, PeerEnds(j) \/ SocketClosed(j)
      PROVE  conn'[k] = conn[k] \/ conn'[k] \in {"ending", "closed"}
  BY <1>0, <1>5 DEF PeerEnds, SocketClosed
<1> QED
  BY <1>1, <1>2, <1>3, <1>4, <1>5, ConnectionSteps DEF Live

\* What a step does to a close().
CloseMoves(c) ==
    \/ call'[c] = call[c] /\ closing'[c] = closing[c]
    \/ /\ call'[c].pc \in InTurn \cup {"queued", "sessionId", "closing"}
       /\ closing'[c] = closing[c]
    \/ BeginClose(c) \/ AwaitPending(c) \/ CloseTransport(c) \/ CloseReturns(c)

LEMMA CloseSteps ==
    ASSUME TypeOK, Turns, \A d \in Closes : Cover(d), [Next]_vars, NEW c \in Closes
    PROVE  CloseMoves(c)
<1> USE Kinds
<1>0. /\ c \in Calls /\ c \notin Transfers /\ c \notin Requests /\ c \notin Pushes
      /\ call[c].pc \notin {"opening", "data", "cutting", "tidy"}
      /\ call \in [Calls -> CallStates] /\ transport \in Conns \cup {None}
      /\ session \in Conns \cup {None} /\ call[c].conn \in Conns \cup {None}
      /\ closing \in [Closes -> [awaited : SUBSET Transfers, saw : SUBSET Conns]]
  BY Types DEF Cover, CallStates
<1>1. ASSUME NEW d \in Calls, Aside(d), d # c PROVE CloseMoves(c)
  <2>1. call'[c] = call[c]
    BY <1>0, <1>1, AsideSteps
  <2>2. closing'[c] = closing[c]
    BY <1>0, <1>1 DEF Aside, BeginRequest, BeginTransfer, BeginClose, openDataChannel, DataDone,
       DataFailed, CutShort, removeIncompleteUpload, TakeSession, EndSession, AwaitPending,
       CloseTransport, CloseReturns
  <2> QED
    BY <2>1, <2>2 DEF CloseMoves
<1>2. ASSUME Aside(c) PROVE CloseMoves(c)
  <2>1. {"closing", "sessionId", "queued"} \subseteq Places /\ "end" \in StepNames
    BY DEF Places, StepNames
  <2>2. ~BeginRequest(c) /\ ~BeginTransfer(c) /\ ~openDataChannel(c) /\ ~DataDone(c) /\ ~DataFailed(c)
        /\ ~CutShort(c) /\ ~removeIncompleteUpload(c)
    BY <1>0 DEF BeginRequest, BeginTransfer, openDataChannel, DataDone, DataFailed, CutShort,
                removeIncompleteUpload, At
  <2>3. CASE TakeSession(c)
    BY <1>0, <2>1, <2>3, GotoMoves, GotoWithMoves DEF TakeSession, CloseMoves
  <2>4. CASE EndSession(c)
    BY <1>0, <2>1, <2>4, GotoMoves, EnqueueMoves DEF EndSession, CloseMoves
  <2> QED
    BY <1>2, <2>2, <2>3, <2>4 DEF Aside, CloseMoves
<1>3. ASSUME NEW d \in Calls, getTransport(d) PROVE CloseMoves(c)
  <2>1. {"acquired", "connecting"} \subseteq Places
    BY DEF Places
  <2> QED
    BY <1>0, <1>3, <2>1, GotoMoves, GotoWithMoves DEF getTransport, CloseMoves, InTurn
<1>4. CASE TransportConnected \/ TransportFailed
  <2>1. closing' = closing
    BY <1>4 DEF TransportConnected, TransportFailed
  <2> QED
    BY <1>0, <1>4, <2>1, PendingMoves DEF CloseMoves, InTurn
<1>5. ASSUME NEW d \in Calls, ensureSessionOn(d) \/ exchange(d) PROVE CloseMoves(c)
  <2>1. /\ call[d].pc \in {"acquired", "sending"} /\ closing' = closing
        /\ call[d].conn \in Conns
    BY <1>5 DEF ensureSessionOn, exchange, At, Turns, OnConn
  <2>2. /\ call[d].step \in StepNames /\ call[d].step # "data"
        /\ call[d].sid \in Conns \cup {None} /\ {"creating", "reply"} \subseteq Places
    BY <1>0, <2>1 DEF CallStates, Turns, Places
  <2>3. ASSUME NEW step \in {"create"} \cup StepNames, step # "data", NEW sid \in Conns \cup {None},
               NEW pc \in {"creating", "reply"}, SendAndAwait(d, step, sid, pc)
        PROVE  CloseMoves(c)
    BY <1>0, <2>1, <2>2, <2>3, SendMoves, SMTT(30) DEF CloseMoves, InTurn
  <2>4. CASE call' = [call EXCEPT ![d].pc = IF sessionId[call[d].conn] = "ready"
                                           THEN "sending" ELSE "failing", ![d].sid = session]
    <3>1. call'[c] = call[c] \/ call'[c].pc \in {"sending", "failing"}
      BY <1>0, <2>4 DEF CallStates
    <3> QED
      BY <2>1, <3>1 DEF CloseMoves, InTurn
  <2> QED
    BY <1>5, <2>2, <2>3, <2>4 DEF ensureSessionOn, exchange
<1>6. ASSUME NEW m \in requests, Apply(m) PROVE CloseMoves(c)
  BY <1>6 DEF Apply, CloseMoves
<1>7. ASSUME NEW W, FailWaiters(W), closing' = closing PROVE CloseMoves(c)
  BY <1>0, <1>7, FailWaitersLeaves DEF CloseMoves, InTurn
<1>8. ASSUME NEW d \in Calls, NEW ok \in BOOLEAN, Goto(d, Resume(d, ok)), closing' = closing
      PROVE  CloseMoves(c)
  <2>1. Resume(d, ok) \in Places /\ (d \in Closes => Resume(d, ok) = "closing")
    BY ResumePlaces DEF Places
  <2> QED
    BY <1>0, <1>8, <2>1, GotoMoves DEF CloseMoves
<1>9. ASSUME NEW m \in requests, NEW ok \in BOOLEAN, Reply(m, ok) PROVE CloseMoves(c)
  <2>1. closing' = closing
    BY <1>9 DEF Reply
  <2>2. \/ call' = call
        \/ \E d \in Calls :
             \/ call' = [call EXCEPT ![d].pc = "sending", ![d].sid = m.conn]
             \/ FailWaiters({d})
             \/ Goto(d, Resume(d, ok))
    BY <1>9 DEF Reply, WaitersOn
  <2>3. ASSUME NEW d \in Calls, call' = [call EXCEPT ![d].pc = "sending", ![d].sid = m.conn]
        PROVE  CloseMoves(c)
    <3>1. call'[c] = call[c] \/ call'[c].pc = "sending"
      BY <1>0, <2>3 DEF CallStates
    <3> QED
      BY <2>1, <3>1 DEF CloseMoves, InTurn
  <2>4. call' = call => CloseMoves(c)
    BY <2>1 DEF CloseMoves
  <2> QED
    BY <1>7, <1>8, <2>1, <2>2, <2>3, <2>4
<1>10. ASSUME NEW d \in Calls, Timeout(d) \/ Dropped(d) PROVE CloseMoves(c)
  BY <1>7, <1>8, <1>10 DEF Timeout, Dropped
<1>11. ASSUME NEW d \in Calls, CatchFailure(d) PROVE CloseMoves(c)
  <2>1. "dropping" \in Places /\ GotoWith(d, "dropping", transport) /\ closing' = closing
    BY <1>11 DEF Places, CatchFailure, dropTransport
  <2> QED
    BY <1>0, <2>1, GotoWithMoves DEF CloseMoves, InTurn
<1>12. ASSUME NEW k \in Conns, PeerEnds(k) \/ SocketClosed(k) PROVE CloseMoves(c)
  BY <1>7, <1>12 DEF PeerEnds, SocketClosed
<1>13. CASE UNCHANGED vars
  BY <1>13 DEF vars, CloseMoves
<1> QED
  BY <1>1, <1>2, <1>3, <1>4, <1>5, <1>6, <1>9, <1>10, <1>11, <1>12, <1>13
  DEF Next, Begin, Progress, Aside

\* What is live is in use, when nothing is being opened, or is being opened.
LEMMA LiveOnes ==
    ASSUME Connections, NEW k \in Live
    PROVE  /\ k \in Conns /\ conn[k] \in {"connecting", "open"}
           /\ pendingTransport = None => k = transport /\ conn[k] = "open"
           /\ pendingTransport # None => k = pendingTransport
           /\ conn[k] = "open" => k = transport
  BY Kinds DEF Connections, Live, isConnected

\* close() gives up what it was called for.
LEMMA CloseGivesUp ==
    ASSUME CloseInv, NEW c \in Closes, CloseTransport(c)
    PROVE  /\ \A k \in closing[c].saw : k \notin Live'
           /\ call'[c].pc \in {"done", "shutting"} /\ closing' = closing
<1> USE Kinds
<1>0. /\ TypeOK /\ Connections /\ Cover(c) /\ c \in Calls /\ transport \in Conns \cup {None}
      /\ \A k \in closing[c].saw : k \in Conns
  BY Types DEF CloseInv, TypeInv, Covered
<1>1. \A k \in closing[c].saw : k \in Live => k = transport /\ conn[k] = "open"
  <2> SUFFICES ASSUME NEW k \in closing[c].saw, k \in Live PROVE k = transport /\ conn[k] = "open"
    OBVIOUS
  <2>1. CASE At(c, "closing") /\ pendingTransport = None
    BY <1>0, <2>1, LiveOnes
  <2>2. CASE At(c, "pending") /\ conn[call[c].conn] # "connecting"
    <3>1. k = call[c].conn
      BY <1>0, <2>2 DEF Cover
    <3> QED
      BY <1>0, <2>2, <3>1, LiveOnes
  <2> QED
    BY <2>1, <2>2 DEF CloseTransport
<1>2. {"done", "shutting"} \subseteq Places
  BY DEF Places
<1>3. CASE transport = None /\ Goto(c, "done") /\ UNCHANGED <<service, invokeQueue>>
  <2>1. conn' = conn /\ \A k \in closing[c].saw : k \notin Live
    BY <1>0, <1>1, <1>3 DEF service
  <2> QED
    BY <1>0, <1>2, <1>3, <2>1, GotoMoves DEF CloseTransport, Live
<1>4. CASE dropTransport(c, "shutting")
  <2>1. Shutdown /\ GotoWith(c, "shutting", transport)
    BY <1>4 DEF dropTransport
  <2>2. \A k \in closing[c].saw : conn'[k] \notin {"connecting", "open"}
    BY <1>0, <1>1, <2>1, ShutdownLeaves DEF Live
  <2> QED
    BY <1>0, <1>2, <2>1, <2>2, GotoWithMoves DEF CloseTransport, Live
<1> QED
  BY <1>3, <1>4 DEF CloseTransport

LEMMA CoveredStep ==
    ASSUME CloseInv, [Next]_vars
    PROVE  Covered'
<1> USE Kinds
<1>0. TypeOK /\ Turns /\ Connections /\ \A d \in Closes : Cover(d)
  BY DEF CloseInv, TypeInv, Covered
<1> SUFFICES ASSUME NEW c \in Closes PROVE Cover(c)'
  BY DEF Covered
<1>1. CloseMoves(c) /\ c \in Calls
  BY <1>0, CloseSteps
<1>2. \A k \in closing[c].saw : k \in Conns /\ conn[k] # "unused" /\ conn'[k] # "unused"
                               /\ (k \notin Live => k \notin Live')
  BY <1>0, Types, NoRevival DEF Cover
<1>3. CASE call'[c] = call[c] /\ closing'[c] = closing[c]
  BY <1>0, <1>2, <1>3 DEF Cover, At
<1>4. CASE /\ call'[c].pc \in InTurn \cup {"queued", "sessionId", "closing"}
           /\ closing'[c] = closing[c]
  BY <1>2, <1>4 DEF Cover, At, InTurn
<1>5. CASE BeginClose(c)
  <2>1. "settling" \in Places /\ closing \in [Closes -> [awaited : SUBSET Transfers, saw : SUBSET Conns]]
    BY <1>0, Types DEF Places
  <2>2. closing'[c].saw = Live /\ conn' = conn
    BY <1>5, <2>1 DEF BeginClose, service
  <2>3. call'[c].pc = "settling"
    BY <1>0, <1>1, <1>5, <2>1, GotoMoves DEF BeginClose
  <2> QED
    BY <2>2, <2>3 DEF Cover, At, Live
<1>6. CASE AwaitPending(c)
  <2>1. "pending" \in Places /\ pendingTransport \in Conns \cup {None}
    BY <1>0, Types DEF Places
  <2>2. /\ call'[c].pc = "pending" /\ call'[c].conn = pendingTransport /\ pendingTransport # None
        /\ closing' = closing /\ conn' = conn
    BY <1>0, <1>1, <1>6, <2>1, GotoWithMoves DEF AwaitPending, service
  <2>3. \A k \in Live : k = pendingTransport
    BY <1>0, <2>2, LiveOnes
  <2> QED
    BY <1>2, <2>2, <2>3 DEF Cover, At, Live
<1>7. CASE CloseTransport(c)
  BY <1>2, <1>7, CloseGivesUp DEF Cover, At
<1>8. CASE CloseReturns(c)
  <2>1. "done" \in Places
    BY DEF Places
  <2>2. call'[c].pc = "done" /\ closing' = closing
    BY <1>0, <1>1, <1>8, <2>1, GotoMoves DEF CloseReturns
  <2> QED
    BY <1>2, <2>2 DEF Cover, At
<1> QED
  BY <1>1, <1>3, <1>4, <1>5, <1>6, <1>7, <1>8 DEF CloseMoves

\* When close() returns, no connection is left of those that were open or being
\* opened when it was called.
THEOREM CloseCoversSafe == Spec => CloseCovers
<1>1. Init => Covered
  BY Kinds DEF Init, Covered, Cover, Fresh, At
<1>2. CloseInv /\ [Next]_vars => Covered'
  BY CoveredStep
<1>3. ASSUME CloseInv, [Next]_vars
      PROVE  [\A c \in Closes : ~At(c, "done") /\ At(c, "done")' =>
                  \A k \in closing[c].saw : conn'[k] \notin {"connecting", "open"}]_vars
  <2> SUFFICES ASSUME NEW c \in Closes, ~At(c, "done"), At(c, "done")', NEW k \in closing[c].saw
               PROVE  conn'[k] \notin {"connecting", "open"}
    OBVIOUS
  <2>0. TypeOK /\ Turns /\ Connections /\ Cover(c) /\ c \in Calls /\ k \in Conns
        /\ \A d \in Closes : Cover(d)
    BY <1>3, Kinds, Types DEF CloseInv, TypeInv, Covered
  <2>1. CloseMoves(c)
    BY <1>3, <2>0, CloseSteps
  <2>2. CASE CloseTransport(c)
    BY <1>3, <2>0, <2>2, CloseGivesUp DEF Live
  <2>3. CASE CloseReturns(c)
    BY <2>0, <2>3 DEF CloseReturns, service, Cover, Live
  <2>4. "settling" \in Places /\ "pending" \in Places /\ pendingTransport \in Conns \cup {None}
    BY <2>0, Types DEF Places
  <2>5. ~BeginClose(c) /\ ~AwaitPending(c)
    BY <2>0, <2>4, GotoMoves, GotoWithMoves DEF BeginClose, AwaitPending, At
  <2>6. call'[c].pc = "done" /\ call'[c] # call[c]
    BY DEF At
  <2> QED
    BY <2>1, <2>2, <2>3, <2>5, <2>6 DEF CloseMoves, InTurn
<1> QED
  BY <1>1, <1>2, <1>3, ConnectionsInvariant, PTL DEF Spec, CloseInv, CloseCovers
-----------------------------------------------------------------------------
(* No call waits for ever *)

\* Call c can take a step: its guards, as Progress(c) has them.
CanStep(c) ==
    \/ call[c].pc \in {"opening", "creating", "sending", "reply", "failing", "data", "tidy",
                       "closing"}
    \/ /\ At(c, "queued") /\ HasTurn(c)
       /\ isConnected(transport) \/ pendingTransport # None \/ \E k \in Conns : conn[k] = "unused"
    \/ /\ At(c, "acquired")
       /\ call[c].step = "end" \/ session # call[c].conn \/ sessionId[session] # "creating"
    \/ call[c].pc \in {"dropping", "cutting", "shutting"} /\ Closed(c)
    \/ At(c, "settling") /\ \A t \in closing[c].awaited : At(t, "done")
    \/ At(c, "sessionId") /\ sessionId[call[c].conn] # "creating"
    \/ At(c, "pending") /\ conn[call[c].conn] # "connecting"

\* ... or waits for a connection that is being opened or shut down, both of which end
\* by themselves.
Moves(c) ==
    \/ CanStep(c)
    \/ call[c].pc \in {"connecting", "pending"} /\ pendingTransport # None
    \/ /\ call[c].pc \in {"dropping", "cutting", "shutting"}
       /\ \E k \in Conns : k = call[c].conn /\ conn[k] = "ending"

\* ... or for its turn, which a call that moves has.
Advances(c) ==
    \/ Moves(c)
    \/ At(c, "queued") /\ invokeQueue # << >> /\ Moves(Head(invokeQueue))

\* Every call that is made and not done advances, or waits for one that does: a close()
\* for a transfer it aborted, or for the session another call creates.
NobodyStuck ==
    \A c \in Calls : ~At(c, "idle") /\ ~At(c, "done") =>
        \/ Advances(c)
        \/ At(c, "settling") /\ \E t \in closing[c].awaited : ~At(t, "done") /\ Advances(t)
        \/ At(c, "sessionId") /\ \E d \in Calls : At(d, "creating") /\ call[d].conn = call[c].conn

\* The calls that wait for their turn or have it are those in the queue, each once.
InQueue == InTurn \cup {"queued"}
Lined ==
    /\ \A i, j \in 1 .. Len(invokeQueue) : invokeQueue[i] = invokeQueue[j] => i = j
    /\ \A c \in Calls : call[c].pc \in InQueue <=> \E i \in 1 .. Len(invokeQueue) : invokeQueue[i] = c

\* The last request of a call, by its place.
Ordered ==
    \A c \in Calls :
        /\ call[c].pc \in {"idle", "opening"} => call[c].step = "main"
        /\ call[c].pc \in {"data", "cutting"} => call[c].step = "data"
        /\ At(c, "tidy") => c \in Pushes /\ call[c].step \in {"data", "rename"}
        /\ call[c].pc \in {"settling", "sessionId"} => c \in Closes

\* What a call waits for is there: a connection that was opened, is being opened or was
\* given up, and a transfer that was running.
GivingUp == {"dropping", "cutting", "shutting"}
Held ==
    /\ transport # None => conn[transport] \in {"open", "ending", "closed"}
    /\ \A c \in Calls :
        /\ At(c, "connecting") => pendingTransport # None
        /\ call[c].pc \in GivingUp => \/ call[c].conn = None
                                      \/ conn[call[c].conn] \in {"ending", "closed"}
        /\ call[c].pc \in {"sessionId", "pending"} => call[c].conn \in Conns
    /\ \A c \in Closes : \A t \in closing[c].awaited : ~At(t, "idle")

\* A session is being created by somebody.
Created ==
    \A k \in Conns : sessionId[k] = "creating" =>
        \E c \in Calls : At(c, "creating") /\ call[c].conn = k

\* The turns a call may still take, and the connections there are for them.
Further(c) == IF c \notin Pushes THEN 0
              ELSE IF call[c].step \in {"main", "data"} THEN 2
              ELSE IF call[c].step = "rename" THEN 1 ELSE 0
Waiting == {"idle", "opening", "queued", "settling", "sessionId"}
TurnsLeft(c) == (IF call[c].pc \in Waiting THEN 1 ELSE 0) + Further(c)
Left == {p \in Calls \X (1 .. 3) : p[2] <= TurnsLeft(p[1])}
Unused == {k \in Conns : conn[k] = "unused"}
Room == Cardinality(Left) <= Cardinality(Unused)

-----------------------------------------------------------------------------
(* What a step does to the calls *)

\* A call that has its turn goes on with it.
Works(c) ==
    /\ call[c].pc \in InTurn /\ call'[c].pc \in InTurn \ {"connecting"}
    /\ call'[c].step = call[c].step
    /\ call'[c].pc = "dropping" => Shutdown /\ call'[c].conn = transport

\* A call passes its turn on.
Leaves(c) ==
    /\ HasTurn(c) /\ call[c].pc \in {"reply", "dropping"}
    /\ \E ok \in BOOLEAN : Goto(c, Resume(c, ok))
    /\ invokeQueue' = Tail(invokeQueue)
    /\ UNCHANGED <<transport, pendingTransport, conn, closing>>

LEMMA Passage ==
    ASSUME TypeInv, [Next]_vars
    PROVE  \/ \E c \in Calls : Aside(c) \/ getTransport(c) \/ Leaves(c)
           \/ /\ \A c \in Calls : call'[c] = call[c] \/ Works(c)
              /\ invokeQueue' = invokeQueue /\ closing' = closing
<1> USE Kinds
<1> DEFINE Onward == /\ \A c \in Calls : call'[c] = call[c] \/ Works(c)
                     /\ invokeQueue' = invokeQueue /\ closing' = closing
<1>0. TypeOK /\ Turns /\ call \in [Calls -> CallStates] /\ transport \in Conns \cup {None}
      /\ session \in Conns \cup {None}
  BY Types DEF TypeInv
<1>1. CASE TransportConnected \/ TransportFailed
  <2>1. invokeQueue' = invokeQueue /\ closing' = closing
    BY <1>1 DEF TransportConnected, TransportFailed
  <2>2. ASSUME NEW c \in Calls PROVE call'[c] = call[c] \/ Works(c)
    BY <1>0, <1>1, PendingMoves DEF Works, InTurn, At
  <2> QED
    BY <2>1, <2>2
<1>2. ASSUME NEW c \in Calls, call[c].pc \in InTurn, NEW pc \in InTurn \ {"connecting", "dropping"},
             call'[c].pc = pc, call'[c].step = call[c].step,
             \A d \in Calls : d # c => call'[d] = call[d],
             invokeQueue' = invokeQueue, closing' = closing
      PROVE  Onward
  BY <1>2 DEF Works
<1>3. ASSUME NEW c \in Calls, call[c].pc \in {"acquired", "sending"},
             NEW step \in {"create"} \cup StepNames, step # "data",
             NEW sid \in Conns \cup {None}, NEW pc \in {"creating", "reply"},
             SendAndAwait(c, step, sid, pc), invokeQueue' = invokeQueue, closing' = closing
      PROVE  Onward
  <2>1. call[c].conn \in Conns /\ call[c].pc \in InTurn
    BY <1>0, <1>3 DEF Turns, OnConn, InTurn
  <2>2. {"creating", "reply", "failing"} \subseteq Places \cap (InTurn \ {"connecting", "dropping"})
    BY DEF Places, InTurn
  <2>3. /\ call'[c].pc \in {pc, "failing"} /\ call'[c].step = call[c].step
        /\ \A d \in Calls : d # c => call'[d] = call[d]
    BY <1>0, <1>3, <2>1, <2>2, SendMoves
  <2> QED
    BY <1>2, <1>3, <2>1, <2>2, <2>3
<1>4. ASSUME NEW c \in Calls, call[c].pc \in InTurn, NEW pc \in {"sending", "failing"},
             NEW k \in Conns \cup {None}, call' = [call EXCEPT ![c].pc = pc, ![c].sid = k],
             invokeQueue' = invokeQueue, closing' = closing
      PROVE  Onward
  <2>1. pc \in Places /\ pc \in InTurn \ {"connecting", "dropping"}
    BY DEF Places, InTurn
  <2>2. /\ call'[c].pc = pc /\ call'[c].step = call[c].step
        /\ \A d \in Calls : d # c => call'[d] = call[d]
    BY <1>0, <1>4, <2>1, SessionMoves
  <2> QED
    BY <1>2, <1>4, <2>1, <2>2
<1>5. ASSUME NEW c \in Calls, ensureSessionOn(c) PROVE Onward
  <2>1. call[c].pc = "acquired" /\ invokeQueue' = invokeQueue /\ closing' = closing
    BY <1>5 DEF ensureSessionOn, At
  <2>2. CASE SendAndAwait(c, "create", None, "creating")
    BY <1>3, <2>1, <2>2 DEF StepNames
  <2>3. CASE call' = [call EXCEPT ![c].pc = IF sessionId[call[c].conn] = "ready"
                                           THEN "sending" ELSE "failing", ![c].sid = session]
    <3> DEFINE pc == IF sessionId[call[c].conn] = "ready" THEN "sending" ELSE "failing"
    <3>1. pc \in {"sending", "failing"} /\ call' = [call EXCEPT ![c].pc = pc, ![c].sid = session]
      BY <2>3
    <3> HIDE DEF pc
    <3>2. call[c].pc \in InTurn
      BY <2>1 DEF InTurn
    <3> QED
      BY <1>0, <1>4, <2>1, <3>1, <3>2
  <2> QED
    BY <1>5, <2>2, <2>3 DEF ensureSessionOn
<1>6. ASSUME NEW c \in Calls, exchange(c) PROVE Onward
  <2>1. call[c].pc \in {"acquired", "sending"} /\ invokeQueue' = invokeQueue /\ closing' = closing
        /\ SendAndAwait(c, call[c].step, call[c].sid, "reply")
    BY <1>6 DEF exchange, At
  <2>2. call[c].step \in StepNames /\ call[c].step # "data" /\ call[c].sid \in Conns \cup {None}
    BY <1>0, <2>1 DEF CallStates, Turns
  <2> QED
    BY <1>3, <2>1, <2>2
<1>7. ASSUME NEW W, \A c \in W : c \in Calls /\ Awaiting(c), FailWaiters(W),
             invokeQueue' = invokeQueue, closing' = closing
      PROVE  Onward
  <2> SUFFICES ASSUME NEW c \in Calls PROVE call'[c] = call[c] \/ Works(c)
    BY <1>7
  <2>1. /\ c \notin W => call'[c] = call[c]
        /\ c \in W => call'[c].pc = "failing" /\ call'[c].step = call[c].step
    BY <1>0, <1>7, FailWaitersLeaves
  <2> QED
    BY <1>7, <2>1 DEF Works, Awaiting, InTurn
<1>8. ASSUME NEW m \in requests, NEW ok \in BOOLEAN, Reply(m, ok)
      PROVE  Onward \/ \E c \in Calls : Leaves(c)
  <2>1. closing' = closing /\ UNCHANGED <<transport, pendingTransport, conn>>
        /\ m.conn \in Conns
    BY <1>0, <1>8, Types DEF Reply, Messages
  <2>2. \/ call' = call /\ invokeQueue' = invokeQueue
        \/ \E c \in Calls :
             \/ /\ At(c, "creating") /\ invokeQueue' = invokeQueue
                /\ \/ call' = [call EXCEPT ![c].pc = "sending", ![c].sid = m.conn]
                   \/ FailWaiters({c})
             \/ /\ At(c, "reply") /\ Goto(c, Resume(c, ok)) /\ invokeQueue' = Tail(invokeQueue)
    BY <1>8 DEF Reply, WaitersOn
  <2>3. CASE call' = call /\ invokeQueue' = invokeQueue
    BY <2>1, <2>3
  <2>4. ASSUME NEW c \in Calls, At(c, "creating"), invokeQueue' = invokeQueue,
               call' = [call EXCEPT ![c].pc = "sending", ![c].sid = m.conn]
        PROVE  Onward
    <3>1. call[c].pc \in InTurn
      BY <2>4 DEF At, InTurn
    <3> QED
      BY <1>4, <2>1, <2>4, <3>1
  <2>5. ASSUME NEW c \in Calls, At(c, "creating"), invokeQueue' = invokeQueue, FailWaiters({c})
        PROVE  Onward
    <3>1. \A d \in {c} : d \in Calls /\ Awaiting(d)
      BY <2>5 DEF Awaiting, At
    <3> QED
      BY <1>7, <2>1, <2>5, <3>1
  <2>6. ASSUME NEW c \in Calls, At(c, "reply"), Goto(c, Resume(c, ok)),
               invokeQueue' = Tail(invokeQueue)
        PROVE  Leaves(c)
    BY <1>0, <2>1, <2>6 DEF Leaves, At, Turns, InTurn
  <2> QED
    BY <2>2, <2>3, <2>4, <2>5, <2>6
<1>9. ASSUME NEW c \in Calls, Timeout(c) PROVE Onward
  <2>1. \A d \in {c} : d \in Calls /\ Awaiting(d)
    BY <1>9 DEF Timeout
  <2> QED
    BY <1>7, <1>9, <2>1 DEF Timeout
<1>10. ASSUME NEW k \in Conns, PeerEnds(k) \/ SocketClosed(k) PROVE Onward
  <2>1. \A d \in WaitersOn(k) : d \in Calls /\ Awaiting(d)
    BY DEF WaitersOn
  <2> QED
    BY <1>7, <1>10, <2>1 DEF PeerEnds, SocketClosed
<1>11. ASSUME NEW c \in Calls, CatchFailure(c) PROVE Onward
  <2>1. /\ call[c].pc = "failing" /\ "dropping" \in Places /\ Shutdown
        /\ GotoWith(c, "dropping", transport) /\ invokeQueue' = invokeQueue /\ closing' = closing
    BY <1>11 DEF CatchFailure, dropTransport, At, Places
  <2>2. /\ call'[c].pc = "dropping" /\ call'[c].conn = transport /\ call'[c].step = call[c].step
        /\ \A d \in Calls : d # c => call'[d] = call[d]
    BY <1>0, <2>1, GotoWithMoves
  <2> QED
    BY <2>1, <2>2 DEF Works, InTurn
<1>12. ASSUME NEW c \in Calls, Dropped(c) PROVE Leaves(c)
  BY <1>0, <1>12 DEF Dropped, Leaves, At, Turns, InTurn, service
<1>13. ASSUME NEW m \in requests, Apply(m) PROVE Onward
  BY <1>13 DEF Apply
<1>14. CASE UNCHANGED vars
  BY <1>14 DEF vars
<1> HIDE DEF Onward
<1>15. Onward => /\ \A c \in Calls : call'[c] = call[c] \/ Works(c)
                 /\ invokeQueue' = invokeQueue /\ closing' = closing
  BY DEF Onward
<1>16. \/ \E c \in Calls : Aside(c) \/ getTransport(c) \/ Leaves(c)
       \/ Onward
  BY <1>1, <1>5, <1>6, <1>8, <1>9, <1>10, <1>11, <1>12, <1>13, <1>14
     DEF Next, Begin, Progress, Aside, Onward
<1> QED
  BY <1>15, <1>16

\* What a step without the turn does to the call that takes it, which joins the queue
\* or stays out of it.
Joins(c) ==
    /\ call'[c].pc = "queued" /\ invokeQueue' = Append(invokeQueue, c)
    /\ \/ call[c].pc \in {"idle", "opening"} /\ call'[c].step = "main"
       \/ At(c, "data") /\ c \in Pushes /\ call'[c].step = "rename"
       \/ At(c, "tidy") /\ call'[c].step = "cleanup"
       \/ At(c, "sessionId") /\ call'[c].step = "end"
Strolls(c) ==
    /\ invokeQueue' = invokeQueue /\ call'[c].step = call[c].step
    /\ \/ At(c, "idle") /\ call'[c].pc = "opening"
       \/ At(c, "idle") /\ call'[c].pc = "settling" /\ c \in Closes
       \/ At(c, "data") /\ call'[c].pc = "cutting"
       \/ At(c, "cutting") /\ call'[c].pc = "tidy" /\ c \in Pushes
       \/ At(c, "settling") /\ call'[c].pc = "sessionId" /\ c \in Closes
       \/ call[c].pc \notin InQueue /\ call'[c].pc \in {"closing", "pending", "shutting", "done"}
    /\ call'[c].pc \in GivingUp => Shutdown /\ call'[c].conn = transport
    /\ call'[c].pc \in {"sessionId", "pending"} => call'[c].conn \in Conns

LEMMA AsidePath ==
    ASSUME TypeOK, NEW c \in Calls, Aside(c)
    PROVE  Joins(c) \/ Strolls(c)
<1> USE Kinds
<1>0. /\ {"opening", "settling", "cutting", "tidy", "sessionId", "closing", "pending", "shutting",
          "done"} \subseteq Places
      /\ {"main", "rename", "cleanup", "end"} \subseteq StepNames
      /\ transport \in Conns \cup {None} /\ pendingTransport \in Conns \cup {None}
      /\ session \in Conns \cup {None} /\ call[c].conn \in Conns \cup {None}
  BY Types DEF Places, StepNames, CallStates
<1>1. ASSUME NEW step \in {"main", "rename", "cleanup", "end"}, NEW sid \in Conns \cup {None},
             enqueueInvocation(c, step, sid)
      PROVE  /\ call'[c].pc = "queued" /\ call'[c].step = step
             /\ invokeQueue' = Append(invokeQueue, c)
  BY <1>0, <1>1, EnqueueMoves DEF enqueueInvocation
<1>2. ASSUME NEW pc \in {"opening", "settling", "tidy", "closing", "done"}, Goto(c, pc)
      PROVE  call'[c].pc = pc /\ call'[c].step = call[c].step
  BY <1>0, <1>2, GotoMoves
<1>3. ASSUME NEW pc \in {"sessionId", "pending"}, NEW k \in Conns \cup {None}, GotoWith(c, pc, k)
      PROVE  call'[c].pc = pc /\ call'[c].step = call[c].step /\ call'[c].conn = k
  BY <1>0, <1>3, GotoWithMoves
<1>4. ASSUME NEW pc \in {"cutting", "shutting"}, dropTransport(c, pc)
      PROVE  /\ call'[c].pc = pc /\ call'[c].step = call[c].step
             /\ Shutdown /\ call'[c].conn = transport /\ invokeQueue' = invokeQueue
  BY <1>0, <1>4, GotoWithMoves DEF dropTransport
<1>5. CASE BeginRequest(c)
  BY <1>1, <1>5 DEF BeginRequest, Joins, At
<1>6. CASE BeginTransfer(c) \/ BeginClose(c)
  <2>1. At(c, "idle") /\ invokeQueue' = invokeQueue
    BY <1>6 DEF BeginTransfer, BeginClose
  <2>2. CASE BeginTransfer(c)
    BY <1>2, <2>1, <2>2 DEF BeginTransfer, Strolls, GivingUp
  <2>3. CASE BeginClose(c)
    BY <1>2, <2>1, <2>3 DEF BeginClose, Strolls, GivingUp
  <2> QED
    BY <1>6, <2>2, <2>3
<1>7. CASE openDataChannel(c)
  <2>1. CASE enqueueInvocation(c, "main", None)
    BY <1>1, <1>7, <2>1 DEF openDataChannel, Joins, At
  <2>2. CASE Goto(c, "done") /\ UNCHANGED invokeQueue
    BY <1>2, <1>7, <2>2 DEF openDataChannel, Strolls, GivingUp, InQueue, InTurn, At
  <2> QED
    BY <1>7, <2>1, <2>2 DEF openDataChannel
<1>8. CASE DataDone(c)
  <2>1. CASE c \in Pushes /\ enqueueInvocation(c, "rename", None)
    BY <1>1, <1>8, <2>1 DEF DataDone, Joins
  <2>2. CASE Goto(c, "done") /\ UNCHANGED invokeQueue
    BY <1>2, <1>8, <2>2 DEF DataDone, Strolls, GivingUp, InQueue, InTurn, At
  <2> QED
    BY <1>8, <2>1, <2>2 DEF DataDone
<1>9. CASE DataFailed(c)
  BY <1>4, <1>9 DEF DataFailed, Strolls
<1>10. CASE CutShort(c)
  <2>1. At(c, "cutting") /\ invokeQueue' = invokeQueue
    BY <1>10 DEF CutShort
  <2>2. CASE c \in Pushes /\ Goto(c, "tidy")
    BY <1>2, <2>1, <2>2 DEF Strolls, GivingUp
  <2>3. CASE Goto(c, "done")
    BY <1>2, <2>1, <2>3 DEF Strolls, GivingUp, InQueue, InTurn, At
  <2> QED
    BY <1>10, <2>2, <2>3 DEF CutShort
<1>11. CASE removeIncompleteUpload(c)
  BY <1>1, <1>11 DEF removeIncompleteUpload, Joins
<1>12. CASE c \in Closes /\ TakeSession(c)
  <2>1. At(c, "settling") /\ invokeQueue' = invokeQueue
    BY <1>12 DEF TakeSession
  <2>2. CASE isConnected(session) /\ GotoWith(c, "sessionId", session)
    BY <1>0, <1>3, <1>12, <2>1, <2>2 DEF Strolls, GivingUp, isConnected
  <2>3. CASE Goto(c, "closing")
    BY <1>2, <2>1, <2>3 DEF Strolls, GivingUp, InQueue, InTurn, At
  <2> QED
    BY <1>12, <2>2, <2>3 DEF TakeSession
<1>13. CASE EndSession(c)
  <2>1. CASE enqueueInvocation(c, "end", call[c].conn)
    BY <1>0, <1>1, <1>13, <2>1 DEF EndSession, Joins
  <2>2. CASE Goto(c, "closing") /\ UNCHANGED invokeQueue
    BY <1>2, <1>13, <2>2 DEF EndSession, Strolls, GivingUp, InQueue, InTurn, At
  <2> QED
    BY <1>13, <2>1, <2>2 DEF EndSession
<1>14. CASE AwaitPending(c)
  BY <1>0, <1>3, <1>14 DEF AwaitPending, Strolls, GivingUp, InQueue, InTurn, At
<1>15. CASE CloseTransport(c)
  <2>1. call[c].pc \notin InQueue
    BY <1>15 DEF CloseTransport, At, InQueue, InTurn
  <2>2. CASE Goto(c, "done") /\ UNCHANGED <<service, invokeQueue>>
    BY <1>2, <2>1, <2>2 DEF Strolls, GivingUp
  <2>3. CASE dropTransport(c, "shutting")
    BY <1>4, <2>1, <2>3 DEF Strolls
  <2> QED
    BY <1>15, <2>2, <2>3 DEF CloseTransport
<1>16. CASE CloseReturns(c)
  BY <1>2, <1>16 DEF CloseReturns, Strolls, GivingUp, InQueue, InTurn, At
<1> QED
  BY <1>5, <1>6, <1>7, <1>8, <1>9, <1>10, <1>11, <1>12, <1>13, <1>14, <1>15, <1>16 DEF Aside

\* What a step with the turn does to the call that takes or leaves it.
LEMMA TurnPath ==
    ASSUME TypeInv, NEW c \in Calls
    PROVE  /\ getTransport(c) =>
                /\ At(c, "queued") /\ call'[c].pc \in {"acquired", "connecting"}
                /\ call'[c].step = call[c].step /\ invokeQueue' = invokeQueue
                /\ call'[c].pc = "connecting" => pendingTransport' # None
                /\ \A d \in Calls : d # c => call'[d] = call[d]
           /\ Leaves(c) =>
                /\ HasTurn(c) /\ call[c].pc \in InTurn /\ invokeQueue' = Tail(invokeQueue)
                /\ call'[c].pc \in {"closing", "data", "tidy", "done"}
                /\ call'[c].step = IF call'[c].pc = "data" THEN "data" ELSE call[c].step
                /\ call'[c].pc = "data" => call[c].step = "main"
                /\ call'[c].pc = "tidy" => c \in Pushes /\ call[c].step = "rename"
                /\ \A d \in Calls : d # c => call'[d] = call[d]
<1> USE Kinds
<1>0. TypeOK /\ transport \in Conns \cup {None} /\ {"acquired", "connecting"} \subseteq Places
      /\ {"closing", "data", "tidy", "done"} \subseteq Places
  BY Types DEF TypeInv, Places
<1>1. ASSUME getTransport(c)
      PROVE  /\ At(c, "queued") /\ call'[c].pc \in {"acquired", "connecting"}
             /\ call'[c].step = call[c].step /\ invokeQueue' = invokeQueue
             /\ call'[c].pc = "connecting" => pendingTransport' # None
             /\ \A d \in Calls : d # c => call'[d] = call[d]
  <2>1. At(c, "queued") /\ invokeQueue' = invokeQueue
    BY <1>1 DEF getTransport
  <2>2. CASE GotoWith(c, "acquired", transport)
    BY <1>0, <2>1, <2>2, GotoWithMoves
  <2>3. CASE Goto(c, "connecting") /\ pendingTransport' # None
    BY <1>0, <2>1, <2>3, GotoMoves
  <2> QED
    BY <1>1, <2>2, <2>3 DEF getTransport
<1>2. ASSUME NEW ok \in BOOLEAN, Goto(c, Resume(c, ok))
      PROVE  /\ call'[c].pc = Resume(c, ok) /\ call'[c].pc \in {"closing", "data", "tidy", "done"}
             /\ call'[c].step = IF call'[c].pc = "data" THEN "data" ELSE call[c].step
             /\ \A d \in Calls : d # c => call'[d] = call[d]
  BY <1>0, <1>2, GotoMoves, ResumePlaces
<1>3. ASSUME NEW ok \in BOOLEAN
      PROVE  /\ Resume(c, ok) = "data" => call[c].step = "main"
             /\ Resume(c, ok) = "tidy" => c \in Pushes /\ call[c].step = "rename"
  <2>1. CASE c \in Pushes /\ call[c].step = "rename" /\ ~ok
    BY <2>1, ResumePlaces
  <2>2. CASE ~(c \in Pushes /\ call[c].step = "rename" /\ ~ok)
    <3>1. Resume(c, ok) # "tidy"
      BY <2>2 DEF Resume
    <3> QED
      BY <3>1, ResumePlaces
  <2> QED
    BY <2>1, <2>2
<1> QED
  BY <1>1, <1>2, <1>3 DEF Leaves, InTurn

LEMMA CallPath ==
    ASSUME TypeInv, [Next]_vars, NEW c \in Calls
    PROVE  \/ call'[c] = call[c]
           \/ Works(c) \/ Joins(c) \/ Strolls(c) \/ getTransport(c) \/ Leaves(c)
<1>1. TypeOK
  BY DEF TypeInv
<1>2. ASSUME NEW d \in Calls, Aside(d) \/ getTransport(d) \/ Leaves(d), d # c
      PROVE  call'[c] = call[c]
  BY <1>1, <1>2, AsideSteps, TurnPath
<1>3. Aside(c) => Joins(c) \/ Strolls(c)
  BY <1>1, AsidePath
<1> QED
  BY <1>2, <1>3, Passage

\* The queue
Once(q) == \A i, j \in 1 .. Len(q) : q[i] = q[j] => i = j
IsIn(x, q) == \E i \in 1 .. Len(q) : q[i] = x

LEMMA Appended ==
    ASSUME NEW S, NEW q \in Seq(S), NEW e \in S, Once(q), ~IsIn(e, q)
    PROVE  /\ Once(Append(q, e))
           /\ \A x : IsIn(x, Append(q, e)) <=> IsIn(x, q) \/ x = e
<1>1. /\ Len(q) \in Nat /\ Len(Append(q, e)) = Len(q) + 1
      /\ \A i \in 1 .. Len(q) : Append(q, e)[i] = q[i]
      /\ Append(q, e)[Len(q) + 1] = e
  BY AppendProperties
<1>2. 1 .. Len(q) + 1 = (1 .. Len(q)) \cup {Len(q) + 1} /\ Len(q) + 1 \notin 1 .. Len(q)
  BY <1>1
<1>3. Once(Append(q, e))
  BY <1>1, <1>2 DEF Once, IsIn
<1>4. \A x : IsIn(x, Append(q, e)) <=> IsIn(x, q) \/ x = e
  BY <1>1, <1>2 DEF IsIn
<1> QED
  BY <1>3, <1>4

LEMMA Tailed ==
    ASSUME NEW S, NEW q \in Seq(S), q # << >>, Once(q)
    PROVE  /\ Once(Tail(q))
           /\ \A x : IsIn(x, Tail(q)) <=> IsIn(x, q) /\ x # Head(q)
           /\ IsIn(Head(q), q)
<1>1. /\ Len(q) \in Nat \ {0} /\ Len(Tail(q)) = Len(q) - 1 /\ Head(q) = q[1]
      /\ \A i \in 1 .. Len(q) - 1 : Tail(q)[i] = q[i + 1]
  BY HeadTailProperties, EmptySeq
<1>2. ASSUME NEW i \in 1 .. Len(q) - 1 PROVE i + 1 \in 1 .. Len(q) /\ i + 1 # 1 /\ i \in Nat
  BY <1>1
<1>3. Once(Tail(q))
  <2> SUFFICES ASSUME NEW i \in 1 .. Len(q) - 1, NEW j \in 1 .. Len(q) - 1,
                      Tail(q)[i] = Tail(q)[j]
               PROVE  i = j
    BY <1>1 DEF Once
  <2>1. i + 1 = j + 1
    BY <1>1, <1>2 DEF Once
  <2> QED
    BY <1>2, <2>1
<1>4. ASSUME NEW x, IsIn(x, Tail(q)) PROVE IsIn(x, q) /\ x # Head(q)
  <2>1. PICK i \in 1 .. Len(q) - 1 : Tail(q)[i] = x
    BY <1>1, <1>4 DEF IsIn
  <2>2. q[i + 1] = x /\ i + 1 \in 1 .. Len(q) /\ i + 1 # 1 /\ 1 \in 1 .. Len(q)
    BY <1>1, <1>2, <2>1
  <2> QED
    BY <1>1, <2>2 DEF IsIn, Once
<1>5. ASSUME NEW x, IsIn(x, q), x # Head(q) PROVE IsIn(x, Tail(q))
  <2>1. PICK i \in 1 .. Len(q) : q[i] = x
    BY <1>5 DEF IsIn
  <2>2. i # 1 /\ i - 1 \in 1 .. Len(q) - 1 /\ (i - 1) + 1 = i
    BY <1>1, <1>5, <2>1
  <2>3. Tail(q)[i - 1] = x
    BY <1>1, <2>1, <2>2
  <2> QED
    BY <1>1, <2>2, <2>3 DEF IsIn
<1>6. IsIn(Head(q), q)
  BY <1>1 DEF IsIn
<1> QED
  BY <1>3, <1>4, <1>5, <1>6

LEMMA LinedStep ==
    ASSUME TypeInv, Lined, [Next]_vars
    PROVE  Lined'
<1>0. /\ TypeOK /\ invokeQueue \in Seq(Calls) /\ Once(invokeQueue)
      /\ \A c \in Calls : call[c].pc \in InQueue <=> IsIn(c, invokeQueue)
  BY Types DEF TypeInv, Lined, Once, IsIn
<1>1. SUFFICES /\ Once(invokeQueue')
               /\ \A c \in Calls : call'[c].pc \in InQueue <=> IsIn(c, invokeQueue')
  BY DEF Lined, Once, IsIn
<1>2. ASSUME \A c \in Calls : call'[c].pc \in InQueue <=> call[c].pc \in InQueue,
             invokeQueue' = invokeQueue
      PROVE  /\ Once(invokeQueue')
             /\ \A c \in Calls : call'[c].pc \in InQueue <=> IsIn(c, invokeQueue')
  BY <1>0, <1>2
<1>3. CASE /\ \A c \in Calls : call'[c] = call[c] \/ Works(c)
           /\ invokeQueue' = invokeQueue
  BY <1>2, <1>3 DEF Works, InQueue
<1>4. ASSUME NEW c \in Calls, getTransport(c)
      PROVE  /\ Once(invokeQueue')
             /\ \A d \in Calls : call'[d].pc \in InQueue <=> IsIn(d, invokeQueue')
  BY <1>2, <1>4, TurnPath DEF InQueue, InTurn, At
<1>5. ASSUME NEW c \in Calls, Aside(c)
      PROVE  /\ Once(invokeQueue')
             /\ \A d \in Calls : call'[d].pc \in InQueue <=> IsIn(d, invokeQueue')
  <2>1. \A d \in Calls : d # c => call'[d] = call[d]
    BY <1>0, <1>5, AsideSteps
  <2>2. CASE Strolls(c)
    BY <1>2, <2>1, <2>2 DEF Strolls, InQueue, InTurn, At
  <2>3. CASE Joins(c)
    <3>1. ~IsIn(c, invokeQueue) /\ call'[c].pc \in InQueue
      BY <1>0, <2>3 DEF Joins, InQueue, InTurn, At
    <3> QED
      BY <1>0, <2>1, <2>3, <3>1, Appended DEF Joins
  <2> QED
    BY <1>0, <1>5, <2>2, <2>3, AsidePath
<1>6. ASSUME NEW c \in Calls, Leaves(c)
      PROVE  /\ Once(invokeQueue')
             /\ \A d \in Calls : call'[d].pc \in InQueue <=> IsIn(d, invokeQueue')
  <2>1. /\ invokeQueue # << >> /\ c = Head(invokeQueue) /\ invokeQueue' = Tail(invokeQueue)
        /\ call'[c].pc \notin InQueue /\ \A d \in Calls : d # c => call'[d] = call[d]
    BY <1>6, TurnPath DEF HasTurn, InQueue, InTurn
  <2> QED
    BY <1>0, <2>1, Tailed
<1> QED
  BY <1>3, <1>4, <1>5, <1>6, Passage

LEMMA OrderedStep ==
    ASSUME TypeInv, Ordered, [Next]_vars
    PROVE  Ordered'
<1> SUFFICES ASSUME NEW c \in Calls
             PROVE  /\ call'[c].pc \in {"idle", "opening"} => call'[c].step = "main"
                    /\ call'[c].pc \in {"data", "cutting"} => call'[c].step = "data"
                    /\ call'[c].pc = "tidy" => c \in Pushes /\ call'[c].step \in {"data", "rename"}
                    /\ call'[c].pc \in {"settling", "sessionId"} => c \in Closes
  BY DEF Ordered, At
<1>1. CASE call'[c] = call[c]
  BY <1>1 DEF Ordered, At
<1>2. CASE Works(c)
  BY <1>2 DEF Works, InTurn
<1>3. CASE Joins(c)
  BY <1>3 DEF Joins
<1>4. CASE Strolls(c)
  BY <1>4 DEF Strolls, Ordered, At
<1>5. CASE getTransport(c)
  BY <1>5, TurnPath
<1>6. CASE Leaves(c)
  BY <1>6, TurnPath
<1> QED
  BY <1>1, <1>2, <1>3, <1>4, <1>5, <1>6, CallPath

\* A connection goes from being opened to open to closed; only a call that has its turn
\* and finds none opens one.
LEMMA ConnMoves ==
    ASSUME TypeOK, Connections, [Next]_vars, NEW k \in Conns
    PROVE  /\ conn[k] \in {"ending", "closed"} => conn'[k] \in {"ending", "closed"}
           /\ conn[k] = "open" => conn'[k] \in {"open", "ending", "closed"}
           /\ conn[k] = "unused" => \/ conn'[k] = "unused"
                                    \/ \E c \in Calls : /\ getTransport(c)
                                                        /\ conn' = [conn EXCEPT ![k] = "connecting"]
<1>0. /\ conn \in [Conns -> ConnStates] /\ transport \in Conns \cup {None}
      /\ pendingTransport \in Conns \cup {None}
  BY Types
<1>1. ASSUME NEW c \in Calls, getTransport(c)
      PROVE  \/ conn'[k] = conn[k]
             \/ conn[k] = "unused" /\ conn' = [conn EXCEPT ![k] = "connecting"]
  BY <1>0, <1>1 DEF getTransport
<1>2. CASE TransportConnected \/ TransportFailed
  <2>1. /\ conn'[k] = conn[k] \/ (k = pendingTransport /\ conn'[k] \in {"open", "closed"})
        /\ pendingTransport # None
    BY <1>0, <1>2 DEF TransportConnected, TransportFailed
  <2>2. k = pendingTransport => conn[k] = "connecting"
    BY <2>1 DEF Connections
  <2> QED
    BY <2>1, <2>2
<1>3. CASE Shutdown
  BY <1>3, ShutdownLeaves
<1>4. ASSUME NEW j \in Conns, PeerEnds(j) \/ SocketClosed(j)
      PROVE  \/ conn'[k] = conn[k]
             \/ conn[k] \in {"open", "ending"} /\ conn'[k] \in {"ending", "closed"}
  BY <1>0, <1>4 DEF PeerEnds, SocketClosed
<1>5. CASE UNCHANGED <<transport, pendingTransport, conn>>
  BY <1>5
<1> QED
  BY <1>1, <1>2, <1>3, <1>4, <1>5, ConnectionSteps

\* What is being opened is opened or fails.
LEMMA PendingSettles ==
    ASSUME TypeOK, [Next]_vars, pendingTransport # None, pendingTransport' = None
    PROVE  TransportConnected \/ TransportFailed
<1>0. pendingTransport \in Conns \cup {None}
  BY Types
<1>1. ASSUME NEW c \in Calls, getTransport(c) PROVE pendingTransport' # None
  BY <1>1, Kinds DEF getTransport
<1>2. ASSUME NEW k \in Conns, PeerEnds(k) \/ SocketClosed(k) PROVE pendingTransport' # None
  BY <1>2 DEF PeerEnds, SocketClosed
<1> QED
  BY <1>1, <1>2, ConnectionSteps

LEMMA TransportStep ==
    ASSUME TypeOK, Connections, [Next]_vars,
           transport # None => conn[transport] \in {"open", "ending", "closed"}
    PROVE  transport' # None => conn'[transport'] \in {"open", "ending", "closed"}
<1>0. /\ conn \in [Conns -> ConnStates] /\ transport \in Conns \cup {None}
      /\ pendingTransport \in Conns \cup {None}
  BY Types
<1>1. CASE transport' = transport
  <2>1. transport \in Conns => conn'[transport] \in {"open", "ending", "closed"} \/ transport = None
    BY <1>0, ConnMoves
  <2> QED
    BY <1>0, <1>1, <2>1
<1>2. CASE TransportConnected
  BY <1>0, <1>2 DEF TransportConnected
<1>3. CASE Shutdown
  BY <1>3 DEF Shutdown
<1> QED
  BY <1>1, <1>2, <1>3, ConnectionSteps DEF getTransport, TransportFailed, PeerEnds, SocketClosed

\* No call is made twice, and only close() notes whom it awaits.
LEMMA AwaitedStep ==
    ASSUME TypeInv, [Next]_vars, \A c \in Closes : \A t \in closing[c].awaited : ~At(t, "idle")
    PROVE  \A c \in Closes : \A t \in closing'[c].awaited : call'[t].pc # "idle"
<1> USE Kinds
<1>0. /\ TypeOK /\ closing \in [Closes -> [awaited : SUBSET Transfers, saw : SUBSET Conns]]
  BY Types DEF TypeInv
<1>1. ASSUME NEW c \in Calls, ~At(c, "idle") PROVE call'[c].pc # "idle"
  <2>1. getTransport(c) \/ Leaves(c) => call'[c].pc # "idle"
    BY TurnPath
  <2>2. Works(c) \/ Joins(c) \/ Strolls(c) => call'[c].pc # "idle"
    BY DEF Works, Joins, Strolls, InTurn
  <2> QED
    BY <1>1, <2>1, <2>2, CallPath DEF At
<1>2. CASE closing' = closing
  BY <1>0, <1>1, <1>2
<1>3. ASSUME NEW d \in Calls, BeginClose(d)
      PROVE  \A c \in Closes : \A t \in closing'[c].awaited : call'[t].pc # "idle"
  <2>1. \A c \in Closes : \A t \in closing'[c].awaited :
          t \in closing[c].awaited \/ (t \in Transfers /\ ~At(t, "idle"))
    BY <1>0, <1>3 DEF BeginClose
  <2>2. \A c \in Closes : \A t \in closing[c].awaited : t \in Transfers
    BY <1>0
  <2> QED
    BY <1>1, <2>1, <2>2
<1>4. ASSUME NEW d \in Calls, Aside(d) PROVE closing' = closing \/ BeginClose(d)
  BY <1>4 DEF Aside, BeginRequest, BeginTransfer, openDataChannel, DataDone,
       DataFailed, CutShort, removeIncompleteUpload, TakeSession, EndSession, AwaitPending,
       CloseTransport, CloseReturns
<1>5. ASSUME NEW d \in Calls, getTransport(d) \/ Leaves(d) PROVE closing' = closing
  BY <1>5 DEF getTransport, Leaves
<1> QED
  BY <1>2, <1>3, <1>4, <1>5, Passage

LEMMA HeldStep ==
    ASSUME TypeInv, Connections, Held, [Next]_vars
    PROVE  Held'
<1> USE Kinds
<1>0. /\ TypeOK /\ conn \in [Conns -> ConnStates] /\ transport \in Conns \cup {None}
      /\ \A c \in Calls : call[c].conn \in Conns \cup {None}
  BY Types DEF TypeInv, CallStates
<1>1. ASSUME NEW c \in Calls, call'[c].pc = "connecting" PROVE pendingTransport' # None
  <2>1. CASE call'[c] = call[c]
    <3>1. At(c, "connecting") /\ pendingTransport # None
      BY <1>1, <2>1 DEF Held, At
    <3>2. ~(TransportConnected \/ TransportFailed)
      BY <1>0, <1>1, <3>1, PendingMoves
    <3> QED
      BY <1>0, <3>1, <3>2, PendingSettles
  <2>2. CASE getTransport(c)
    BY <1>1, <2>2, TurnPath
  <2>3. ~Works(c) /\ ~Joins(c) /\ ~Strolls(c)
    BY <1>1 DEF Works, Joins, Strolls
  <2>4. ~Leaves(c)
    BY <1>1, TurnPath
  <2> QED
    BY <2>1, <2>2, <2>3, <2>4, CallPath
<1>2. ASSUME NEW c \in Calls, call'[c].pc \in GivingUp
      PROVE  call'[c].conn = None \/ conn'[call'[c].conn] \in {"ending", "closed"}
  <2>1. CASE call'[c] = call[c]
    <3>1. call[c].conn = None \/ conn[call[c].conn] \in {"ending", "closed"}
      BY <1>2, <2>1 DEF Held
    <3>2. call[c].conn \in Conns /\ conn[call[c].conn] \in {"ending", "closed"}
             => conn'[call[c].conn] \in {"ending", "closed"}
      BY <1>0, ConnMoves
    <3> QED
      BY <1>0, <2>1, <3>1, <3>2
  <2>2. CASE Shutdown /\ call'[c].conn = transport
    <3>1. transport # None => transport \in Conns /\ conn[transport] \in {"open", "ending", "closed"}
      BY <1>0 DEF Held
    <3> QED
      BY <1>0, <2>2, <3>1, ShutdownLeaves
  <2>3. ~Joins(c)
    BY <1>2 DEF Joins, GivingUp
  <2>4. ~getTransport(c) /\ ~Leaves(c)
    BY <1>2, TurnPath DEF GivingUp
  <2>5. Works(c) \/ Strolls(c) => Shutdown /\ call'[c].conn = transport
    BY <1>2 DEF Works, Strolls, GivingUp, InTurn
  <2> QED
    BY <2>1, <2>2, <2>3, <2>4, <2>5, CallPath
<1>3. ASSUME NEW c \in Calls, call'[c].pc \in {"sessionId", "pending"}
      PROVE  call'[c].conn \in Conns
  <2>1. ~Joins(c) /\ ~Works(c)
    BY <1>3 DEF Joins, Works, InTurn
  <2>2. ~getTransport(c) /\ ~Leaves(c)
    BY <1>3, TurnPath
  <2> QED
    BY <1>3, <2>1, <2>2, CallPath DEF Strolls, Held
<1>4. transport' # None => conn'[transport'] \in {"open", "ending", "closed"}
  BY <1>0, TransportStep DEF Held
<1>5. \A c \in Closes : \A t \in closing'[c].awaited : call'[t].pc # "idle"
  BY AwaitedStep DEF Held
<1> QED
  BY <1>1, <1>2, <1>3, <1>4, <1>5 DEF Held, At

LEMMA CreatedStep ==
    ASSUME TypeInv, Created, [Next]_vars
    PROVE  Created'
<1> USE Kinds
<1>0. TypeOK /\ Turns /\ sessionId \in [Conns -> SessionStates]
  BY Types DEF TypeInv
<1>1. ASSUME NEW c \in Calls, ~At(c, "creating"), \A d \in Calls : d # c => call'[d] = call[d],
             \A k \in Conns : sessionId'[k] = "creating" =>
                 \/ sessionId[k] = "creating"
                 \/ call'[c].pc = "creating" /\ call'[c].conn = k
      PROVE  Created'
  BY <1>1 DEF Created, At
<1>2. ASSUME NEW c \in Calls, Aside(c) PROVE Created'
  <2>1. ~At(c, "creating")
    BY <1>0, <1>2, AsideSteps DEF At, InTurn
  <2> QED
    BY <1>0, <1>1, <1>2, <2>1, AsideSteps
<1>3. ASSUME NEW c \in Calls, getTransport(c) PROVE Created'
  BY <1>1, <1>3, TurnPath DEF getTransport, At
<1>4. CASE TransportConnected \/ TransportFailed
  <2>1. sessionId' = sessionId
    BY <1>4 DEF TransportConnected, TransportFailed
  <2>2. \A c \in Calls : At(c, "creating") => call'[c] = call[c]
    BY <1>0, <1>4, PendingMoves DEF At
  <2> QED
    BY <2>1, <2>2 DEF Created, At
<1>5. ASSUME NEW c \in Calls, call[c].pc \in {"acquired", "sending"},
             NEW step \in {"create"} \cup StepNames, step # "data",
             NEW sid \in Conns \cup {None}, NEW pc \in {"creating", "reply"},
             SendAndAwait(c, step, sid, pc)
      PROVE  /\ ~At(c, "creating") /\ \A d \in Calls : d # c => call'[d] = call[d]
             /\ call'[c].conn = call[c].conn /\ call[c].conn \in Conns
             /\ isConnected(call[c].conn) => call'[c].pc = pc
  <2>1. call[c].conn \in Conns /\ {"creating", "reply"} \subseteq Places
    BY <1>0, <1>5 DEF Turns, OnConn, Places
  <2> QED
    BY <1>0, <1>5, <2>1, SendMoves DEF At
<1>6. ASSUME NEW c \in Calls, ensureSessionOn(c) PROVE Created'
  <2>1. call[c].pc = "acquired" /\ "create" \in {"create"} \cup StepNames /\ "create" # "data"
    BY <1>6 DEF ensureSessionOn, At
  <2>2. CASE /\ SendAndAwait(c, "create", None, "creating")
             /\ sessionId' = [sessionId EXCEPT ![call[c].conn] = IF isConnected(call[c].conn)
                                                               THEN "creating" ELSE "failed"]
    <3>1. /\ ~At(c, "creating") /\ \A d \in Calls : d # c => call'[d] = call[d]
          /\ call'[c].conn = call[c].conn /\ call[c].conn \in Conns
          /\ isConnected(call[c].conn) => call'[c].pc = "creating"
      BY <1>5, <2>1, <2>2
    <3>2. \A k \in Conns : sessionId'[k] = "creating" =>
            \/ sessionId[k] = "creating"
            \/ k = call[c].conn /\ isConnected(call[c].conn)
      BY <1>0, <2>2, <3>1
    <3> QED
      BY <1>1, <3>1, <3>2
  <2>3. CASE call' = [call EXCEPT ![c].pc = IF sessionId[call[c].conn] = "ready"
                                           THEN "sending" ELSE "failing", ![c].sid = session]
             /\ sessionId' = sessionId
    <3>1. ~At(c, "creating") /\ \A d \in Calls : d # c => call'[d] = call[d]
      BY <1>0, <2>1, <2>3, Types DEF At
    <3> QED
      BY <1>1, <2>3, <3>1
  <2> QED
    BY <1>6, <2>2, <2>3 DEF ensureSessionOn
<1>7. ASSUME NEW c \in Calls, exchange(c) PROVE Created'
  <2>1. call[c].pc \in {"acquired", "sending"} /\ sessionId' = sessionId
        /\ SendAndAwait(c, call[c].step, call[c].sid, "reply")
    BY <1>7 DEF exchange, At
  <2>2. call[c].step \in StepNames /\ call[c].step # "data" /\ call[c].sid \in Conns \cup {None}
    BY <1>0, <2>1, Types DEF CallStates, Turns
  <2> QED
    BY <1>1, <1>5, <2>1, <2>2
<1>8. ASSUME NEW W, FailWaiters(W) PROVE Created'
  <2> DEFINE lost == {call[c].conn : c \in {w \in W : At(w, "creating")}}
  <2>1. sessionId' = [k \in Conns |-> IF k \in lost THEN "failed" ELSE sessionId[k]]
    BY <1>8 DEF FailWaiters
  <2>2. \A c \in Calls : c \notin W => call'[c] = call[c]
    BY <1>0, <1>8, FailWaitersLeaves
  <2>3. ASSUME NEW k \in Conns, sessionId'[k] = "creating"
        PROVE  \E c \in Calls : call'[c].pc = "creating" /\ call'[c].conn = k
    <3>1. k \notin lost /\ sessionId[k] = "creating"
      BY <2>1, <2>3
    <3>2. PICK c \in Calls : At(c, "creating") /\ call[c].conn = k
      BY <3>1 DEF Created
    <3> QED
      BY <2>2, <3>1, <3>2 DEF At
  <2> QED
    BY <2>3 DEF Created, At
<1>9. ASSUME NEW m \in requests, NEW ok \in BOOLEAN, Reply(m, ok) PROVE Created'
  <2>1. \/ call' = call /\ sessionId' = sessionId
        \/ \E c \in Calls :
             \/ /\ At(c, "creating") /\ call[c].conn = m.conn
                /\ call' = [call EXCEPT ![c].pc = "sending", ![c].sid = m.conn]
                /\ sessionId' = [sessionId EXCEPT ![m.conn] = "ready"]
             \/ FailWaiters({c})
             \/ At(c, "reply") /\ Goto(c, Resume(c, ok)) /\ sessionId' = sessionId
    BY <1>9 DEF Reply, WaitersOn
  <2>2. CASE call' = call /\ sessionId' = sessionId
    BY <2>2 DEF Created, At
  <2>3. ASSUME NEW c \in Calls, At(c, "creating"), call[c].conn = m.conn,
               call' = [call EXCEPT ![c].pc = "sending", ![c].sid = m.conn],
               sessionId' = [sessionId EXCEPT ![m.conn] = "ready"]
        PROVE  Created'
    <3>1. m.conn \in Conns /\ \A d \in Calls : d # c => call'[d] = call[d]
      BY <1>0, <2>3, Types DEF Messages
    <3>2. \A k \in Conns : sessionId'[k] = "creating" => k # m.conn /\ sessionId[k] = "creating"
      BY <1>0, <2>3
    <3>3. ASSUME NEW k \in Conns, sessionId'[k] = "creating"
          PROVE  \E d \in Calls : call'[d].pc = "creating" /\ call'[d].conn = k
      <4>1. k # m.conn /\ sessionId[k] = "creating"
        BY <3>2, <3>3
      <4>2. PICK d \in Calls : At(d, "creating") /\ call[d].conn = k
        BY <4>1 DEF Created
      <4>3. call'[d] = call[d]
        BY <2>3, <3>1, <4>1, <4>2
      <4> QED
        BY <4>2, <4>3 DEF At
    <3> QED
      BY <3>3 DEF Created, At
  <2>4. ASSUME NEW c \in Calls, At(c, "reply"), Goto(c, Resume(c, ok)), sessionId' = sessionId
        PROVE  Created'
    <3>1. Resume(c, ok) \in Places /\ ~At(c, "creating")
      BY <2>4, ResumePlaces DEF Places, At
    <3> QED
      BY <1>0, <1>1, <2>4, <3>1, GotoMoves
  <2> QED
    BY <1>8, <2>1, <2>2, <2>3, <2>4
<1>10. ASSUME NEW c \in Calls, CatchFailure(c) \/ Dropped(c) PROVE Created'
  <2>1. call[c].pc \in {"failing", "dropping"} /\ sessionId' = sessionId
    BY <1>10 DEF CatchFailure, Dropped, dropTransport, service, At
  <2>2. \/ GotoWith(c, "dropping", transport)
        \/ Goto(c, Resume(c, FALSE))
    BY <1>10 DEF CatchFailure, Dropped, dropTransport
  <2>3. Resume(c, FALSE) \in Places /\ "dropping" \in Places /\ transport \in Conns \cup {None}
    BY <1>0, ResumePlaces, Types DEF Places
  <2>4. \A d \in Calls : d # c => call'[d] = call[d]
    BY <1>0, <2>2, <2>3, GotoMoves, GotoWithMoves
  <2> QED
    BY <1>1, <2>1, <2>4 DEF At
<1>11. ASSUME NEW c \in Calls, Timeout(c) PROVE Created'
  BY <1>8, <1>11 DEF Timeout
<1>12. ASSUME NEW k \in Conns, PeerEnds(k) \/ SocketClosed(k) PROVE Created'
  BY <1>8, <1>12 DEF PeerEnds, SocketClosed
<1>13. ASSUME NEW m \in requests, Apply(m) PROVE Created'
  BY <1>13 DEF Apply, Created, At
<1>14. CASE UNCHANGED vars
  BY <1>14 DEF vars, Created, At
<1> QED
  BY <1>2, <1>3, <1>4, <1>6, <1>7, <1>9, <1>10, <1>11, <1>12, <1>13, <1>14
     DEF Next, Begin, Progress, Aside

\* The turns left to a call only get fewer, and a call that takes its turn has one less.
LEMMA FewerTurns ==
    ASSUME TypeInv, Ordered, [Next]_vars, NEW c \in Calls
    PROVE  /\ TurnsLeft(c) \in 0 .. 3 /\ TurnsLeft(c)' \in 0 .. 3
           /\ TurnsLeft(c)' <= TurnsLeft(c)
           /\ getTransport(c) => TurnsLeft(c)' < TurnsLeft(c)
<1>1. TurnsLeft(c) \in 0 .. 3 /\ TurnsLeft(c)' \in 0 .. 3
  BY DEF TurnsLeft, Further
<1>2. /\ call'[c].step = call[c].step => Further(c)' = Further(c)
      /\ Further(c) \in 0 .. 2 /\ Further(c)' \in 0 .. 2
  BY DEF Further
<1>3. CASE call'[c] = call[c]
  <2>1. TurnsLeft(c)' = TurnsLeft(c)
    BY <1>3 DEF TurnsLeft, Further
  <2>2. ~getTransport(c)
    BY <1>3, TurnPath DEF At
  <2> QED
    BY <1>1, <2>1, <2>2
<1>4. CASE getTransport(c)
  <2>1. call[c].pc \in Waiting /\ call'[c].pc \notin Waiting /\ call'[c].step = call[c].step
    BY <1>4, TurnPath DEF Waiting, At
  <2> QED
    BY <1>1, <1>2, <2>1 DEF TurnsLeft
<1>5. CASE ~getTransport(c) /\ call'[c].pc \notin Waiting /\ call'[c].step = call[c].step
  BY <1>1, <1>2, <1>5 DEF TurnsLeft
<1>6. CASE Works(c)
  <2>1. call'[c].pc \notin Waiting /\ call'[c].step = call[c].step /\ ~getTransport(c)
    BY <1>6, TurnPath DEF Works, InTurn, Waiting, At
  <2> QED
    BY <1>5, <2>1
<1>7. CASE Strolls(c)
  <2>1. ~getTransport(c) /\ call'[c].step = call[c].step
    BY <1>7, TurnPath DEF Strolls, At, InQueue
  <2>2. call'[c].pc \in Waiting => call[c].pc \in Waiting
    BY <1>7 DEF Strolls, Waiting, At
  <2> QED
    BY <1>1, <1>2, <2>1, <2>2 DEF TurnsLeft
<1>8. CASE Leaves(c)
  <2>1. call'[c].pc \notin Waiting /\ ~getTransport(c)
    BY <1>8, TurnPath DEF Waiting, InTurn, At
  <2>2. CASE call'[c].step = call[c].step
    BY <1>5, <2>1, <2>2
  <2>3. CASE call[c].step = "main" /\ call'[c].step = "data"
    <3>1. Further(c)' = Further(c)
      BY <2>3 DEF Further
    <3> QED
      BY <1>1, <1>2, <2>1, <3>1 DEF TurnsLeft
  <2> QED
    BY <1>8, <2>2, <2>3, TurnPath
<1>9. CASE Joins(c)
  <2>1. ~getTransport(c) /\ call'[c].pc = "queued"
    BY <1>9, TurnPath DEF Joins, At
  <2>2. CASE call[c].pc \in {"idle", "opening", "sessionId"}
    <3>1. call[c].pc \in Waiting /\ call'[c].pc \in Waiting
      BY <2>1, <2>2 DEF Waiting
    <3>2. Further(c)' <= Further(c)
      BY <1>9, <2>2 DEF Joins, Ordered, Further, At
    <3> QED
      BY <1>1, <1>2, <2>1, <3>1, <3>2 DEF TurnsLeft
  <2>3. CASE call[c].pc \in {"data", "tidy"}
    <3>1. call[c].pc \notin Waiting /\ call'[c].pc \in Waiting
      BY <2>1, <2>3 DEF Waiting
    <3>2. Further(c)' + 1 <= Further(c)
      BY <1>9, <2>3 DEF Joins, Ordered, Further, At
    <3> QED
      BY <1>1, <1>2, <2>1, <3>1, <3>2 DEF TurnsLeft
  <2> QED
    BY <1>9, <2>2, <2>3 DEF Joins, At
<1> QED
  BY <1>3, <1>4, <1>6, <1>7, <1>8, <1>9, CallPath

LEMMA Finite ==
    /\ IsFiniteSet(Left) /\ IsFiniteSet(Unused)
    /\ Cardinality(Left) \in Nat /\ Cardinality(Unused) \in Nat
<1>1. IsFiniteSet(1 .. 3) /\ IsFiniteSet(1 .. MaxConns)
  <2>1. MaxConns \in Int /\ 1 \in Int /\ 3 \in Int
    BY ConnsAssumption DEF ConnsAssumption
  <2> QED
    BY <2>1, FS_Interval
<1>2. IsFiniteSet(Calls \X (1 .. 3))
  BY <1>1, FS_Product, ConnsAssumption DEF ConnsAssumption
<1>3. Left \subseteq Calls \X (1 .. 3) /\ Unused \subseteq 1 .. MaxConns
  BY DEF Left, Unused, Conns
<1>4. IsFiniteSet(Left) /\ IsFiniteSet(Unused)
  BY <1>1, <1>2, <1>3, FS_Subset
<1> QED
  BY <1>4, FS_CardinalityType

\* The sets of the next state, written without primes on their names.
LEMMA RoomStep ==
    ASSUME TypeInv, Connections, Ordered, Room, [Next]_vars
    PROVE  Cardinality({p \in Calls \X (1 .. 3) : p[2] <= TurnsLeft(p[1])'})
             <= Cardinality({k \in Conns : conn'[k] = "unused"})
<1> DEFINE left == {p \in Calls \X (1 .. 3) : p[2] <= TurnsLeft(p[1])'}
           unused == {k \in Conns : conn'[k] = "unused"}
<1>0. TypeOK /\ Cardinality(Left) <= Cardinality(Unused)
  BY DEF TypeInv, Room
<1>1. IsFiniteSet(1 .. MaxConns) /\ unused \subseteq 1 .. MaxConns
  <2>1. MaxConns \in Int /\ 1 \in Int
    BY ConnsAssumption DEF ConnsAssumption
  <2> QED
    BY <2>1, FS_Interval DEF Conns
<1>2. IsFiniteSet(unused) /\ Cardinality(unused) \in Nat
  BY <1>1, FS_Subset, FS_CardinalityType
<1>3. left \subseteq Left
  <2> SUFFICES ASSUME NEW p \in left PROVE p \in Left
    OBVIOUS
  <2>1. p \in Calls \X (1 .. 3) /\ p[1] \in Calls /\ p[2] \in 1 .. 3 /\ p[2] <= TurnsLeft(p[1])'
    OBVIOUS
  <2>2. /\ TurnsLeft(p[1]) \in 0 .. 3 /\ TurnsLeft(p[1])' \in 0 .. 3
        /\ TurnsLeft(p[1])' <= TurnsLeft(p[1])
    BY <2>1, FewerTurns
  <2>3. p[2] <= TurnsLeft(p[1])
    BY <2>1, <2>2
  <2> QED
    BY <2>1, <2>3 DEF Left
<1>4. CASE Unused \subseteq unused
  <2>1. Cardinality(Unused) <= Cardinality(unused) /\ Cardinality(left) <= Cardinality(Left)
        /\ Cardinality(left) \in Nat
    BY <1>2, <1>3, <1>4, Finite, FS_Subset, FS_CardinalityType
  <2> QED
    BY <1>0, <1>2, <2>1, Finite
<1>5. ASSUME NEW k \in Conns, NEW c \in Calls, conn[k] = "unused", getTransport(c),
             conn' = [conn EXCEPT ![k] = "connecting"]
      PROVE  Cardinality(left) <= Cardinality(unused)
  <2>1. conn \in [Conns -> ConnStates]
    BY <1>0, Types
  <2>2. unused = Unused \ {k} /\ k \in Unused
    BY <1>5, <2>1 DEF Unused
  <2>3. Cardinality(unused) = Cardinality(Unused) - 1
    BY <2>2, Finite, FS_RemoveElement
  <2> DEFINE p == <<c, TurnsLeft(c)>>
  <2>4. /\ TurnsLeft(c) \in 0 .. 3 /\ TurnsLeft(c)' \in 0 .. 3 /\ TurnsLeft(c)' < TurnsLeft(c)
    BY <1>5, FewerTurns
  <2>5. p \in Left /\ p \notin left
    <3>1. TurnsLeft(c) \in 1 .. 3 /\ ~(TurnsLeft(c) <= TurnsLeft(c)')
      BY <2>4
    <3>2. p \in Calls \X (1 .. 3) /\ p[1] = c /\ p[2] = TurnsLeft(c) /\ TurnsLeft(c) <= TurnsLeft(c)
      BY <3>1
    <3>3. p \in Left
      BY <3>2 DEF Left
    <3>4. p \notin left
      BY <3>1, <3>2
    <3> QED
      BY <3>3, <3>4
  <2> HIDE DEF p, left
  <2>6. /\ IsFiniteSet(Left \ {p}) /\ Cardinality(Left \ {p}) = Cardinality(Left) - 1
    BY <2>5, Finite, FS_RemoveElement
  <2>7. Cardinality(left) <= Cardinality(Left \ {p}) /\ Cardinality(left) \in Nat
    <3>1. left \subseteq Left \ {p}
      BY <1>3, <2>5
    <3> QED
      BY <2>6, <3>1, FS_Subset, FS_CardinalityType
  <2> QED
    BY <1>0, <1>2, <2>3, <2>6, <2>7, Finite
<1>6. Unused \subseteq unused \/ \E k \in Conns, c \in Calls :
        conn[k] = "unused" /\ getTransport(c) /\ conn' = [conn EXCEPT ![k] = "connecting"]
  BY <1>0, ConnMoves DEF Unused
<1> QED
  BY <1>4, <1>5, <1>6

StuckInv == TypeInv /\ Connections /\ Lined /\ Ordered /\ Held /\ Created /\ Room

\* As many connections as there may be turns.
LEMMA RoomAtFirst == Init => Room
<1> SUFFICES ASSUME Init PROVE Room
  OBVIOUS
<1> USE Kinds
<1> DEFINE Others == Requests \cup Pulls \cup Closes
<1>1. \A c \in Calls : TurnsLeft(c) = IF c \in Pushes THEN 3 ELSE 1
  <2> SUFFICES ASSUME NEW c \in Calls
               PROVE  TurnsLeft(c) = IF c \in Pushes THEN 3 ELSE 1
    OBVIOUS
  <2>1. call[c].pc = "idle" /\ call[c].step = "main"
    BY DEF Init, Fresh
  <2> QED
    BY <2>1 DEF TurnsLeft, Further, Waiting
<1>2. Left \subseteq (Others \X {1}) \cup (Pushes \X (1 .. 3))
  <2> SUFFICES ASSUME NEW p \in Left PROVE p \in (Others \X {1}) \cup (Pushes \X (1 .. 3))
    OBVIOUS
  <2>1. p = <<p[1], p[2]>> /\ p[1] \in Calls /\ p[2] \in 1 .. 3 /\ p[2] <= TurnsLeft(p[1])
    BY DEF Left
  <2>2. CASE p[1] \in Pushes
    BY <2>1, <2>2
  <2>3. CASE p[1] \notin Pushes
    <3>1. p[2] = 1
      BY <1>1, <2>1, <2>3
    <3>2. p[1] \in Others
      BY <2>1, <2>3 DEF Calls, Transfers
    <3> QED
      BY <2>1, <3>1, <3>2
  <2> QED
    BY <2>2, <2>3
<1>3. /\ IsFiniteSet(Others) /\ IsFiniteSet(Pushes)
      /\ Cardinality(Others) \in Nat /\ Cardinality(Pushes) \in Nat
  <2>1. Others \subseteq Calls /\ Pushes \subseteq Calls /\ IsFiniteSet(Calls)
    BY ConnsAssumption DEF ConnsAssumption, Calls, Transfers
  <2> QED
    BY <2>1, FS_Subset, FS_CardinalityType
<1> HIDE DEF Others
<1>4. /\ IsFiniteSet(1 .. 3) /\ Cardinality(1 .. 3) = 3
      /\ IsFiniteSet(1 .. MaxConns) /\ Cardinality(1 .. MaxConns) = MaxConns
      /\ IsFiniteSet({1}) /\ Cardinality({1}) = 1
  <2>1. MaxConns \in Nat /\ 1 \in Int /\ 3 \in Int
    BY ConnsAssumption DEF ConnsAssumption
  <2>2. IsFiniteSet(1 .. 3) /\ Cardinality(1 .. 3) = 3
    <3>1. IsFiniteSet(1 .. 3) /\ Cardinality(1 .. 3) = IF 1 > 3 THEN 0 ELSE 3 - 1 + 1
      BY <2>1, FS_Interval
    <3> QED
      BY <3>1
  <2>3. IsFiniteSet(1 .. MaxConns) /\ Cardinality(1 .. MaxConns) = MaxConns
    <3>1. /\ IsFiniteSet(1 .. MaxConns)
          /\ Cardinality(1 .. MaxConns) = IF 1 > MaxConns THEN 0 ELSE MaxConns - 1 + 1
      BY <2>1, FS_Interval
    <3> QED
      BY <2>1, <3>1
  <2> QED
    BY <2>2, <2>3, FS_Singleton
<1>5. /\ IsFiniteSet(Others \X {1}) /\ Cardinality(Others \X {1}) = Cardinality(Others)
      /\ IsFiniteSet(Pushes \X (1 .. 3))
      /\ Cardinality(Pushes \X (1 .. 3)) = 3 * Cardinality(Pushes)
  <2>1. /\ IsFiniteSet(Others \X {1})
        /\ Cardinality(Others \X {1}) = Cardinality(Others) * Cardinality({1})
    BY <1>3, <1>4, FS_Product
  <2>2. /\ IsFiniteSet(Pushes \X (1 .. 3))
        /\ Cardinality(Pushes \X (1 .. 3)) = Cardinality(Pushes) * Cardinality(1 .. 3)
    BY <1>3, <1>4, FS_Product
  <2> QED
    BY <1>3, <1>4, <2>1, <2>2
<1>6. /\ IsFiniteSet((Others \X {1}) \cup (Pushes \X (1 .. 3)))
      /\ Cardinality((Others \X {1}) \cup (Pushes \X (1 .. 3)))
            <= Cardinality(Others) + 3 * Cardinality(Pushes)
  <2> DEFINE A == Others \X {1}
             B == Pushes \X (1 .. 3)
  <2>1. /\ IsFiniteSet(A) /\ IsFiniteSet(B)
        /\ Cardinality(A) = Cardinality(Others) /\ Cardinality(B) = 3 * Cardinality(Pushes)
    BY <1>5
  <2> HIDE DEF A, B
  <2>2. /\ IsFiniteSet(A \cup B)
        /\ Cardinality(A \cup B) = Cardinality(A) + Cardinality(B) - Cardinality(A \cap B)
    BY <2>1, FS_Union
  <2>3. Cardinality(A \cap B) \in Nat
    BY <2>1, FS_Intersection, FS_CardinalityType
  <2>4. Cardinality(A \cup B) <= Cardinality(Others) + 3 * Cardinality(Pushes)
    BY <1>3, <2>1, <2>2, <2>3
  <2> QED
    BY <2>2, <2>4 DEF A, B
<1>7. Cardinality(Left) <= Cardinality(Others) + 3 * Cardinality(Pushes)
  <2>1. Cardinality(Left) <= Cardinality((Others \X {1}) \cup (Pushes \X (1 .. 3)))
    BY <1>2, <1>6, FS_Subset
  <2>2. Cardinality((Others \X {1}) \cup (Pushes \X (1 .. 3))) \in Nat
    BY <1>6, FS_CardinalityType
  <2> QED
    BY <1>3, <1>6, <2>1, <2>2, Finite
<1>8. Unused = 1 .. MaxConns
  BY DEF Init, Unused, Conns
<1>9. MaxConns >= Cardinality(Others) + 3 * Cardinality(Pushes) /\ MaxConns \in Nat
  BY ConnsAssumption DEF ConnsAssumption, Others
<1> QED
  BY <1>3, <1>4, <1>7, <1>8, <1>9, Finite DEF Room

LEMMA StuckInvariant == Spec => []StuckInv
<1>1. Init => Lined /\ Ordered /\ Held /\ Created
  <2> SUFFICES ASSUME Init PROVE Lined /\ Ordered /\ Held /\ Created
    OBVIOUS
  <2>1. \A c \in Calls : call[c] = Fresh("idle", "main")
    BY DEF Init
  <2>2. Lined
    BY <2>1 DEF Init, Lined, Fresh, InQueue, InTurn
  <2>3. Ordered
    BY <2>1 DEF Ordered, Fresh, At
  <2>4. Held
    BY <2>1 DEF Init, Held, Fresh, At, GivingUp
  <2>5. Created
    BY DEF Init, Created
  <2> QED
    BY <2>2, <2>3, <2>4, <2>5
<1>2. StuckInv /\ [Next]_vars => Lined' /\ Ordered' /\ Held' /\ Created'
  BY LinedStep, OrderedStep, HeldStep, CreatedStep DEF StuckInv
<1>3. StuckInv /\ [Next]_vars => Room'
  <2> SUFFICES ASSUME StuckInv, [Next]_vars PROVE Room'
    OBVIOUS
  <2>1. /\ Left' = {p \in Calls \X (1 .. 3) : p[2] <= TurnsLeft(p[1])'}
        /\ Unused' = {k \in Conns : conn'[k] = "unused"}
    BY DEF Left, Unused
  <2> QED
    BY <2>1, RoomStep DEF StuckInv, Room
<1> QED
  BY <1>1, <1>2, <1>3, RoomAtFirst, ConnectionsInvariant, PTL DEF Spec, StuckInv

\* The head of the queue moves.
LEMMA HeadMoves ==
    ASSUME StuckInv, NEW c \in Calls, call[c].pc \in InQueue, HasTurn(c)
    PROVE  Moves(c)
<1> USE Kinds
<1>0. /\ TypeOK /\ Turns /\ Held /\ Created /\ Room /\ conn \in [Conns -> ConnStates]
      /\ call[c].conn \in Conns \cup {None} /\ session \in Conns \cup {None}
  BY Types DEF StuckInv, TypeInv, CallStates
<1>1. CASE At(c, "queued")
  <2>1. <<c, 1>> \in Left
    <3>1. TurnsLeft(c) \in 0 .. 3 /\ 1 <= TurnsLeft(c)
      BY <1>1 DEF TurnsLeft, Further, Waiting, At
    <3>2. <<c, 1>> \in Calls \X (1 .. 3) /\ <<c, 1>>[1] = c /\ <<c, 1>>[2] = 1
      OBVIOUS
    <3> QED
      BY <3>1, <3>2 DEF Left
  <2>2. Unused # {}
    <3>1. Cardinality(Left) # 0
      BY <2>1, Finite, FS_EmptySet
    <3>2. Cardinality(Unused) # 0
      BY <1>0, <3>1, Finite DEF Room
    <3> QED
      BY <3>2, FS_EmptySet
  <2>3. \E k \in Conns : conn[k] = "unused"
    BY <2>2 DEF Unused
  <2> QED
    BY <1>1, <2>3 DEF Moves, CanStep, At
<1>2. CASE At(c, "connecting")
  BY <1>0, <1>2 DEF Moves, Held, At
<1>3. CASE At(c, "acquired")
  <2>1. call[c].conn \in Conns
    BY <1>0, <1>3 DEF Turns, OnConn, At
  <2>2. sessionId[call[c].conn] # "creating"
    <3> SUFFICES ASSUME sessionId[call[c].conn] = "creating" PROVE FALSE
      OBVIOUS
    <3>1. PICK d \in Calls : At(d, "creating")
      BY <1>0, <2>1 DEF Created
    <3>2. d # c /\ call[d].pc \in InTurn
      BY <1>3, <3>1 DEF At, InTurn
    <3> QED
      BY <1>0, <3>2, HeadAlone
  <2> QED
    BY <1>3, <2>2 DEF Moves, CanStep, At
<1>4. CASE call[c].pc \in {"creating", "sending", "reply", "failing"}
  BY <1>4 DEF Moves, CanStep
<1>5. CASE At(c, "dropping")
  <2>1. call[c].conn = None \/ conn[call[c].conn] \in {"ending", "closed"}
    BY <1>0, <1>5 DEF Held, GivingUp, At
  <2> QED
    BY <1>0, <1>5, <2>1 DEF Moves, CanStep, Closed, At
<1> QED
  BY <1>1, <1>2, <1>3, <1>4, <1>5 DEF InQueue, InTurn, At

\* Whoever does not wait for another call advances.
LEMMA OthersAdvance ==
    ASSUME StuckInv, NEW c \in Calls, ~At(c, "idle"), ~At(c, "done"), ~At(c, "settling"),
           ~At(c, "sessionId")
    PROVE  Advances(c)
<1> USE Kinds
<1>0. /\ TypeOK /\ Turns /\ Held /\ Lined /\ Connections /\ conn \in [Conns -> ConnStates]
      /\ call[c].conn \in Conns \cup {None} /\ call[c].pc \in Places
      /\ invokeQueue \in Seq(Calls)
  BY Types DEF StuckInv, TypeInv, CallStates
<1>1. CASE call[c].pc \in InTurn
  <2>1. HasTurn(c)
    BY <1>0, <1>1 DEF Turns
  <2> QED
    BY <1>1, <2>1, HeadMoves DEF Advances, InQueue
<1>2. CASE At(c, "queued")
  <2> DEFINE h == Head(invokeQueue)
  <2>1. PICK i \in 1 .. Len(invokeQueue) : invokeQueue[i] = c
    BY <1>0, <1>2 DEF Lined, InQueue, At
  <2>2. invokeQueue # << >> /\ h \in Calls /\ 1 \in 1 .. Len(invokeQueue) /\ h = invokeQueue[1]
    BY <1>0, <2>1
  <2>3. call[h].pc \in InQueue /\ HasTurn(h)
    BY <1>0, <2>2 DEF Lined, HasTurn
  <2> QED
    BY <1>2, <2>2, <2>3, HeadMoves DEF Advances
<1>3. CASE call[c].pc \in {"opening", "data", "tidy", "closing"}
  BY <1>3 DEF Advances, Moves, CanStep
<1>4. CASE call[c].pc \in {"cutting", "shutting"}
  <2>1. call[c].conn = None \/ conn[call[c].conn] \in {"ending", "closed"}
    BY <1>0, <1>4 DEF Held, GivingUp
  <2> QED
    BY <1>0, <1>4, <2>1 DEF Advances, Moves, CanStep, Closed
<1>5. CASE At(c, "pending")
  <2>1. call[c].conn \in Conns
    BY <1>0, <1>5 DEF Held, At
  <2>2. conn[call[c].conn] = "connecting" => pendingTransport # None
    BY <1>0, <2>1 DEF Connections
  <2> QED
    BY <1>5, <2>2 DEF Advances, Moves, CanStep, At
<1> QED
  BY <1>0, <1>1, <1>2, <1>3, <1>4, <1>5 DEF Places, InTurn, At

\* No two calls wait for each other, and no turn is lost: every call that is made and not
\* done advances, or waits for one that does, for any requests, transfers and close() calls
\* at once, whatever fails meanwhile.
THEOREM NobodyStuckSafe == Spec => []NobodyStuck
<1>1. StuckInv => NobodyStuck
  <2> SUFFICES ASSUME StuckInv, NEW c \in Calls, ~At(c, "idle"), ~At(c, "done")
               PROVE  \/ Advances(c)
                      \/ /\ At(c, "settling")
                         /\ \E t \in closing[c].awaited : ~At(t, "done") /\ Advances(t)
                      \/ /\ At(c, "sessionId")
                         /\ \E d \in Calls : At(d, "creating") /\ call[d].conn = call[c].conn
    BY DEF NobodyStuck
  <2>0. TypeOK /\ Held /\ Ordered /\ Created
    BY DEF StuckInv, TypeInv
  <2>1. CASE At(c, "settling")
    <3>1. c \in Closes
      BY <2>0, <2>1 DEF Ordered, At
    <3>2. CASE \A t \in closing[c].awaited : At(t, "done")
      BY <2>1, <3>2 DEF Advances, Moves, CanStep
    <3>3. ASSUME NEW t \in closing[c].awaited, ~At(t, "done") PROVE Advances(t)
      <4>1. t \in Transfers /\ t \in Calls /\ t \notin Closes
        BY <2>0, <3>1, Types, Kinds
      <4>2. ~At(t, "idle") /\ ~At(t, "settling") /\ ~At(t, "sessionId")
        BY <2>0, <3>1, <4>1 DEF Held, Ordered, At
      <4> QED
        BY <3>3, <4>1, <4>2, OthersAdvance
    <3> QED
      BY <2>1, <3>2, <3>3
  <2>2. CASE At(c, "sessionId")
    <3>1. call[c].conn \in Conns
      BY <2>0, <2>2 DEF Held, At
    <3>2. CASE sessionId[call[c].conn] # "creating"
      BY <2>2, <3>2 DEF Advances, Moves, CanStep
    <3> QED
      BY <2>0, <2>2, <3>1, <3>2 DEF Created
  <2>3. CASE ~At(c, "settling") /\ ~At(c, "sessionId")
    BY <2>3, OthersAdvance
  <2> QED
    BY <2>1, <2>2, <2>3
<1> QED
  BY <1>1, StuckInvariant, PTL

=============================================================================
