---------------------------- MODULE DvtChannels ----------------------------
(***************************************************************************)
(* The DTX connection of the DVT service: channels, the replies matched to *)
(* their requests, the readers of a channel's stream, and the one pump     *)
(* that reads the socket for all of them while somebody waits.             *)
(*                                                                         *)
(* A message is its channel, its identifier, its conversation index (0 for *)
(* what the device says on its own, 1 for a reply) and whether it is an    *)
(* NSError.  The fragments of a message and its payload are left out.      *)
(***************************************************************************)
EXTENDS Integers, Sequences, SequencesExt

CONSTANTS
    Makers,         \* calls of makeChannel()
    Requesters,     \* Channel.call() and then receiveReply()
    Readers,        \* Channel.receivePlist()
    Abortable,      \* requesters and readers that pass an AbortSignal
    Identifiers,    \* of instruments
    NoIdentifier,
    EventIds,       \* identifiers the device gives its own messages
    MaxEvents,      \* bound: those messages, per connection
    MaxConns        \* bound: connections

ASSUME TasksAssumption ==
    /\ Makers \cap Requesters = {} /\ Makers \cap Readers = {} /\ Requesters \cap Readers = {}
    /\ Abortable \subseteq Requesters \cup Readers /\ NoIdentifier \notin Identifiers
ASSUME BoundsAssumption == EventIds \subseteq Nat /\ MaxEvents \in Nat /\ MaxConns \in Nat

Tasks == Makers \cup Requesters \cup Readers
Broadcast == 0          \* BROADCAST_CHANNEL
NoCode == 0

VARIABLES
    link,           \* connection and socketError: none, up or dead
    conns,          \* connections made
    isHandshakeComplete,
    closing,        \* close() awaits its _channelCanceled: message
    lastChannelCode,
    curMessageId,
    channelCache,   \* identifier -> code, NoCode if absent
    channelMessages,\* code -> the messages its fragmenter holds
    channelWaiters, \* the tasks that wait, in the order they registered
    pump,           \* off, on, or ending: runPump() is over, finally is not
    task,           \* what each call is doing
    wire,           \* from the device, not yet read
    asked,          \* requests the device has not answered
    granted,        \* codes the device has made a channel for
    events          \* messages of its own the device has sent

hostVars == <<isHandshakeComplete, closing, lastChannelCode, channelCache>>
deviceVars == <<wire, asked, granted, events>>
vars == <<link, conns, hostVars, curMessageId, channelMessages, channelWaiters, pump, task,
          deviceVars>>

Message(ch, id, conv, ok) == [ch |-> ch, id |-> id, conv |-> conv, ok |-> ok]
NoMessage == Message(Broadcast, 0, 0, FALSE)

Fresh == [c \in {Broadcast} |-> << >>]
Channels == DOMAIN channelMessages
Put(c, q) == [d \in Channels \cup {c} |-> IF d = c THEN q ELSE channelMessages[d]]
Queue(c) == IF c \in Channels THEN channelMessages[c] ELSE << >>

\* Codes of the Channel objects callers hold.
Held == {task[m].code : m \in {n \in Makers : task[n].at = "done"}}
New == [at |-> "new", ch |-> Broadcast, code |-> NoCode, id |-> 0, for |-> NoIdentifier,
        got |-> NoMessage]
\* A call that is over keeps the channel it made, no more.
Over(t, place) == IF place = "done" THEN [task[t] EXCEPT !.at = place, !.id = 0, !.got = NoMessage]
                  ELSE [New EXCEPT !.at = place]
At(t, place) == task' = [task EXCEPT ![t] = Over(t, place)]
Waits(t) == task[t].at = "waiting"

Init ==
    /\ link = "none" /\ conns = 0
    /\ isHandshakeComplete = FALSE /\ closing = FALSE
    /\ lastChannelCode = 0 /\ curMessageId = 0
    /\ channelCache = [i \in Identifiers |-> NoCode]
    /\ channelMessages = Fresh /\ channelWaiters = << >>
    /\ pump = "off"
    /\ task = [t \in Tasks |-> New]
    /\ wire = << >> /\ asked = {} /\ granted = {} /\ events = 0

-----------------------------------------------------------------------------
(* Receiving.                                                              *)

\* What a reader gets is its own business; it may receive again.
Got(t, m) == IF t \in Readers THEN New ELSE [task[t] EXCEPT !.at = "received", !.got = m]

\* Mutant: a message of the device itself passes for the reply.
isReplyTo_AnyConversation(id, m) == m.id = id
isReplyTo(id, m) == m.conv > 0 /\ m.id = id

\* A correlated waiter takes its reply; a plain one takes anything.
Takes(t, m) == t \in Requesters => isReplyTo(task[t].id, m)

\* Mutant: the next pump only starts with the next receive.
PumpEnds_NoRestart == pump = "ending" /\ pump' = "off"

\* recvPacketFragments(): what is queued is taken at once, else the call
\* waits and the pump runs.  No waiter can claim what is queued, for it would
\* have been handed over when it was read.
recvPacketFragments(t, c) ==
    LET q == channelMessages[c]
        fits == {i \in DOMAIN q : Takes(t, q[i])}
    IN \/ /\ fits = {}
          /\ task' = [task EXCEPT ![t].at = "waiting"]
          /\ channelWaiters' = Append(channelWaiters, t)
          /\ pump' = IF pump = "off" THEN "on" ELSE pump
          /\ UNCHANGED channelMessages
       \/ \E i \in fits :
          /\ \A j \in fits : i <= j
          /\ task' = [task EXCEPT ![t] = Got(t, q[i])]
          /\ channelMessages' = Put(c, RemoveAt(q, i))
          /\ UNCHANGED <<channelWaiters, pump>>

\* The caller finds no fragmenter for its channel.
Receive(t) ==
    IF task[t].ch \in Channels THEN recvPacketFragments(t, task[t].ch)
    ELSE At(t, "failed") /\ UNCHANGED <<channelMessages, channelWaiters, pump>>

\* sendMessage() up to its write; the identifier is taken here.
sendMessage == curMessageId' = curMessageId + 1

\* The write ends: the device has the request and the caller receives, or the
\* socket was gone.
Written(t) ==
    /\ task[t].at = "writing"
    /\ \/ /\ link # "up" /\ At(t, "failed")
          /\ UNCHANGED <<channelMessages, channelWaiters, pump, asked>>
       \/ /\ Receive(t)
          /\ asked' = IF link = "up"
                      THEN asked \cup {[ch |-> task[t].ch, id |-> task[t].id, code |-> task[t].code]}
                      ELSE asked
    /\ UNCHANGED <<link, conns, hostVars, curMessageId, wire, granted, events>>

\* The waiter i gets the message.
Serve(i, m) ==
    /\ channelWaiters' = RemoveAt(channelWaiters, i)
    /\ task' = [task EXCEPT ![channelWaiters[i]] = Got(channelWaiters[i], m)]

\* Waiters that would take the message.
Claimants(m) == {i \in DOMAIN channelWaiters : /\ task[channelWaiters[i]].ch = m.ch
                                               /\ Takes(channelWaiters[i], m)}
Correlated(i) == channelWaiters[i] \in Requesters

\* Mutant: the first waiter of the channel is served, correlated or not.
Precedes_InOrder(i, j) == i <= j
\* Correlated waiters come first, then those that take anything, in order.
Precedes(i, j) == IF Correlated(i) = Correlated(j) THEN i <= j ELSE Correlated(i)

\* deliverQueuedMessages() for the message just read; without a waiter it stays
\* queued.
deliverQueuedMessages(m) ==
    \/ /\ Claimants(m) = {}
       /\ channelMessages' = Put(m.ch, Append(Queue(m.ch), m))
       /\ UNCHANGED <<channelWaiters, task>>
    \/ \E i \in Claimants(m) :
       /\ \A j \in Claimants(m) : Precedes(i, j)
       /\ Serve(i, m) /\ channelMessages' = Put(m.ch, Queue(m.ch))

\* One round of runPump(), which goes on while anybody waits.
PumpReads ==
    /\ pump = "on" /\ link # "none" /\ channelWaiters # << >> /\ wire # << >>
    /\ LET m == Head(wire)
       IN /\ deliverQueuedMessages(m)
          /\ curMessageId' = IF m.conv = 0 /\ m.id > curMessageId THEN m.id ELSE curMessageId
    /\ wire' = Tail(wire)
    /\ UNCHANGED <<link, conns, hostVars, pump, asked, granted, events>>

\* The loop ends, for nobody waits ...
PumpStops ==
    /\ pump = "on" /\ channelWaiters = << >>
    /\ pump' = "ending"
    /\ UNCHANGED <<link, conns, hostVars, curMessageId, channelMessages, channelWaiters, task,
                   deviceVars>>

\* Mutant: the waiters are dropped, their promises left alone.
rejectAllWaiters_Drop == channelWaiters' = << >> /\ UNCHANGED task

\* rejectAllWaiters().
rejectAllWaiters ==
    /\ task' = [t \in Tasks |-> IF Waits(t) THEN Over(t, "failed") ELSE task[t]]
    /\ channelWaiters' = << >>

\* ... or readExact() throws, once what was buffered is used up.
PumpFails ==
    /\ pump = "on" /\ link # "up" /\ wire = << >>
    /\ pump' = "ending" /\ rejectAllWaiters
    /\ UNCHANGED <<link, conns, hostVars, curMessageId, channelMessages, deviceVars>>

\* The pump's finally: who came in between gets a new pump.
PumpEnds ==
    /\ pump = "ending"
    /\ pump' = IF channelWaiters # << >> THEN "on" ELSE "off"
PumpFinally ==
    /\ PumpEnds
    /\ UNCHANGED <<link, conns, hostVars, curMessageId, channelMessages, channelWaiters, task,
                   deviceVars>>

-----------------------------------------------------------------------------
(* The calls.                                                              *)

\* connect().  The lookup and the socket take longer than what a closed
\* connection leaves behind in microtasks.  The capabilities are the first
\* message of the device; they come, or the socket dies and connect() throws
\* with the connection still set.
Connect ==
    /\ link = "none" /\ conns < MaxConns
    /\ pump = "off" /\ \A t \in Tasks : task[t].at # "writing"
    /\ conns' = conns + 1
    /\ \/ link' = "up" /\ isHandshakeComplete' = TRUE
       \/ link' = "dead" /\ UNCHANGED isHandshakeComplete
    /\ sendMessage
    /\ UNCHANGED <<closing, lastChannelCode, channelCache, channelMessages, channelWaiters, pump,
                   task, deviceVars>>

NextCode == lastChannelCode + 1

\* makeChannel(i) up to its request.
MakeChannel(m, i) ==
    /\ task[m].at = "new" /\ isHandshakeComplete
    /\ IF channelCache[i] # NoCode
       THEN /\ task' = [task EXCEPT ![m].at = "done", ![m].code = channelCache[i]]
            /\ UNCHANGED <<lastChannelCode, curMessageId>>
       ELSE /\ lastChannelCode' = NextCode /\ sendMessage
            /\ task' = [task EXCEPT ![m].at = "writing", ![m].code = NextCode,
                                    ![m].id = curMessageId + 1, ![m].for = i]
    /\ UNCHANGED <<link, conns, isHandshakeComplete, closing, channelCache, channelMessages,
                   channelWaiters, pump, deviceVars>>

\* makeChannel() once its reply is there: it throws on an NSError, else stores
\* the channel, with a new fragmenter whatever was there.
MadeChannel(m) ==
    /\ task[m].at = "received"
    /\ IF task[m].got.ok
       THEN /\ At(m, "done")
            /\ channelCache' = [channelCache EXCEPT ![task[m].for] = task[m].code]
            /\ channelMessages' = Put(task[m].code, << >>)
       ELSE At(m, "failed") /\ UNCHANGED <<channelCache, channelMessages>>
    /\ UNCHANGED <<link, conns, isHandshakeComplete, closing, lastChannelCode, curMessageId,
                   channelWaiters, pump, deviceVars>>

\* Channel.call(): its code may be of a connection that was closed.
Call(r, c) ==
    /\ task[r].at = "new" /\ link # "none" /\ c \in Held
    /\ sendMessage
    /\ task' = [task EXCEPT ![r].at = "writing", ![r].ch = c, ![r].id = curMessageId + 1]
    /\ UNCHANGED <<link, conns, hostVars, channelMessages, channelWaiters, pump, deviceVars>>

\* Channel.receivePlist() in a loop.
Read(d, c) ==
    /\ task[d].at = "new" /\ c \in Held \cap Channels
    /\ LET fits == channelMessages[c] # << >>
       IN /\ task' = IF fits THEN task ELSE [task EXCEPT ![d].ch = c, ![d].at = "waiting"]
          /\ channelMessages' = IF fits THEN Put(c, Tail(channelMessages[c])) ELSE channelMessages
          /\ channelWaiters' = IF fits THEN channelWaiters ELSE Append(channelWaiters, d)
          /\ pump' = IF ~fits /\ pump = "off" THEN "on" ELSE pump
    /\ UNCHANGED <<link, conns, hostVars, curMessageId, deviceVars>>

\* Mutant: the waiter stays in its list.
Abort_KeepWaiter(t) ==
    /\ t \in Abortable /\ Waits(t)
    /\ At(t, "failed")
    /\ UNCHANGED <<link, conns, hostVars, curMessageId, channelMessages, channelWaiters, pump,
                   deviceVars>>

\* The signal of a receive is aborted.
Abort(t) ==
    /\ t \in Abortable /\ Waits(t)
    /\ At(t, "failed")
    /\ \E i \in DOMAIN channelWaiters :
          channelWaiters[i] = t /\ channelWaiters' = RemoveAt(channelWaiters, i)
    /\ UNCHANGED <<link, conns, hostVars, curMessageId, channelMessages, pump, deviceVars>>

\* close() cancels the channels, if there are any, ...
Close ==
    /\ link # "none" /\ ~closing /\ closing' = TRUE
    /\ IF Channels # {Broadcast} THEN sendMessage ELSE UNCHANGED curMessageId
    /\ UNCHANGED <<link, conns, isHandshakeComplete, lastChannelCode, channelCache,
                   channelMessages, channelWaiters, pump, task, deviceVars>>

\* ... and starts over, but for the two counters.
Closed ==
    /\ closing /\ closing' = FALSE
    /\ link' = "none" /\ isHandshakeComplete' = FALSE
    /\ channelCache' = [i \in Identifiers |-> NoCode]
    /\ channelMessages' = Fresh /\ rejectAllWaiters
    /\ wire' = << >> /\ asked' = {} /\ granted' = {} /\ events' = 0
    /\ UNCHANGED <<conns, lastChannelCode, curMessageId, pump>>

-----------------------------------------------------------------------------
(* The device.                                                             *)

\* It answers in any order; a channel is made or refused.
Answer(q, ok) ==
    /\ link = "up" /\ q \in asked
    /\ q.ch = Broadcast \/ ok
    /\ asked' = asked \ {q}
    /\ wire' = Append(wire, Message(q.ch, q.id, 1, ok))
    /\ granted' = IF q.ch = Broadcast /\ ok THEN granted \cup {q.code} ELSE granted
    /\ UNCHANGED <<link, conns, hostVars, curMessageId, channelMessages, channelWaiters, pump,
                   task, events>>

\* Something of its own: a stream's next element, a notification.
Event(c, id) ==
    /\ link = "up" /\ events < MaxEvents /\ events' = events + 1
    /\ wire' = Append(wire, Message(c, id, 0, TRUE))
    /\ UNCHANGED <<link, conns, hostVars, curMessageId, channelMessages, channelWaiters, pump,
                   task, asked, granted>>

\* The socket ends, with what was read of it still to be used.
Die ==
    /\ link = "up" /\ link' = "dead"
    /\ \E n \in 0 .. Len(wire) : wire' = SubSeq(wire, 1, n)
    /\ asked' = {} /\ granted' = {} /\ events' = 0
    /\ UNCHANGED <<conns, hostVars, curMessageId, channelMessages, channelWaiters, pump, task>>

Pump == PumpReads \/ PumpStops \/ PumpFails \/ PumpFinally
Next ==
    \/ Connect \/ Close \/ Closed \/ Pump \/ Die
    \/ \E t \in Abortable : Abort(t)
    \/ \E t \in Makers \cup Requesters : Written(t)
    \/ \E m \in Makers : MadeChannel(m) \/ \E i \in Identifiers : MakeChannel(m, i)
    \/ \E r \in Requesters, c \in Held : Call(r, c)
    \/ \E d \in Readers, c \in Held : Read(d, c)
    \/ \E q \in asked, ok \in BOOLEAN : Answer(q, ok)
    \/ \E c \in granted \cup {Broadcast}, id \in EventIds : Event(c, id)

Spec == Init /\ [][Next]_vars

\* Writes end, the pump runs and the device answers.
FairSpec ==
    /\ Spec
    /\ WF_vars(Pump) /\ WF_vars(Closed)
    /\ \A r \in Requesters : WF_vars(Written(r))
    /\ WF_vars(\E q \in asked, ok \in BOOLEAN : Answer(q, ok))

-----------------------------------------------------------------------------
(* Properties.                                                             *)

Places == {"new", "writing", "waiting", "received", "done", "failed"}
Messages == [ch : Nat, id : Nat, conv : {0, 1}, ok : BOOLEAN]
TaskStates == [at : Places, ch : Nat, code : Nat, id : Nat, for : Identifiers \cup {NoIdentifier},
               got : Messages]

\* Every variable has its type, and those in the list of waiters, and no
\* others, wait.
TypeOK ==
    /\ link \in {"none", "up", "dead"} /\ conns \in 0 .. MaxConns
    /\ isHandshakeComplete \in BOOLEAN /\ closing \in BOOLEAN
    /\ lastChannelCode \in Nat /\ curMessageId \in Nat
    /\ channelCache \in [Identifiers -> Nat]
    /\ Broadcast \in Channels /\ Channels \subseteq Nat
    /\ \A c \in Channels : channelMessages[c] \in Seq(Messages)
    /\ pump \in {"off", "on", "ending"}
    /\ task \in [Tasks -> TaskStates]
    /\ wire \in Seq(Messages) /\ granted \subseteq Nat /\ events \in 0 .. MaxEvents
    /\ asked \subseteq [ch : Nat, id : Nat, code : Nat]
    /\ channelWaiters \in Seq(Tasks)
    /\ Range(channelWaiters) = {t \in Tasks : Waits(t)} /\ IsInjective(channelWaiters)

\* While anybody waits the pump is there, or will be when the one that is
\* ending has ended: nobody waits for data that nobody reads.
PumpServes == channelWaiters # << >> => pump # "off"

\* The reply of a correlated call, and whether it is asked for or on its way.
ReplyTo(r) == Message(task[r].ch, task[r].id, 1, TRUE)
OnItsWay(r) ==
    \/ \E q \in asked : q.ch = task[r].ch /\ q.id = task[r].id
    \/ \E i \in DOMAIN wire : wire[i] = ReplyTo(r)

\* What a correlated call returns is the reply to its request, also when the
\* device used the same identifier for a message of its own.
OwnReply == \A r \in Requesters : task[r].at = "received" => task[r].got = ReplyTo(r)

\* The reply of a call that still waits is asked for or on its way: no reader
\* of the stream took it, and it is not queued unnoticed.
ReplyOnItsWay == \A r \in Requesters : Waits(r) /\ link = "up" => OnItsWay(r)

\* The correlated calls of all channels share the connection as calls that are
\* each answered once, with their own reply or not at all: no reply comes before
\* its request, and what a reader, a pump or close() does to one call leaves the
\* others as they are.
Stage(r) == CASE Waits(r) -> "asked" [] task[r].at = "received" -> "replied"
              [] task[r].at = "failed" -> "failed" [] OTHER -> "new"
Promise == INSTANCE RequestReply WITH
    Calls <- Requesters, None <- NoMessage,
    stage <- [r \in Requesters |-> Stage(r)],
    reply <- [r \in Requesters |-> IF task[r].at # "received" THEN NoMessage
                                   ELSE IF task[r].got = ReplyTo(r) THEN r ELSE task[r].got],
    pending <- {r \in Requesters : Waits(r) /\ OnItsWay(r)}
ImplementsRequestReply == Promise!Spec

\* Two channels never share a code, be they of two connections: a Channel kept
\* over close() and connect() does not speak on another's channel.
CodesDistinct ==
    \A m, n \in Makers :
        /\ m # n /\ task[m].code # NoCode /\ task[m].code = task[n].code
        => task[m].for = NoIdentifier \/ task[n].for = NoIdentifier

\* Every correlated call returns or throws.
Settles ==
    \A r \in Requesters : task[r].at = "writing" ~> task[r].at \in {"received", "failed"}
=============================================================================
