------------------------- MODULE DvtChannelsProofs -------------------------
(***************************************************************************)
(* Proofs about DvtChannels for all sets of calls and identifiers, and all *)
(* bounds.                                                                 *)
(***************************************************************************)
EXTENDS DvtChannels, SequenceTheorems, TLAPS

\* What RemoveAt leaves of a sequence.
LEMMA RemoveAtFacts ==
    ASSUME NEW S, NEW s \in Seq(S), NEW i \in DOMAIN s
    PROVE  /\ RemoveAt(s, i) \in Seq(S)
           /\ Len(RemoveAt(s, i)) = Len(s) - 1
           /\ \A j \in 1 .. Len(s) - 1 : RemoveAt(s, i)[j] = IF j < i THEN s[j] ELSE s[j + 1]
<1>1. i \in 1 .. Len(s) /\ Len(s) \in Nat /\ DOMAIN s = 1 .. Len(s) /\ \A j \in 1 .. Len(s) : s[j] \in S
  BY LenProperties, ElementOfSeq
<1>2. /\ SubSeq(s, 1, i - 1) \in Seq(S) /\ Len(SubSeq(s, 1, i - 1)) = i - 1
      /\ \A j \in 1 .. i - 1 : SubSeq(s, 1, i - 1)[j] = s[j]
  BY <1>1, SubSeqProperties
<1>3. /\ SubSeq(s, i + 1, Len(s)) \in Seq(S)
      /\ Len(SubSeq(s, i + 1, Len(s))) = Len(s) - i
      /\ \A j \in 1 .. Len(s) - i : SubSeq(s, i + 1, Len(s))[j] = s[i + j]
  BY <1>1, SubSeqProperties
<1>4. /\ RemoveAt(s, i) \in Seq(S) /\ Len(RemoveAt(s, i)) = Len(s) - 1
      /\ \A j \in 1 .. Len(s) - 1 :
            RemoveAt(s, i)[j] = IF j <= i - 1 THEN SubSeq(s, 1, i - 1)[j]
                                ELSE SubSeq(s, i + 1, Len(s))[j - (i - 1)]
  <2> DEFINE a == SubSeq(s, 1, i - 1)
             b == SubSeq(s, i + 1, Len(s))
  <2>1. RemoveAt(s, i) = a \o b
    BY DEF RemoveAt
  <2>2. /\ a \o b \in Seq(S) /\ Len(a \o b) = Len(a) + Len(b)
        /\ \A j \in 1 .. Len(a) + Len(b) : (a \o b)[j] = IF j <= Len(a) THEN a[j] ELSE b[j - Len(a)]
    BY <1>2, <1>3, ConcatProperties
  <2>3. Len(a) = i - 1 /\ Len(b) = Len(s) - i /\ Len(a) + Len(b) = Len(s) - 1
    BY <1>1, <1>2, <1>3
  <2> HIDE DEF a, b
  <2>4. QED
    BY <2>1, <2>2, <2>3 DEF a, b
<1>5. ASSUME NEW j \in 1 .. Len(s) - 1
      PROVE  RemoveAt(s, i)[j] = IF j < i THEN s[j] ELSE s[j + 1]
  <2>1. CASE j < i
    BY <1>1, <1>2, <1>4, <2>1
  <2>2. CASE j >= i
    <3>1. j - (i - 1) \in 1 .. Len(s) - i /\ i + (j - (i - 1)) = j + 1 /\ ~(j <= i - 1) /\ ~(j < i)
      BY <1>1, <2>2
    <3>2. SubSeq(s, i + 1, Len(s))[j - (i - 1)] = s[i + (j - (i - 1))]
      BY <1>3, <3>1
    <3> QED
      BY <1>4, <3>1, <3>2
  <2> QED
    BY <1>1, <2>1, <2>2
<1> QED
  BY <1>4, <1>5

\* An injective sequence loses one element, and only that.
LEMMA RemovedFromWaiters ==
    ASSUME NEW S, NEW s \in Seq(S), NEW i \in DOMAIN s, IsInjective(s)
    PROVE  IsInjective(RemoveAt(s, i)) /\ Range(RemoveAt(s, i)) = Range(s) \ {s[i]}
<1> DEFINE r == RemoveAt(s, i)
<1>1. r \in Seq(S) /\ DOMAIN r = 1 .. Len(s) - 1 /\ DOMAIN s = 1 .. Len(s) /\ Len(s) \in Nat
  BY RemoveAtFacts, LenProperties
<1>2. \A j \in 1 .. Len(s) - 1 : r[j] = IF j < i THEN s[j] ELSE s[j + 1]
  BY RemoveAtFacts
<1>3. IsInjective(r)
  <2> SUFFICES ASSUME NEW a \in DOMAIN r, NEW b \in DOMAIN r, r[a] = r[b] PROVE a = b
    BY DEF IsInjective
  <2> DEFINE at(j) == IF j < i THEN j ELSE j + 1
  <2>1. s[at(a)] = s[at(b)] /\ at(a) \in DOMAIN s /\ at(b) \in DOMAIN s
    BY <1>1, <1>2
  <2>2. at(a) = at(b)
    BY <2>1 DEF IsInjective
  <2>3. a \in Int /\ b \in Int /\ i \in Int
    BY <1>1
  <2> QED
    BY <2>2, <2>3
<1>4. \A j \in DOMAIN r : r[j] \in Range(s) /\ r[j] # s[i]
  <2> SUFFICES ASSUME NEW j \in DOMAIN r PROVE r[j] \in Range(s) /\ r[j] # s[i]
    OBVIOUS
  <2> DEFINE k == IF j < i THEN j ELSE j + 1
  <2>1. r[j] = s[k] /\ k \in DOMAIN s /\ k # i
    BY <1>1, <1>2
  <2> HIDE DEF k
  <2> QED
    BY <2>1 DEF IsInjective, Range
<1>5. \A j \in DOMAIN s : j # i => s[j] \in Range(r)
  <2> SUFFICES ASSUME NEW j \in DOMAIN s, j # i PROVE s[j] \in Range(r)
    OBVIOUS
  <2>1. CASE j < i
    <3>1. j \in DOMAIN r /\ r[j] = s[j]
      BY <1>1, <1>2, <2>1
    <3> QED
      BY <3>1 DEF Range
  <2>2. CASE j > i
    <3>1. j - 1 \in DOMAIN r /\ r[j - 1] = s[j]
      BY <1>1, <1>2, <2>2
    <3> QED
      BY <3>1 DEF Range
  <2> QED
    BY <1>1, <2>1, <2>2
<1> QED
  BY <1>3, <1>4, <1>5 DEF Range

\* ... or gets one it did not have.
LEMMA AppendedToWaiters ==
    ASSUME NEW S, NEW s \in Seq(S), NEW t \in S, IsInjective(s), t \notin Range(s)
    PROVE  /\ Append(s, t) \in Seq(S) /\ IsInjective(Append(s, t))
           /\ Range(Append(s, t)) = Range(s) \cup {t}
<1>1. /\ DOMAIN s = 1 .. Len(s) /\ Len(s) \in Nat /\ Append(s, t) \in Seq(S)
      /\ DOMAIN Append(s, t) = 1 .. Len(s) + 1
      /\ \A j \in 1 .. Len(s) : Append(s, t)[j] = s[j]
      /\ Append(s, t)[Len(s) + 1] = t
  BY AppendProperties, LenProperties
<1>2. IsInjective(Append(s, t))
  BY <1>1 DEF IsInjective, Range
<1>3. \A j \in DOMAIN Append(s, t) : Append(s, t)[j] \in Range(s) \cup {t}
  BY <1>1 DEF Range
<1>4. \A j \in DOMAIN s : s[j] \in Range(Append(s, t))
  BY <1>1 DEF Range
<1>5. t \in Range(Append(s, t))
  BY <1>1 DEF Range
<1> QED
  BY <1>1, <1>2, <1>3, <1>4, <1>5 DEF Range

-----------------------------------------------------------------------------
(* Types.                                                                  *)

\* Where a task may be put, and what it may be given there.
LEMMA TaskTypes ==
    /\ New \in TaskStates
    /\ \A s \in TaskStates, p \in Places :
          /\ [s EXCEPT !.at = p] \in TaskStates
          /\ [s EXCEPT !.at = p, !.id = 0, !.got = NoMessage] \in TaskStates
    /\ \A s \in TaskStates, p \in Places, m \in Messages :
          [s EXCEPT !.at = p, !.got = m] \in TaskStates
    /\ \A s \in TaskStates, p \in Places, c \in Nat :
          /\ [s EXCEPT !.at = p, !.code = c] \in TaskStates
          /\ [s EXCEPT !.ch = c, !.at = p] \in TaskStates
    /\ \A s \in TaskStates, p \in Places, c \in Nat, n \in Nat :
          [s EXCEPT !.at = p, !.ch = c, !.id = n] \in TaskStates
    /\ \A s \in TaskStates, p \in Places, c \in Nat, n \in Nat, i \in Identifiers :
          [s EXCEPT !.at = p, !.code = c, !.id = n, !.for = i] \in TaskStates
<1>1. NoMessage \in Messages
  BY DEF NoMessage, Message, Messages, Broadcast
<1>2. New \in TaskStates
  BY <1>1 DEF New, TaskStates, Places, Broadcast, NoCode
<1>3. \A s \in TaskStates, p \in Places :
          /\ [s EXCEPT !.at = p] \in TaskStates
          /\ [s EXCEPT !.at = p, !.id = 0, !.got = NoMessage] \in TaskStates
  BY <1>1 DEF TaskStates
<1>4. \A s \in TaskStates, p \in Places, m \in Messages :
          [s EXCEPT !.at = p, !.got = m] \in TaskStates
  BY DEF TaskStates
<1>5. \A s \in TaskStates, p \in Places, c \in Nat :
          /\ [s EXCEPT !.at = p, !.code = c] \in TaskStates
          /\ [s EXCEPT !.ch = c, !.at = p] \in TaskStates
  BY DEF TaskStates
<1>6. \A s \in TaskStates, p \in Places, c \in Nat, n \in Nat :
          [s EXCEPT !.at = p, !.ch = c, !.id = n] \in TaskStates
  BY DEF TaskStates
<1>7. \A s \in TaskStates, p \in Places, c \in Nat, n \in Nat, i \in Identifiers :
          [s EXCEPT !.at = p, !.code = c, !.id = n, !.for = i] \in TaskStates
  BY DEF TaskStates
<1> QED
  BY <1>2, <1>3, <1>4, <1>5, <1>6, <1>7

LEMMA OverType ==
    ASSUME TypeOK, NEW t \in Tasks, NEW p \in Places
    PROVE  Over(t, p) \in TaskStates /\ [New EXCEPT !.at = p] \in TaskStates
  BY TaskTypes DEF TypeOK, Over

LEMMA GotType ==
    ASSUME TypeOK, NEW t \in Tasks, NEW m \in Messages
    PROVE  Got(t, m) \in TaskStates
  BY TaskTypes DEF TypeOK, Got, Places

\* The queues of the fragmenters.
Queues(q) == /\ Broadcast \in DOMAIN q /\ DOMAIN q \subseteq Nat
             /\ \A c \in DOMAIN q : q[c] \in Seq(Messages)

LEMMA QueueTypes ==
    ASSUME TypeOK
    PROVE  /\ Queues(channelMessages) /\ Queues(Fresh)
           /\ \A c \in Nat : Queue(c) \in Seq(Messages)
           /\ \A c \in Nat, s \in Seq(Messages) : Queues(Put(c, s))
<1>1. << >> \in Seq(Messages)
  BY EmptySeq
<1> QED
  BY <1>1 DEF TypeOK, Queues, Fresh, Put, Queue, Channels, Broadcast

\* Those who wait are the waiters, in a state of the tasks and the list.
WaitersOf(ws, ts) == /\ ws \in Seq(Tasks) /\ IsInjective(ws)
                     /\ Range(ws) = {t \in Tasks : ts[t].at = "waiting"}

LEMMA TypeParts ==
    TypeOK => WaitersOf(channelWaiters, task) /\ task \in [Tasks -> TaskStates]
  BY DEF TypeOK, WaitersOf, Waits

\* A task that does not wait may do what it likes but wait.
LEMMA OthersKeepWaiters ==
    ASSUME TypeOK, NEW t \in Tasks, task[t].at # "waiting", NEW s \in TaskStates, s.at # "waiting"
    PROVE  WaitersOf(channelWaiters, [task EXCEPT ![t] = s])
  BY DEF TypeOK, WaitersOf, Waits

\* A task joins the list and waits.
LEMMA JoinsWaiters ==
    ASSUME TypeOK, NEW t \in Tasks, task[t].at # "waiting", NEW s \in TaskStates, s.at = "waiting"
    PROVE  WaitersOf(Append(channelWaiters, t), [task EXCEPT ![t] = s])
<1>1. t \notin Range(channelWaiters)
  BY DEF TypeOK, Waits
<1> QED
  BY <1>1, AppendedToWaiters DEF TypeOK, WaitersOf, Waits

\* A waiter leaves the list and waits no more.
LEMMA LeavesWaiters ==
    ASSUME TypeOK, NEW i \in DOMAIN channelWaiters, NEW s \in TaskStates, s.at # "waiting"
    PROVE  /\ channelWaiters[i] \in Tasks /\ Waits(channelWaiters[i])
           /\ WaitersOf(RemoveAt(channelWaiters, i), [task EXCEPT ![channelWaiters[i]] = s])
<1>1. channelWaiters[i] \in Range(channelWaiters)
  BY DEF Range
<1>2. channelWaiters[i] \in Tasks /\ Waits(channelWaiters[i])
  BY <1>1 DEF TypeOK
<1>3. /\ RemoveAt(channelWaiters, i) \in Seq(Tasks) /\ IsInjective(RemoveAt(channelWaiters, i))
      /\ Range(RemoveAt(channelWaiters, i)) = Range(channelWaiters) \ {channelWaiters[i]}
  BY RemoveAtFacts, RemovedFromWaiters DEF TypeOK
<1>4. Range(channelWaiters) = {t \in Tasks : task[t].at = "waiting"} /\ task \in [Tasks -> TaskStates]
  BY DEF TypeOK, Waits
<1> QED
  BY <1>2, <1>3, <1>4 DEF WaitersOf

\* Nobody is left waiting.
LEMMA NobodyWaits ==
    ASSUME TypeOK, rejectAllWaiters
    PROVE  task' \in [Tasks -> TaskStates] /\ WaitersOf(channelWaiters', task')
<1>1. \A t \in Tasks : Over(t, "failed") \in TaskStates /\ Over(t, "failed").at # "waiting"
  <2>1. New \in TaskStates /\ "failed" \in Places
    BY TaskTypes DEF Places
  <2> QED
    BY <2>1, OverType DEF Over, TaskStates
<1>2. task' \in [Tasks -> TaskStates] /\ \A t \in Tasks : task'[t].at # "waiting"
  BY <1>1 DEF rejectAllWaiters, TypeOK, Waits
<1>3. << >> \in Seq(Tasks) /\ IsInjective(<< >>) /\ Range(<< >>) = {}
  BY EmptySeq DEF IsInjective, Range
<1> QED
  BY <1>2, <1>3 DEF rejectAllWaiters, WaitersOf

LEMMA GotPlace ==
    ASSUME NEW t \in Tasks, NEW m, TypeOK
    PROVE  Got(t, m).at \in {"new", "received"}
  BY DEF Got, New, TypeOK, TaskStates

\* What receiving leaves behind.
LEMMA ReceivingTypes ==
    ASSUME TypeOK, NEW t \in Tasks, NEW c \in Channels, ~Waits(t), recvPacketFragments(t, c)
    PROVE  /\ task' \in [Tasks -> TaskStates] /\ WaitersOf(channelWaiters', task')
           /\ Queues(channelMessages') /\ pump' \in {"off", "on", "ending"}
<1> DEFINE q == channelMessages[c]
           fits == {i \in DOMAIN q : Takes(t, q[i])}
<1>1. q \in Seq(Messages) /\ c \in Nat /\ task[t] \in TaskStates /\ task[t].at # "waiting"
  BY DEF TypeOK, Waits
<1>2. CASE /\ task' = [task EXCEPT ![t].at = "waiting"]
           /\ channelWaiters' = Append(channelWaiters, t)
           /\ pump' = IF pump = "off" THEN "on" ELSE pump
           /\ UNCHANGED channelMessages
  <2> DEFINE s == [task[t] EXCEPT !.at = "waiting"]
  <2>1. s \in TaskStates /\ s.at = "waiting" /\ task' = [task EXCEPT ![t] = s]
    <3>1. "waiting" \in Places
      BY DEF Places
    <3>2. s.at = "waiting"
      BY <1>1 DEF TaskStates
    <3> QED
      BY <1>1, <1>2, <3>1, <3>2, TaskTypes DEF TypeOK
  <2>2. WaitersOf(channelWaiters', task')
    BY <1>1, <1>2, <2>1, JoinsWaiters
  <2> QED
    BY <1>2, <2>1, <2>2, QueueTypes DEF TypeOK
<1>3. ASSUME NEW i \in fits,
             task' = [task EXCEPT ![t] = Got(t, q[i])],
             channelMessages' = Put(c, RemoveAt(q, i)),
             UNCHANGED <<channelWaiters, pump>>
      PROVE  /\ task' \in [Tasks -> TaskStates] /\ WaitersOf(channelWaiters', task')
             /\ Queues(channelMessages') /\ pump' \in {"off", "on", "ending"}
  <2>1. q[i] \in Messages /\ RemoveAt(q, i) \in Seq(Messages)
    BY <1>1, ElementOfSeq, LenProperties, RemoveAtFacts
  <2>2. Got(t, q[i]) \in TaskStates /\ Got(t, q[i]).at # "waiting"
    BY <2>1, GotType, GotPlace
  <2>3. WaitersOf(channelWaiters', task')
    BY <1>1, <1>3, <2>2, OthersKeepWaiters
  <2> QED
    BY <1>1, <1>3, <2>1, <2>2, <2>3, QueueTypes DEF TypeOK
<1> QED
  BY <1>2, <1>3 DEF recvPacketFragments

\* What the pump leaves behind of a message.
LEMMA DeliveryTypes ==
    ASSUME TypeOK, NEW m \in Messages, deliverQueuedMessages(m)
    PROVE  /\ task' \in [Tasks -> TaskStates] /\ WaitersOf(channelWaiters', task')
           /\ Queues(channelMessages')
<1>1. m.ch \in Nat /\ Queue(m.ch) \in Seq(Messages)
  BY QueueTypes DEF Messages
<1>2. CASE /\ channelMessages' = Put(m.ch, Append(Queue(m.ch), m))
           /\ UNCHANGED <<channelWaiters, task>>
  <2>1. Append(Queue(m.ch), m) \in Seq(Messages)
    BY <1>1, AppendProperties
  <2> QED
    BY <1>1, <1>2, <2>1, QueueTypes, TypeParts
<1>3. ASSUME NEW i \in Claimants(m), Serve(i, m), channelMessages' = Put(m.ch, Queue(m.ch))
      PROVE  /\ task' \in [Tasks -> TaskStates] /\ WaitersOf(channelWaiters', task')
             /\ Queues(channelMessages')
  <2>1. i \in DOMAIN channelWaiters
    BY DEF Claimants
  <2>2. channelWaiters[i] \in Tasks
    BY <2>1, ElementOfSeq, LenProperties DEF TypeOK
  <2>3. Got(channelWaiters[i], m) \in TaskStates /\ Got(channelWaiters[i], m).at # "waiting"
    BY <2>2, GotType, GotPlace
  <2>4. WaitersOf(channelWaiters', task')
    BY <1>3, <2>1, <2>3, LeavesWaiters DEF Serve
  <2> QED
    BY <1>1, <1>3, <2>2, <2>3, <2>4, QueueTypes DEF TypeOK, Serve
<1> QED
  BY <1>2, <1>3 DEF deliverQueuedMessages

\* Every variable keeps its type, and the list of waiters is exact.
THEOREM TypeCorrect == Spec => []TypeOK
<1>1. Init => TypeOK
  <2> SUFFICES ASSUME Init PROVE TypeOK
    OBVIOUS
  <2>1. << >> \in Seq(Messages) /\ << >> \in Seq(Tasks) /\ IsInjective(<< >>) /\ Range(<< >>) = {}
    BY EmptySeq DEF IsInjective, Range
  <2>2. \A t \in Tasks : task[t] = New
    BY DEF Init
  <2>3. {t \in Tasks : Waits(t)} = {}
    BY <2>2 DEF New, Waits
  <2>4. task \in [Tasks -> TaskStates]
    BY TaskTypes DEF Init
  <2>5. Broadcast \in Channels /\ Channels \subseteq Nat /\ \A c \in Channels : channelMessages[c] \in Seq(Messages)
    BY <2>1 DEF Init, Fresh, Channels, Broadcast
  <2>6. channelCache \in [Identifiers -> Nat]
    BY DEF Init, NoCode
  <2>7. /\ link \in {"none", "up", "dead"} /\ conns \in 0 .. MaxConns
        /\ isHandshakeComplete \in BOOLEAN /\ closing \in BOOLEAN
        /\ lastChannelCode \in Nat /\ curMessageId \in Nat
        /\ pump \in {"off", "on", "ending"} /\ granted \subseteq Nat /\ events \in 0 .. MaxEvents
        /\ asked \subseteq [ch : Nat, id : Nat, code : Nat]
    <3>1. /\ link = "none" /\ conns = 0 /\ isHandshakeComplete = FALSE /\ closing = FALSE
          /\ lastChannelCode = 0 /\ curMessageId = 0 /\ pump = "off" /\ granted = {}
          /\ events = 0 /\ asked = {}
      BY DEF Init
    <3>2. 0 \in 0 .. MaxConns /\ 0 \in 0 .. MaxEvents
      BY BoundsAssumption
    <3> QED
      BY <3>1, <3>2
  <2>8. /\ channelWaiters \in Seq(Tasks) /\ Range(channelWaiters) = {t \in Tasks : Waits(t)}
        /\ IsInjective(channelWaiters) /\ wire \in Seq(Messages)
    BY <2>1, <2>3 DEF Init
  <2> QED
    BY <2>4, <2>5, <2>6, <2>7, <2>8 DEF TypeOK
<1>2. TypeOK /\ [Next]_vars => TypeOK'
  <2> SUFFICES ASSUME TypeOK, [Next]_vars PROVE TypeOK'
    OBVIOUS
  <2> USE BoundsAssumption
  <2>0. ASSUME /\ task' \in [Tasks -> TaskStates] /\ WaitersOf(channelWaiters', task')
               /\ Queues(channelMessages')
               /\ link' \in {"none", "up", "dead"} /\ conns' \in 0 .. MaxConns
               /\ isHandshakeComplete' \in BOOLEAN /\ closing' \in BOOLEAN
               /\ lastChannelCode' \in Nat /\ curMessageId' \in Nat
               /\ channelCache' \in [Identifiers -> Nat] /\ pump' \in {"off", "on", "ending"}
               /\ wire' \in Seq(Messages) /\ granted' \subseteq Nat /\ events' \in 0 .. MaxEvents
               /\ asked' \subseteq [ch : Nat, id : Nat, code : Nat]
        PROVE  TypeOK'
    BY <2>0 DEF TypeOK, WaitersOf, Waits, Queues, Channels
  <2> DEFINE Same == /\ WaitersOf(channelWaiters, task) /\ task \in [Tasks -> TaskStates]
                     /\ Queues(channelMessages)
  <2>s. Same
    BY TypeParts, QueueTypes
  <2>1. CASE Connect
    <3>1. link' \in {"none", "up", "dead"} /\ isHandshakeComplete' \in BOOLEAN
      BY <2>1 DEF Connect, TypeOK
    <3>2. conns' \in 0 .. MaxConns /\ curMessageId' \in Nat
      BY <2>1 DEF Connect, sendMessage, TypeOK
    <3>3. UNCHANGED <<closing, lastChannelCode, channelCache, channelMessages, channelWaiters, pump,
                      task, deviceVars>>
      BY <2>1 DEF Connect
    <3> QED
      BY <2>0, <2>s, <3>1, <3>2, <3>3 DEF deviceVars, TypeOK
  <2>2. CASE Close
    BY <2>0, <2>s, <2>2 DEF Close, deviceVars, TypeOK, sendMessage
  <2>3. CASE Closed
    <3>1. << >> \in Seq(Messages)
      BY EmptySeq
    <3>2. channelCache' \in [Identifiers -> Nat]
      BY <2>3 DEF Closed, NoCode
    <3>3. /\ task' \in [Tasks -> TaskStates] /\ WaitersOf(channelWaiters', task')
          /\ Queues(channelMessages')
      BY <2>3, NobodyWaits, QueueTypes DEF Closed
    <3>4. 0 \in 0 .. MaxEvents
      OBVIOUS
    <3>5. /\ link' = "none" /\ isHandshakeComplete' = FALSE /\ closing' = FALSE /\ wire' = << >>
          /\ asked' = {} /\ granted' = {} /\ events' = 0
          /\ UNCHANGED <<conns, lastChannelCode, curMessageId, pump>>
      BY <2>3 DEF Closed
    <3> QED
      BY <2>0, <3>1, <3>2, <3>3, <3>4, <3>5 DEF TypeOK
  <2>4. CASE PumpReads
    <3>1. Head(wire) \in Messages /\ Tail(wire) \in Seq(Messages)
      BY <2>4, HeadTailProperties DEF PumpReads, TypeOK
    <3>2. deliverQueuedMessages(Head(wire))
      BY <2>4 DEF PumpReads
    <3>3. curMessageId' \in Nat
      BY <2>4, <3>1 DEF PumpReads, TypeOK, Messages
    <3> QED
      BY <2>0, <2>4, <3>1, <3>2, <3>3, DeliveryTypes DEF PumpReads, hostVars, TypeOK
  <2>5. CASE PumpStops
    BY <2>0, <2>s, <2>5 DEF PumpStops, hostVars, deviceVars, TypeOK
  <2>6. CASE PumpFails
    BY <2>0, <2>6, NobodyWaits, QueueTypes DEF PumpFails, hostVars, deviceVars, TypeOK
  <2>7. CASE PumpFinally
    BY <2>0, <2>s, <2>7 DEF PumpFinally, PumpEnds, hostVars, deviceVars, TypeOK
  <2>8. CASE Die
    <3>1. PICK n \in 0 .. Len(wire) : wire' = SubSeq(wire, 1, n)
      BY <2>8 DEF Die
    <3>2. wire' \in Seq(Messages)
      <4>1. n \in Int /\ 1 \in Int /\ \A i \in 1 .. n : wire[i] \in Messages
        BY LenProperties, ElementOfSeq DEF TypeOK
      <4> QED
        BY <3>1, <4>1, SubSeqProperties
    <3> QED
      BY <2>0, <2>s, <2>8, <3>2 DEF Die, hostVars, TypeOK
  <2>9. ASSUME NEW t \in Abortable, Abort(t) PROVE TypeOK'
    <3>1. PICK i \in DOMAIN channelWaiters :
             channelWaiters[i] = t /\ channelWaiters' = RemoveAt(channelWaiters, i)
      BY <2>9 DEF Abort
    <3>2. t \in Tasks
      BY TasksAssumption DEF Tasks
    <3>3. Over(t, "failed") \in TaskStates /\ Over(t, "failed").at # "waiting"
      BY <3>2, OverType DEF Places, Over, New
    <3>4. WaitersOf(channelWaiters', task')
      BY <2>9, <3>1, <3>3, LeavesWaiters DEF Abort, At
    <3> QED
      BY <2>0, <2>s, <2>9, <3>2, <3>3, <3>4 DEF Abort, At, hostVars, deviceVars, TypeOK
  <2>10. ASSUME NEW t \in Makers \cup Requesters, Written(t) PROVE TypeOK'
    <3>1. t \in Tasks /\ ~Waits(t) /\ task[t] \in TaskStates
      BY <2>10 DEF Tasks, Written, Waits, TypeOK
    <3>2. [ch |-> task[t].ch, id |-> task[t].id, code |-> task[t].code] \in [ch : Nat, id : Nat, code : Nat]
      BY <3>1 DEF TaskStates
    <3>3. asked' \subseteq [ch : Nat, id : Nat, code : Nat]
      BY <2>10, <3>2 DEF Written, TypeOK
    <3>4. /\ task' \in [Tasks -> TaskStates] /\ WaitersOf(channelWaiters', task')
          /\ Queues(channelMessages') /\ pump' \in {"off", "on", "ending"}
      <4>1. CASE At(t, "failed") /\ UNCHANGED <<channelMessages, channelWaiters, pump>>
        <5>1. Over(t, "failed") \in TaskStates /\ Over(t, "failed").at # "waiting"
          BY <3>1, OverType DEF Places, Over, New
        <5>2. WaitersOf(channelWaiters', task')
          BY <3>1, <4>1, <5>1, OthersKeepWaiters DEF At, Waits
        <5> QED
          BY <2>s, <4>1, <5>1, <5>2 DEF At, TypeOK
      <4>2. CASE task[t].ch \in Channels /\ recvPacketFragments(t, task[t].ch)
        BY <3>1, <4>2, ReceivingTypes
      <4> QED
        BY <2>10, <4>1, <4>2 DEF Written, Receive
    <3> QED
      BY <2>0, <2>10, <3>3, <3>4 DEF Written, hostVars, TypeOK
  <2>11. ASSUME NEW m \in Makers, MadeChannel(m) PROVE TypeOK'
    <3>1. m \in Tasks /\ task[m] \in TaskStates /\ task[m].at = "received" /\ task[m].code \in Nat
      BY <2>11 DEF Tasks, MadeChannel, TypeOK, TaskStates
    <3>2. ASSUME NEW p \in {"done", "failed"}
          PROVE  Over(m, p) \in TaskStates /\ Over(m, p).at # "waiting"
      <4>1. p \in Places
        BY DEF Places
      <4>2. Over(m, p).at = p
        BY <3>1 DEF Over, New, TaskStates
      <4> QED
        BY <3>1, <4>1, <4>2, OverType
    <3>3. ASSUME NEW p \in {"done", "failed"}, At(m, p), UNCHANGED channelWaiters
          PROVE  task' \in [Tasks -> TaskStates] /\ WaitersOf(channelWaiters', task')
      BY <2>s, <3>1, <3>2, <3>3, OthersKeepWaiters DEF At, Waits
    <3>4. << >> \in Seq(Messages)
      BY EmptySeq
    <3>5. Queues(channelMessages')
      BY <2>s, <2>11, <3>1, <3>4, QueueTypes DEF MadeChannel
    <3>6. channelCache' \in [Identifiers -> Nat]
      BY <2>11, <3>1 DEF MadeChannel, TypeOK
    <3>7. task' \in [Tasks -> TaskStates] /\ WaitersOf(channelWaiters', task')
      BY <2>11, <3>3 DEF MadeChannel
    <3> QED
      BY <2>0, <2>11, <3>5, <3>6, <3>7 DEF MadeChannel, deviceVars, TypeOK
  <2>12. ASSUME NEW m \in Makers, NEW i \in Identifiers, MakeChannel(m, i) PROVE TypeOK'
    <3>1. m \in Tasks /\ task[m] \in TaskStates /\ task[m].at = "new" /\ channelCache[i] \in Nat
      BY <2>12 DEF Tasks, MakeChannel, TypeOK
    <3>2. NextCode \in Nat /\ curMessageId + 1 \in Nat /\ lastChannelCode' \in Nat /\ curMessageId' \in Nat
      BY <2>12 DEF MakeChannel, NextCode, sendMessage, TypeOK
    <3>3. /\ [task[m] EXCEPT !.at = "done", !.code = channelCache[i]] \in TaskStates
          /\ [task[m] EXCEPT !.at = "writing", !.code = NextCode, !.id = curMessageId + 1, !.for = i]
                \in TaskStates
      BY <3>1, <3>2, TaskTypes DEF Places
    <3>4. PICK s \in TaskStates : s.at # "waiting" /\ task' = [task EXCEPT ![m] = s]
      <4>1. CASE task' = [task EXCEPT ![m].at = "done", ![m].code = channelCache[i]]
        <5>1. task' = [task EXCEPT ![m] = [task[m] EXCEPT !.at = "done", !.code = channelCache[i]]]
          BY <4>1, <3>1 DEF TypeOK
        <5>2. [task[m] EXCEPT !.at = "done", !.code = channelCache[i]].at = "done"
          BY <3>1 DEF TaskStates
        <5> QED
          BY <3>3, <5>1, <5>2
      <4>2. CASE task' = [task EXCEPT ![m].at = "writing", ![m].code = NextCode,
                                      ![m].id = curMessageId + 1, ![m].for = i]
        <5>1. task' = [task EXCEPT ![m] = [task[m] EXCEPT !.at = "writing", !.code = NextCode,
                                                           !.id = curMessageId + 1, !.for = i]]
          BY <4>2, <3>1 DEF TypeOK
        <5>2. [task[m] EXCEPT !.at = "writing", !.code = NextCode, !.id = curMessageId + 1,
                              !.for = i].at = "writing"
          BY <3>1 DEF TaskStates
        <5> QED
          BY <3>3, <5>1, <5>2
      <4> QED
        BY <2>12, <4>1, <4>2 DEF MakeChannel
    <3>5. task' \in [Tasks -> TaskStates] /\ WaitersOf(channelWaiters', task')
      BY <2>s, <2>12, <3>1, <3>4, OthersKeepWaiters DEF MakeChannel
    <3> QED
      BY <2>0, <2>s, <2>12, <3>2, <3>5 DEF MakeChannel, deviceVars, TypeOK
  <2>13. ASSUME NEW r \in Requesters, NEW c \in Held, Call(r, c) PROVE TypeOK'
    <3>1. r \in Tasks /\ task[r] \in TaskStates /\ task[r].at = "new"
      BY <2>13 DEF Tasks, Call, TypeOK
    <3>2. c \in Nat /\ curMessageId + 1 \in Nat
      BY DEF Held, TypeOK, Tasks, TaskStates
    <3> DEFINE s == [task[r] EXCEPT !.at = "writing", !.ch = c, !.id = curMessageId + 1]
    <3>3. s \in TaskStates /\ s.at = "writing"
      <4>1. "writing" \in Places
        BY DEF Places
      <4>2. s.at = "writing"
        BY <3>1 DEF TaskStates
      <4> QED
        BY <3>1, <3>2, <4>1, <4>2, TaskTypes
    <3>4. task' = [task EXCEPT ![r] = s]
      BY <2>13, <3>1 DEF Call, TypeOK
    <3>5. task' \in [Tasks -> TaskStates] /\ WaitersOf(channelWaiters', task')
      <4> HIDE DEF s
      <4>1. channelWaiters' = channelWaiters
        BY <2>13 DEF Call
      <4>2. WaitersOf(channelWaiters, [task EXCEPT ![r] = s])
        BY <3>1, <3>3, OthersKeepWaiters
      <4>3. [task EXCEPT ![r] = s] \in [Tasks -> TaskStates]
        BY <2>s, <3>3
      <4> QED
        BY <3>4, <4>1, <4>2, <4>3
    <3> QED
      BY <2>0, <2>s, <2>13, <3>2, <3>5 DEF Call, sendMessage, hostVars, deviceVars, TypeOK
  <2>14. ASSUME NEW d \in Readers, NEW c \in Held, Read(d, c) PROVE TypeOK'
    <3>1. d \in Tasks /\ task[d] \in TaskStates /\ task[d].at = "new" /\ c \in Nat /\ c \in Channels
      BY <2>14 DEF Tasks, Read, Held, TypeOK, TaskStates
    <3>2. CASE channelMessages[c] # << >>
      <4>1. Tail(channelMessages[c]) \in Seq(Messages)
        BY <3>1, <3>2, HeadTailProperties DEF TypeOK
      <4>2. /\ Queues(channelMessages')
            /\ UNCHANGED <<task, channelWaiters, pump>>
        BY <2>14, <3>1, <3>2, <4>1, QueueTypes DEF Read
      <4> QED
        BY <2>0, <2>s, <2>14, <4>2 DEF Read, hostVars, deviceVars, TypeOK
    <3>3. CASE channelMessages[c] = << >>
      <4> DEFINE s == [task[d] EXCEPT !.ch = c, !.at = "waiting"]
      <4>1. s \in TaskStates /\ s.at = "waiting"
        <5>1. "waiting" \in Places
          BY DEF Places
        <5>2. s.at = "waiting"
          BY <3>1 DEF TaskStates
        <5> QED
          BY <3>1, <5>1, <5>2, TaskTypes
      <4>2. /\ task' = [task EXCEPT ![d] = s] /\ channelWaiters' = Append(channelWaiters, d)
            /\ UNCHANGED channelMessages /\ pump' \in {"off", "on", "ending"}
        BY <2>14, <3>1, <3>3 DEF Read, TypeOK
      <4>3. task' \in [Tasks -> TaskStates] /\ WaitersOf(channelWaiters', task')
        BY <2>s, <3>1, <4>1, <4>2, JoinsWaiters
      <4> QED
        BY <2>0, <2>s, <2>14, <4>2, <4>3 DEF Read, hostVars, deviceVars, TypeOK
    <3> QED
      BY <3>2, <3>3
  <2>15. ASSUME NEW q \in asked, NEW ok \in BOOLEAN, Answer(q, ok) PROVE TypeOK'
    <3>1. q \in [ch : Nat, id : Nat, code : Nat]
      BY DEF TypeOK
    <3>2. Message(q.ch, q.id, 1, ok) \in Messages
      BY <3>1 DEF Message, Messages
    <3>3. Append(wire, Message(q.ch, q.id, 1, ok)) \in Seq(Messages)
      BY <3>2, AppendProperties DEF TypeOK
    <3> QED
      BY <2>0, <2>s, <2>15, <3>1, <3>3 DEF Answer, hostVars, TypeOK
  <2>16. ASSUME NEW c \in granted \cup {Broadcast}, NEW id \in EventIds, Event(c, id) PROVE TypeOK'
    <3>1. Message(c, id, 0, TRUE) \in Messages
      BY DEF Message, Messages, TypeOK, Broadcast
    <3>2. Append(wire, Message(c, id, 0, TRUE)) \in Seq(Messages)
      BY <3>1, AppendProperties DEF TypeOK
    <3> QED
      <4>0. events < MaxEvents /\ events' = events + 1 /\ events \in 0 .. MaxEvents
        BY <2>16 DEF Event, TypeOK
      <4>1. events' \in 0 .. MaxEvents /\ wire' \in Seq(Messages)
        <5>1. events' \in 0 .. MaxEvents
          BY <4>0
        <5>2. wire' = Append(wire, Message(c, id, 0, TRUE))
          BY <2>16 DEF Event
        <5> QED
          BY <3>2, <5>1, <5>2
      <4>2. UNCHANGED <<link, conns, hostVars, curMessageId, channelMessages, channelWaiters, pump,
                        task, asked, granted>>
        BY <2>16 DEF Event
      <4> QED
        BY <2>0, <2>s, <4>1, <4>2 DEF hostVars, TypeOK
  <2>17. CASE UNCHANGED vars
    BY <2>0, <2>s, <2>17 DEF vars, hostVars, deviceVars, TypeOK
  <2> QED
    BY <2>1, <2>2, <2>3, <2>4, <2>5, <2>6, <2>7, <2>8, <2>9, <2>10, <2>11, <2>12, <2>13, <2>14,
       <2>15, <2>16, <2>17 DEF Next, Pump
<1> QED
  BY <1>1, <1>2, PTL DEF Spec

-----------------------------------------------------------------------------
(* The pump.                                                               *)

\* Nobody waits for data that nobody reads.
THEOREM PumpServesSafe == Spec => []PumpServes
<1>1. Init => PumpServes
  BY DEF Init, PumpServes
<1>2. PumpServes /\ [Next]_vars => PumpServes'
  <2> SUFFICES ASSUME PumpServes, [Next]_vars PROVE PumpServes'
    OBVIOUS
  <2>1. CASE Connect \/ Close \/ Die \/ UNCHANGED vars
    BY <2>1 DEF Connect, Close, Die, vars, hostVars, deviceVars, PumpServes
  <2>2. CASE Closed
    BY <2>2 DEF Closed, rejectAllWaiters, PumpServes
  <2>3. CASE Pump
    BY <2>3 DEF Pump, PumpReads, PumpStops, PumpFails, PumpFinally, PumpEnds, rejectAllWaiters,
                PumpServes
  <2>4. ASSUME NEW t \in Abortable, Abort(t) PROVE PumpServes'
    BY <2>4 DEF Abort, PumpServes
  <2>5. ASSUME NEW t \in Makers \cup Requesters, Written(t) PROVE PumpServes'
    BY <2>5 DEF Written, Receive, recvPacketFragments, PumpServes
  <2>6. ASSUME NEW m \in Makers, MadeChannel(m) \/ \E i \in Identifiers : MakeChannel(m, i)
        PROVE  PumpServes'
    BY <2>6 DEF MadeChannel, MakeChannel, PumpServes
  <2>7. ASSUME NEW r \in Requesters, NEW c \in Held, Call(r, c) PROVE PumpServes'
    BY <2>7 DEF Call, PumpServes
  <2>8. ASSUME NEW d \in Readers, NEW c \in Held, Read(d, c) PROVE PumpServes'
    BY <2>8 DEF Read, PumpServes
  <2>9. CASE \/ \E q \in asked, ok \in BOOLEAN : Answer(q, ok)
             \/ \E c \in granted \cup {Broadcast}, id \in EventIds : Event(c, id)
    BY <2>9 DEF Answer, Event, PumpServes
  <2> QED
    BY <2>1, <2>2, <2>3, <2>4, <2>5, <2>6, <2>7, <2>8, <2>9 DEF Next
<1> QED
  BY <1>1, <1>2, PTL DEF Spec

-----------------------------------------------------------------------------
(* What is on its way or queued.                                           *)

\* Only requests for a channel are refused, and a fragmenter has what came on
\* its channel.
SoundQueue(c, q) ==
    \A i \in DOMAIN q : q[i].ch = c /\ (c # Broadcast => q[i].ok = TRUE)
Sound ==
    /\ \A i \in DOMAIN wire : wire[i].ch # Broadcast => wire[i].ok = TRUE
    /\ \A c \in Channels : SoundQueue(c, channelMessages[c])

LEMMA SoundParts ==
    ASSUME NEW c, NEW q \in Seq(Messages), SoundQueue(c, q)
    PROVE  /\ SoundQueue(c, << >>)
           /\ \A i \in DOMAIN q : SoundQueue(c, RemoveAt(q, i))
           /\ q # << >> => SoundQueue(c, Tail(q))
           /\ \A m \in Messages : m.ch = c /\ (c # Broadcast => m.ok = TRUE)
                                    => SoundQueue(c, Append(q, m))
<1>1. Len(q) \in Nat /\ DOMAIN q = 1 .. Len(q)
  BY LenProperties
<1>2. SoundQueue(c, << >>)
  BY DEF SoundQueue
<1>3. ASSUME NEW i \in DOMAIN q PROVE SoundQueue(c, RemoveAt(q, i))
  <2>1. /\ RemoveAt(q, i) \in Seq(Messages) /\ Len(RemoveAt(q, i)) = Len(q) - 1
        /\ \A j \in 1 .. Len(q) - 1 : RemoveAt(q, i)[j] = IF j < i THEN q[j] ELSE q[j + 1]
    BY RemoveAtFacts
  <2>2. DOMAIN RemoveAt(q, i) = 1 .. Len(q) - 1
    BY <2>1, LenProperties
  <2>3. \A j \in 1 .. Len(q) - 1 : j \in DOMAIN q /\ j + 1 \in DOMAIN q
    BY <1>1
  <2> QED
    BY <2>1, <2>2, <2>3 DEF SoundQueue
<1>4. ASSUME q # << >> PROVE SoundQueue(c, Tail(q))
  <2>1. /\ Tail(q) \in Seq(Messages) /\ Len(Tail(q)) = Len(q) - 1
        /\ \A j \in 1 .. Len(Tail(q)) : Tail(q)[j] = q[j + 1]
    BY <1>4, HeadTailProperties
  <2>2. DOMAIN Tail(q) = 1 .. Len(q) - 1
    BY <2>1, LenProperties
  <2>3. \A j \in 1 .. Len(q) - 1 : j + 1 \in DOMAIN q
    BY <1>1
  <2> QED
    BY <2>1, <2>2, <2>3 DEF SoundQueue
<1>5. ASSUME NEW m \in Messages, m.ch = c, c # Broadcast => m.ok = TRUE
      PROVE  SoundQueue(c, Append(q, m))
  <2>1. /\ DOMAIN Append(q, m) = 1 .. Len(q) + 1 /\ Append(q, m)[Len(q) + 1] = m
        /\ \A j \in 1 .. Len(q) : Append(q, m)[j] = q[j]
    BY AppendProperties, LenProperties
  <2> QED
    BY <1>1, <1>5, <2>1 DEF SoundQueue
<1> QED
  BY <1>2, <1>3, <1>4, <1>5

LEMMA SoundPut ==
    ASSUME Sound, NEW c, NEW q, SoundQueue(c, q), channelMessages' = Put(c, q)
    PROVE  \A d \in Channels' : SoundQueue(d, channelMessages'[d])
  BY DEF Sound, Put, Channels

LEMMA SoundFetched ==
    ASSUME TypeOK, Sound, NEW t \in Tasks, NEW c \in Channels, recvPacketFragments(t, c)
    PROVE  \A d \in Channels' : SoundQueue(d, channelMessages'[d])
<1> DEFINE q == channelMessages[c]
<1>1. q \in Seq(Messages) /\ SoundQueue(c, q)
  BY DEF TypeOK, Sound
<1>2. CASE UNCHANGED channelMessages
  BY <1>2 DEF Sound, Channels
<1>3. ASSUME NEW i \in DOMAIN q, channelMessages' = Put(c, RemoveAt(q, i))
      PROVE  \A d \in Channels' : SoundQueue(d, channelMessages'[d])
  BY <1>1, <1>3, SoundParts, SoundPut
<1> QED
  BY <1>2, <1>3 DEF recvPacketFragments

LEMMA SoundDelivered ==
    ASSUME TypeOK, Sound, NEW m \in Messages, m.ch # Broadcast => m.ok = TRUE,
           deliverQueuedMessages(m)
    PROVE  \A d \in Channels' : SoundQueue(d, channelMessages'[d])
<1>1. Queue(m.ch) \in Seq(Messages) /\ SoundQueue(m.ch, Queue(m.ch))
  BY QueueTypes DEF Sound, Queue, SoundQueue, Messages
<1>2. SoundQueue(m.ch, Append(Queue(m.ch), m))
  BY <1>1, SoundParts
<1> QED
  BY <1>1, <1>2, SoundPut DEF deliverQueuedMessages

THEOREM AllSound == Spec => []Sound
<1>1. Init => Sound
  BY DEF Init, Sound, Fresh, Channels, SoundQueue, Broadcast
<1>2. TypeOK /\ Sound /\ [Next]_vars => Sound'
  <2> SUFFICES ASSUME TypeOK, Sound, [Next]_vars PROVE Sound'
    OBVIOUS
  <2> DEFINE SoundWire == \A i \in DOMAIN wire : wire[i].ch # Broadcast => wire[i].ok = TRUE
             SoundQueues == \A d \in Channels : SoundQueue(d, channelMessages[d])
  <2>a. ASSUME UNCHANGED wire PROVE SoundWire'
    BY <2>a DEF Sound
  <2>b. ASSUME UNCHANGED channelMessages PROVE SoundQueues'
    BY <2>b DEF Sound, Channels
  <2>q. ASSUME SoundWire', SoundQueues' PROVE Sound'
    BY <2>q DEF Sound
  <2> HIDE DEF SoundWire, SoundQueues
  <2>1. CASE Connect \/ Close \/ PumpStops \/ PumpFails \/ PumpFinally \/ UNCHANGED vars
    BY <2>1, <2>a, <2>b, <2>q DEF Connect, Close, PumpStops, PumpFails, PumpFinally, vars,
                                  deviceVars
  <2>2. CASE Closed
    <3>1. wire' = << >> /\ channelMessages' = Fresh
      BY <2>2 DEF Closed
    <3>2. SoundWire'
      BY <3>1 DEF SoundWire
    <3>3. SoundQueues'
      BY <3>1 DEF SoundQueues, Fresh, Channels, SoundQueue
    <3> QED
      BY <3>2, <3>3, <2>q
  <2>3. CASE PumpReads
    <3>1. wire # << >> /\ wire' = Tail(wire) /\ deliverQueuedMessages(Head(wire))
      BY <2>3 DEF PumpReads
    <3>2. /\ Tail(wire) \in Seq(Messages) /\ Head(wire) \in Messages /\ Head(wire) = wire[1]
          /\ DOMAIN wire = 1 .. Len(wire) /\ Len(wire) \in Nat /\ Len(wire) > 0
          /\ DOMAIN Tail(wire) = 1 .. Len(wire) - 1
          /\ \A i \in 1 .. Len(wire) - 1 : Tail(wire)[i] = wire[i + 1]
      BY <3>1, HeadTailProperties, LenProperties DEF TypeOK
    <3>3. Head(wire).ch # Broadcast => Head(wire).ok = TRUE
      BY <3>2 DEF Sound
    <3>4. SoundWire'
      <4>1. \A i \in 1 .. Len(wire) - 1 : i + 1 \in DOMAIN wire
        BY <3>2
      <4> QED
        BY <3>1, <3>2, <4>1 DEF SoundWire, Sound
    <3>5. SoundQueues'
      BY <3>1, <3>2, <3>3, SoundDelivered DEF SoundQueues
    <3> QED
      BY <3>4, <3>5, <2>q
  <2>4. CASE Die
    <3>1. PICK n \in 0 .. Len(wire) : wire' = SubSeq(wire, 1, n)
      BY <2>4 DEF Die
    <3>2. DOMAIN wire = 1 .. Len(wire) /\ Len(wire) \in Nat /\ \A i \in 1 .. n : wire[i] \in Messages
      BY LenProperties, ElementOfSeq DEF TypeOK
    <3>3. DOMAIN wire' = 1 .. n /\ \A i \in 1 .. n : wire'[i] = wire[i]
      <4>1. /\ SubSeq(wire, 1, n) \in Seq(Messages)
            /\ Len(SubSeq(wire, 1, n)) = IF 1 <= n THEN n - 1 + 1 ELSE 0
            /\ \A i \in 1 .. n - 1 + 1 : SubSeq(wire, 1, n)[i] = wire[1 + i - 1]
        BY <3>2, SubSeqProperties
      <4>2. Len(SubSeq(wire, 1, n)) = n /\ n - 1 + 1 = n /\ \A i \in 1 .. n : 1 + i - 1 = i
        BY <3>2, <4>1
      <4> QED
        BY <3>1, <4>1, <4>2, LenProperties
    <3>4. SoundWire'
      <4>1. 1 .. n \subseteq DOMAIN wire
        BY <3>2
      <4> QED
        BY <3>3, <4>1 DEF SoundWire, Sound
    <3> QED
      BY <2>4, <3>4, <2>b, <2>q DEF Die
  <2>5. ASSUME NEW t \in Makers \cup Requesters, Written(t) PROVE Sound'
    <3>1. SoundQueues'
      <4>1. CASE UNCHANGED channelMessages
        BY <4>1, <2>b
      <4>2. CASE task[t].ch \in Channels /\ recvPacketFragments(t, task[t].ch)
        BY <4>2, SoundFetched DEF SoundQueues, Tasks
      <4> QED
        BY <2>5, <4>1, <4>2 DEF Written, Receive
    <3> QED
      BY <2>5, <3>1, <2>a, <2>q DEF Written
  <2>6. ASSUME NEW m \in Makers, MadeChannel(m) PROVE Sound'
    <3>1. SoundQueue(task[m].code, << >>)
      BY DEF SoundQueue
    <3>2. SoundQueues'
      BY <2>6, <3>1, <2>b, SoundPut DEF MadeChannel, SoundQueues
    <3> QED
      BY <2>6, <3>2, <2>a, <2>q DEF MadeChannel, deviceVars
  <2>7. ASSUME NEW d \in Readers, NEW c \in Held, Read(d, c) PROVE Sound'
    <3>1. channelMessages[c] \in Seq(Messages) /\ SoundQueue(c, channelMessages[c])
      BY <2>7 DEF Read, TypeOK, Sound
    <3>2. channelMessages[c] # << >> => SoundQueue(c, Tail(channelMessages[c]))
      BY <3>1, SoundParts
    <3>3. SoundQueues'
      BY <2>7, <3>2, <2>b, SoundPut DEF Read, SoundQueues
    <3> QED
      BY <2>7, <3>3, <2>a, <2>q DEF Read, deviceVars
  <2>8. CASE \/ \E t \in Abortable : Abort(t)
             \/ \E m \in Makers, i \in Identifiers : MakeChannel(m, i)
             \/ \E r \in Requesters, c \in Held : Call(r, c)
    BY <2>8, <2>a, <2>b, <2>q DEF Abort, MakeChannel, Call, deviceVars
  <2>9. ASSUME NEW m \in Messages, m.ch # Broadcast => m.ok = TRUE, wire' = Append(wire, m)
        PROVE  SoundWire'
    <3>1. /\ DOMAIN wire' = 1 .. Len(wire) + 1 /\ wire'[Len(wire) + 1] = m
          /\ \A i \in 1 .. Len(wire) : wire'[i] = wire[i]
          /\ DOMAIN wire = 1 .. Len(wire) /\ Len(wire) \in Nat
      BY <2>9, AppendProperties, LenProperties DEF TypeOK
    <3> QED
      BY <2>9, <3>1 DEF SoundWire, Sound
  <2>10. ASSUME NEW q \in asked, NEW ok \in BOOLEAN, Answer(q, ok) PROVE Sound'
    <3>1. Message(q.ch, q.id, 1, ok) \in Messages
      BY DEF Message, Messages, TypeOK
    <3>2. q.ch # Broadcast => ok = TRUE
      BY <2>10 DEF Answer
    <3>3. wire' = Append(wire, Message(q.ch, q.id, 1, ok)) /\ UNCHANGED channelMessages
      BY <2>10 DEF Answer
    <3> QED
      BY <3>1, <3>2, <3>3, <2>9, <2>b, <2>q DEF Message
  <2>11. ASSUME NEW c \in granted \cup {Broadcast}, NEW id \in EventIds, Event(c, id) PROVE Sound'
    <3>1. Message(c, id, 0, TRUE) \in Messages
      BY BoundsAssumption DEF Message, Messages, TypeOK, Broadcast
    <3>2. wire' = Append(wire, Message(c, id, 0, TRUE)) /\ UNCHANGED channelMessages
      BY <2>11 DEF Event
    <3> QED
      BY <3>1, <3>2, <2>9, <2>b, <2>q DEF Message
  <2> QED
    BY <2>1, <2>2, <2>3, <2>4, <2>5, <2>6, <2>7, <2>8, <2>10, <2>11 DEF Next, Pump
<1> QED
  BY <1>1, <1>2, TypeCorrect, PTL DEF Spec

-----------------------------------------------------------------------------
(* What a step does to a task.                                             *)

On == {"writing", "waiting", "received"}

Kept(t) == task'[t] = task[t]
Ended(t) == /\ task'[t].id = 0 /\ task'[t].at \in {"new", "done", "failed"}
            /\ \/ task'[t].for = NoIdentifier /\ task'[t].at # "done"
               \/ /\ task[t].at = "received" /\ task'[t].at = "done"
                  /\ task'[t].for = task[t].for /\ task'[t].code = task[t].code
Waited(t) == /\ task[t].at = "writing" /\ task'[t] = [task[t] EXCEPT !.at = "waiting"]
             /\ link' = "up" =>
                   [ch |-> task[t].ch, id |-> task[t].id, code |-> task[t].code] \in asked'
Received(t) == /\ t \notin Readers /\ task[t].at \in {"writing", "waiting"}
               /\ \E m \in Messages :
                     /\ task'[t] = [task[t] EXCEPT !.at = "received", !.got = m] /\ Takes(t, m)
                     /\ m.ch = task[t].ch /\ (m.ch # Broadcast => m.ok = TRUE)
Reading(t) == /\ t \in Readers /\ task'[t].at = "waiting" /\ task'[t].id = task[t].id
              /\ task'[t].for = task[t].for /\ task'[t].code = task[t].code
\* A call that begins; no other task changes.
Began(t) ==
    /\ task'[t].id = curMessageId + 1 /\ curMessageId' = curMessageId + 1
    /\ task'[t].at = "writing" /\ task[t].at = "new"
    /\ \A u \in Tasks : u # t => Kept(u)
    /\ \/ /\ t \in Requesters /\ \E m \in Makers : task[m].at = "done" /\ task'[t].ch = task[m].code
          /\ task'[t].for = task[t].for /\ task'[t].code = task[t].code
          /\ UNCHANGED lastChannelCode
       \/ /\ t \in Makers /\ task'[t].code = lastChannelCode + 1
          /\ lastChannelCode' = lastChannelCode + 1
\* makeChannel() finds its channel.
Cached(t) == /\ t \in Makers /\ task'[t].at = "done" /\ task'[t].code # NoCode
             /\ task'[t].id = task[t].id /\ task'[t].for = task[t].for /\ task[t].at = "new"
TaskStep(t) == \/ Kept(t) \/ Ended(t) \/ Waited(t) \/ Received(t) \/ Reading(t) \/ Began(t)
               \/ Cached(t)

LEMMA OverEnds ==
    ASSUME TypeOK, NEW t \in Tasks, NEW p \in {"done", "failed"}, task'[t] = Over(t, p),
           p = "done" => task[t].at = "received"
    PROVE  Ended(t)
<1>1. CASE p = "done"
  <2>1. task'[t] = [task[t] EXCEPT !.at = p, !.id = 0, !.got = NoMessage] /\ task[t] \in TaskStates
    BY <1>1 DEF Over, TypeOK
  <2>2. /\ task'[t].id = 0 /\ task'[t].at = "done" /\ task'[t].for = task[t].for
        /\ task'[t].code = task[t].code
    BY <1>1, <2>1 DEF TaskStates
  <2> QED
    BY <1>1, <2>2 DEF Ended
<1>2. CASE p = "failed"
  BY <1>2 DEF Over, New, Ended
<1> QED
  BY <1>1, <1>2

LEMMA GotStep ==
    ASSUME TypeOK, NEW t \in Tasks, NEW m \in Messages, task[t].at \in {"writing", "waiting"},
           Takes(t, m), m.ch = task[t].ch, m.ch # Broadcast => m.ok = TRUE,
           task'[t] = Got(t, m)
    PROVE  Ended(t) \/ Received(t)
<1>1. CASE t \in Readers
  BY <1>1 DEF Got, Ended, New
<1>2. CASE t \notin Readers
  BY <1>2 DEF Got, Received
<1> QED
  BY <1>1, <1>2

LEMMA TaskSteps ==
    ASSUME TypeOK, Sound, [Next]_vars
    PROVE  (\A t \in Tasks : TaskStep(t)) /\ curMessageId' >= curMessageId
<1> DEFINE Goal == (\A t \in Tasks : TaskStep(t)) /\ curMessageId' >= curMessageId
<1>k. ASSUME UNCHANGED task PROVE \A t \in Tasks : TaskStep(t)
  BY <1>k DEF TaskStep, Kept
<1>o. ASSUME NEW t \in Tasks, NEW s, task' = [task EXCEPT ![t] = s], TaskStep(t)
      PROVE  \A u \in Tasks : TaskStep(u)
  BY <1>o DEF TaskStep, Kept, TypeOK
<1>i. ASSUME UNCHANGED curMessageId \/ curMessageId' = curMessageId + 1
      PROVE  curMessageId' >= curMessageId
  BY <1>i DEF TypeOK
<1>1. CASE \/ Connect \/ Close \/ PumpStops \/ PumpFinally \/ Die \/ UNCHANGED vars
           \/ \E q \in asked, ok \in BOOLEAN : Answer(q, ok)
           \/ \E c \in granted \cup {Broadcast}, id \in EventIds : Event(c, id)
  <2>1. UNCHANGED task /\ (UNCHANGED curMessageId \/ curMessageId' = curMessageId + 1)
    BY <1>1 DEF Connect, Close, PumpStops, PumpFinally, Die, vars, Answer, Event, sendMessage
  <2> QED
    BY <2>1, <1>k, <1>i
<1>2. CASE Closed \/ PumpFails
  <2>1. rejectAllWaiters /\ UNCHANGED curMessageId
    BY <1>2 DEF Closed, PumpFails
  <2>2. ASSUME NEW t \in Tasks PROVE TaskStep(t)
    <3>1. CASE Waits(t)
      BY <2>1, <3>1, OverEnds DEF rejectAllWaiters, TaskStep
    <3>2. CASE ~Waits(t)
      BY <2>1, <3>2 DEF rejectAllWaiters, TaskStep, Kept
    <3> QED
      BY <3>1, <3>2
  <2> QED
    BY <2>1, <2>2, <1>i
<1>3. CASE PumpReads
  <2> DEFINE m == Head(wire)
  <2>1. wire # << >> /\ deliverQueuedMessages(m)
    BY <1>3 DEF PumpReads
  <2>2. m \in Messages /\ m = wire[1] /\ 1 \in DOMAIN wire
    BY <2>1, HeadTailProperties, LenProperties DEF TypeOK
  <2>3. m.ch # Broadcast => m.ok = TRUE
    BY <2>2 DEF Sound
  <2>4. curMessageId' >= curMessageId
    BY <1>3, <2>2 DEF PumpReads, TypeOK, Messages
  <2> HIDE DEF m
  <2>5. ASSUME NEW i \in Claimants(m), Serve(i, m) PROVE \A t \in Tasks : TaskStep(t)
    <3>1. i \in DOMAIN channelWaiters /\ task[channelWaiters[i]].ch = m.ch /\ Takes(channelWaiters[i], m)
      BY DEF Claimants
    <3>2. channelWaiters[i] \in Tasks /\ task[channelWaiters[i]].at = "waiting"
      BY <3>1 DEF TypeOK, Range, Waits
    <3>3. task' = [task EXCEPT ![channelWaiters[i]] = Got(channelWaiters[i], m)]
      BY <2>5 DEF Serve
    <3>4. task'[channelWaiters[i]] = Got(channelWaiters[i], m)
      BY <3>2, <3>3 DEF TypeOK
    <3>5. TaskStep(channelWaiters[i])
      BY <2>2, <2>3, <3>1, <3>2, <3>4, GotStep DEF TaskStep
    <3> QED
      BY <3>2, <3>3, <3>5, <1>o
  <2> QED
    BY <2>1, <2>4, <2>5, <1>k DEF deliverQueuedMessages
<1>4. ASSUME NEW t \in Abortable, Abort(t) PROVE Goal
  <2>1. t \in Tasks /\ task' = [task EXCEPT ![t] = Over(t, "failed")] /\ UNCHANGED curMessageId
    BY <1>4, TasksAssumption DEF Abort, At, Tasks
  <2>2. task'[t] = Over(t, "failed")
    BY <2>1 DEF TypeOK
  <2>3. TaskStep(t)
    BY <2>1, <2>2, OverEnds DEF TaskStep
  <2> QED
    BY <2>1, <2>3, <1>o, <1>i
<1>5. ASSUME NEW t \in Makers \cup Requesters, Written(t) PROVE Goal
  <2>1. t \in Tasks /\ task[t].at = "writing" /\ UNCHANGED curMessageId /\ t \notin Readers
    BY <1>5, TasksAssumption DEF Written, Tasks
  <2>2. CASE At(t, "failed")
    <3>1. task' = [task EXCEPT ![t] = Over(t, "failed")]
      BY <2>2 DEF At
    <3>2. task'[t] = Over(t, "failed")
      BY <2>1, <3>1 DEF TypeOK
    <3>3. TaskStep(t)
      BY <2>1, <3>2, OverEnds DEF TaskStep
    <3> QED
      BY <2>1, <3>1, <3>3, <1>o, <1>i
  <2>3. CASE /\ task[t].ch \in Channels /\ recvPacketFragments(t, task[t].ch)
             /\ asked' = IF link = "up"
                         THEN asked \cup {[ch |-> task[t].ch, id |-> task[t].id, code |-> task[t].code]}
                         ELSE asked
             /\ UNCHANGED link
    <3> DEFINE c == task[t].ch
               q == channelMessages[c]
               fits == {i \in DOMAIN q : Takes(t, q[i])}
    <3>1. CASE task' = [task EXCEPT ![t].at = "waiting"]
      <4> DEFINE w == [task[t] EXCEPT !.at = "waiting"]
      <4>1. task' = [task EXCEPT ![t] = w] /\ task'[t] = w
        BY <2>1, <3>1 DEF TypeOK
      <4>2. TaskStep(t)
        BY <2>1, <2>3, <4>1 DEF TaskStep, Waited
      <4> QED
        BY <2>1, <4>1, <4>2, <1>o, <1>i
    <3>2. ASSUME NEW i \in fits, task' = [task EXCEPT ![t] = Got(t, q[i])] PROVE Goal
      <4>1. q \in Seq(Messages) /\ SoundQueue(c, q)
        BY <2>3 DEF TypeOK, Sound
      <4>2. i \in DOMAIN q /\ Takes(t, q[i])
        OBVIOUS
      <4>3. q[i] \in Messages /\ q[i].ch = c /\ (c # Broadcast => q[i].ok = TRUE)
        BY <4>1, <4>2, ElementOfSeq, LenProperties DEF SoundQueue
      <4>4. task'[t] = Got(t, q[i])
        BY <2>1, <3>2 DEF TypeOK
      <4>5. TaskStep(t)
        <5> HIDE DEF q
        <5> QED
          BY <2>1, <4>2, <4>3, <4>4, GotStep DEF TaskStep
      <4> QED
        BY <2>1, <3>2, <4>5, <1>o, <1>i
    <3> QED
      BY <2>3, <3>1, <3>2 DEF recvPacketFragments
  <2> QED
    BY <1>5, <2>2, <2>3 DEF Written, Receive
<1>6. ASSUME NEW m \in Makers, MadeChannel(m) PROVE Goal
  <2>1. m \in Tasks /\ task[m].at = "received" /\ UNCHANGED curMessageId
    BY <1>6 DEF MadeChannel, Tasks
  <2>2. PICK p \in {"done", "failed"} : task' = [task EXCEPT ![m] = Over(m, p)]
    BY <1>6 DEF MadeChannel, At
  <2>3. task'[m] = Over(m, p)
    BY <2>1, <2>2 DEF TypeOK
  <2>4. TaskStep(m)
    BY <2>1, <2>3, OverEnds DEF TaskStep
  <2> QED
    BY <2>1, <2>2, <2>4, <1>o, <1>i
<1>7. ASSUME NEW m \in Makers, NEW i \in Identifiers, MakeChannel(m, i) PROVE Goal
  <2>1. m \in Tasks /\ task[m].at = "new" /\ task[m] \in TaskStates
    BY <1>7 DEF MakeChannel, Tasks, TypeOK
  <2>2. CASE /\ channelCache[i] # NoCode
             /\ task' = [task EXCEPT ![m].at = "done", ![m].code = channelCache[i]]
             /\ UNCHANGED curMessageId
    <3> DEFINE w == [task[m] EXCEPT !.at = "done", !.code = channelCache[i]]
    <3>1. task' = [task EXCEPT ![m] = w] /\ task'[m] = w
      BY <2>1, <2>2 DEF TypeOK
    <3>2. w.at = "done" /\ w.code = channelCache[i] /\ w.id = task[m].id /\ w.for = task[m].for
      BY <2>1 DEF TaskStates
    <3>3. TaskStep(m)
      BY <2>1, <2>2, <3>1, <3>2 DEF TaskStep, Cached
    <3> QED
      BY <2>1, <2>2, <3>1, <3>3, <1>o, <1>i
  <2>3. CASE /\ lastChannelCode' = NextCode /\ sendMessage
             /\ task' = [task EXCEPT ![m].at = "writing", ![m].code = NextCode,
                                     ![m].id = curMessageId + 1, ![m].for = i]
    <3> DEFINE w == [task[m] EXCEPT !.at = "writing", !.code = NextCode, !.id = curMessageId + 1,
                                    !.for = i]
    <3>1. task' = [task EXCEPT ![m] = w] /\ task'[m] = w /\ \A u \in Tasks : u # m => Kept(u)
      BY <2>1, <2>3 DEF TypeOK, Kept
    <3>2. w.at = "writing" /\ w.code = NextCode /\ w.id = curMessageId + 1
      BY <2>1 DEF TaskStates
    <3>3. TaskStep(m)
      BY <2>1, <2>3, <3>1, <3>2 DEF TaskStep, Began, NextCode, sendMessage
    <3> QED
      BY <2>1, <2>3, <3>1, <3>3, <1>o, <1>i DEF sendMessage
  <2> QED
    BY <1>7, <2>2, <2>3 DEF MakeChannel
<1>8. ASSUME NEW r \in Requesters, NEW c \in Held, Call(r, c) PROVE Goal
  <2> DEFINE w == [task[r] EXCEPT !.at = "writing", !.ch = c, !.id = curMessageId + 1]
  <2>1. r \in Tasks /\ task[r].at = "new" /\ task[r] \in TaskStates /\ curMessageId' = curMessageId + 1
        /\ UNCHANGED lastChannelCode
    BY <1>8 DEF Call, Tasks, TypeOK, sendMessage, hostVars
  <2>2. task' = [task EXCEPT ![r] = w] /\ task'[r] = w /\ \A u \in Tasks : u # r => Kept(u)
    BY <1>8, <2>1 DEF Call, TypeOK, Kept
  <2>3. /\ w.at = "writing" /\ w.ch = c /\ w.id = curMessageId + 1 /\ w.for = task[r].for
        /\ w.code = task[r].code
    BY <2>1 DEF TaskStates
  <2>4. \E m \in Makers : task[m].at = "done" /\ c = task[m].code
    BY DEF Held
  <2>5. TaskStep(r)
    BY <2>1, <2>2, <2>3, <2>4 DEF TaskStep, Began
  <2> QED
    BY <2>1, <2>2, <2>5, <1>o, <1>i
<1>9. ASSUME NEW d \in Readers, NEW c \in Held, Read(d, c) PROVE Goal
  <2> DEFINE w == [task[d] EXCEPT !.ch = c, !.at = "waiting"]
  <2>1. d \in Tasks /\ task[d] \in TaskStates /\ UNCHANGED curMessageId
    BY <1>9 DEF Read, Tasks, TypeOK
  <2>2. CASE UNCHANGED task
    BY <2>1, <2>2, <1>k, <1>i
  <2>3. CASE task' = [task EXCEPT ![d].ch = c, ![d].at = "waiting"]
    <3>1. task' = [task EXCEPT ![d] = w] /\ task'[d] = w
      BY <2>1, <2>3 DEF TypeOK
    <3>2. w.at = "waiting" /\ w.id = task[d].id /\ w.for = task[d].for /\ w.code = task[d].code
      BY <2>1 DEF TaskStates
    <3>3. TaskStep(d)
      BY <3>1, <3>2 DEF TaskStep, Reading
    <3> QED
      BY <2>1, <3>1, <3>3, <1>o, <1>i
  <2> QED
    BY <1>9, <2>2, <2>3 DEF Read
<1> QED
  BY <1>1, <1>2, <1>3, <1>4, <1>5, <1>6, <1>7, <1>8, <1>9 DEF Next, Pump

-----------------------------------------------------------------------------
(* Identifiers and channels.                                               *)

\* Requests that are not over have identifiers of their own, below the next.
Identified ==
    /\ \A t, u \in Tasks : t # u /\ task[t].id # 0 => task[t].id # task[u].id
    /\ \A t \in Tasks : task[t].id <= curMessageId
\* A call speaks on a channel that was made, with an identifier.
Speakers ==
    /\ \A r \in Requesters : task[r].at \in On => task[r].ch # Broadcast /\ task[r].id # 0
    /\ \A m \in Makers : task[m].at \in On \cup {"done"} => task[m].code # NoCode

\* Identifiers are distinct.
THEOREM AllIdentified == Spec => []Identified
<1>1. Init => Identified
  BY DEF Init, Identified, New
<1>2. TypeOK /\ TypeOK' /\ Sound /\ Identified /\ [Next]_vars => Identified'
  <2> SUFFICES ASSUME TypeOK, TypeOK', Sound, Identified, [Next]_vars PROVE Identified'
    OBVIOUS
  <2>1. (\A t \in Tasks : TaskStep(t)) /\ curMessageId' >= curMessageId
    BY TaskSteps
  <2>2. /\ \A t \in Tasks : task[t] \in TaskStates /\ task[t].id \in Nat
        /\ curMessageId \in Nat
    BY DEF TypeOK, TaskStates
  <2>3. ASSUME NEW t \in Tasks
        PROVE  \/ task'[t].id \in {0, task[t].id}
               \/ Began(t)
    <3>1. CASE Waited(t) \/ Received(t)
      BY <2>2, <3>1 DEF Waited, Received, TaskStates
    <3> QED
      BY <2>1, <3>1 DEF TaskStep, Kept, Ended, Reading, Cached
  <2>4. ASSUME NEW t \in Tasks PROVE task'[t].id <= curMessageId'
    <3>1. curMessageId' \in Nat
      BY DEF TypeOK
    <3>2. CASE task'[t].id \in {0, task[t].id}
      BY <2>1, <2>2, <3>1, <3>2 DEF Identified
    <3>3. CASE Began(t)
      BY <3>1, <3>3, <2>2 DEF Began
    <3> QED
      BY <2>3, <3>2, <3>3
  <2>5. ASSUME NEW t \in Tasks, NEW u \in Tasks, t # u, task'[t].id # 0
        PROVE  task'[t].id # task'[u].id
    <3>1. CASE Began(t)
      BY <2>2, <2>5, <3>1 DEF Began, Kept, Identified
    <3>2. CASE Began(u)
      BY <2>2, <2>5, <3>2 DEF Began, Kept, Identified
    <3>3. CASE task'[t].id \in {0, task[t].id} /\ task'[u].id \in {0, task[u].id}
      BY <2>5, <3>3 DEF Identified
    <3> QED
      BY <2>3, <3>1, <3>2, <3>3
  <2> QED
    BY <2>4, <2>5 DEF Identified
<1> QED
  BY <1>1, <1>2, TypeCorrect, AllSound, PTL DEF Spec

\* No call is on the broadcast channel.
THEOREM AllSpeakers == Spec => []Speakers
<1>1. Init => Speakers
  BY DEF Init, Speakers, New, On, Tasks
<1>2. TypeOK /\ Sound /\ Speakers /\ [Next]_vars => Speakers'
  <2> SUFFICES ASSUME TypeOK, Sound, Speakers, [Next]_vars PROVE Speakers'
    OBVIOUS
  <2>1. \A t \in Tasks : TaskStep(t)
    BY TaskSteps
  <2>2. ASSUME NEW r \in Requesters, task'[r].at \in On
        PROVE  task'[r].ch # Broadcast /\ task'[r].id # 0
    <3>1. r \in Tasks /\ task[r] \in TaskStates /\ TaskStep(r) /\ r \notin Readers /\ r \notin Makers
      BY <2>1, TasksAssumption DEF Tasks, TypeOK
    <3>2. CASE Kept(r)
      BY <2>2, <3>2 DEF Kept, Speakers
    <3>3. CASE Waited(r) \/ Received(r)
      BY <3>1, <3>3 DEF Waited, Received, TaskStates, Speakers, On
    <3>4. CASE Began(r)
      BY <3>1, <3>4 DEF Began, Speakers, On, NoCode, Broadcast, TypeOK
    <3> QED
      BY <2>2, <3>1, <3>2, <3>3, <3>4 DEF TaskStep, Ended, Reading, Cached, On
  <2>3. ASSUME NEW m \in Makers, task'[m].at \in On \cup {"done"}
        PROVE  task'[m].code # NoCode
    <3>1. m \in Tasks /\ task[m] \in TaskStates /\ TaskStep(m) /\ m \notin Readers /\ m \notin Requesters
      BY <2>1, TasksAssumption DEF Tasks, TypeOK
    <3>2. CASE Kept(m)
      BY <2>3, <3>2 DEF Kept, Speakers
    <3>3. CASE Waited(m) \/ Received(m)
      BY <3>1, <3>3 DEF Waited, Received, TaskStates, Speakers, On
    <3>4. CASE Began(m)
      BY <3>1, <3>4 DEF Began, NoCode, TypeOK
    <3>5. CASE Ended(m)
      BY <2>3, <3>5 DEF Ended, Speakers, On
    <3> QED
      BY <3>1, <3>2, <3>3, <3>4, <3>5 DEF TaskStep, Reading, Cached
  <2> QED
    BY <2>2, <2>3 DEF Speakers
<1> QED
  BY <1>1, <1>2, TypeCorrect, AllSound, PTL DEF Spec

\* What a correlated call returns is the reply to its request.
THEOREM OwnReplySafe == Spec => []OwnReply
<1>1. Init => OwnReply
  BY DEF Init, OwnReply, New, Tasks
<1>2. TypeOK /\ Sound /\ Speakers /\ OwnReply /\ [Next]_vars => OwnReply'
  <2> SUFFICES ASSUME TypeOK, Sound, Speakers, OwnReply, [Next]_vars,
                      NEW r \in Requesters, task'[r].at = "received"
               PROVE  task'[r].got = Message(task'[r].ch, task'[r].id, 1, TRUE)
    BY DEF OwnReply, ReplyTo
  <2>1. r \in Tasks /\ task[r] \in TaskStates /\ TaskStep(r) /\ r \notin Readers /\ r \notin Makers
    BY TaskSteps, TasksAssumption DEF Tasks, TypeOK
  <2>2. CASE Kept(r)
    BY <2>2 DEF Kept, OwnReply, ReplyTo
  <2>3. CASE Received(r)
    <3>1. PICK m \in Messages :
             /\ task'[r] = [task[r] EXCEPT !.at = "received", !.got = m] /\ Takes(r, m)
             /\ m.ch = task[r].ch /\ (m.ch # Broadcast => m.ok = TRUE)
      BY <2>3 DEF Received
    <3>2. task'[r].got = m /\ task'[r].ch = task[r].ch /\ task'[r].id = task[r].id
      BY <2>1, <3>1 DEF TaskStates
    <3>3. m.conv = 1 /\ m.id = task[r].id
      BY <3>1 DEF Takes, isReplyTo, Messages
    <3>4. m.ok = TRUE
      BY <2>3, <3>1 DEF Received, Speakers, On
    <3>5. m = [ch |-> m.ch, id |-> m.id, conv |-> m.conv, ok |-> m.ok]
      BY DEF Messages
    <3> QED
      BY <3>1, <3>2, <3>3, <3>4, <3>5 DEF Message
  <2>4. CASE Waited(r)
    BY <2>1, <2>4 DEF Waited, TaskStates
  <2> QED
    BY <2>1, <2>2, <2>3, <2>4 DEF TaskStep, Ended, Reading, Began, Cached
<1> QED
  BY <1>1, <1>2, TypeCorrect, AllSound, AllSpeakers, PTL DEF Spec
-----------------------------------------------------------------------------
(* Codes.                                                                  *)

\* Who makes a channel, or has, holds a code that was counted.
Coded ==
    \A m \in Makers :
        /\ task[m].at = "new" => task[m].for = NoIdentifier
        /\ task[m].for # NoIdentifier => 0 < task[m].code /\ task[m].code <= lastChannelCode

\* No two channels share a code, not even those of two connections.
THEOREM CodesDistinctSafe == Spec => []CodesDistinct
<1> DEFINE Codes == Coded /\ CodesDistinct
<1>1. Init => Codes
  BY DEF Init, Coded, CodesDistinct, New, Tasks
<1>2. TypeOK /\ TypeOK' /\ Sound /\ Codes /\ [Next]_vars => Codes'
  <2> SUFFICES ASSUME TypeOK, TypeOK', Sound, Coded, CodesDistinct, [Next]_vars PROVE Codes'
    OBVIOUS
  <2>1. \A t \in Tasks : TaskStep(t)
    BY TaskSteps
  <2>2. /\ \A m \in Makers : m \in Tasks /\ m \notin Requesters /\ m \notin Readers
        /\ \A m \in Makers : task[m] \in TaskStates /\ task[m].code \in Nat
        /\ lastChannelCode \in Nat /\ lastChannelCode' \in Nat
    BY TasksAssumption DEF TypeOK, Tasks, TaskStates
  <2>3. CASE \E n \in Makers : Began(n)
    <3>1. PICK n \in Makers : Began(n)
      BY <2>3
    <3>2. /\ lastChannelCode' = lastChannelCode + 1 /\ task'[n].code = lastChannelCode + 1
          /\ task'[n].at = "writing" /\ \A m \in Makers : m # n => task'[m] = task[m]
      BY <2>2, <3>1 DEF Began, Kept
    <3>3. \A m \in Makers : m # n /\ task[m].for # NoIdentifier => task[m].code # task'[n].code
      BY <2>2, <3>2 DEF Coded
    <3>4. Coded'
      BY <2>2, <3>2 DEF Coded
    <3>5. CodesDistinct'
      BY <3>2, <3>3 DEF CodesDistinct
    <3> QED
      BY <3>4, <3>5
  <2>4. CASE \A n \in Makers : ~Began(n)
    <3>1. ASSUME NEW m \in Makers
          PROVE  /\ \/ task'[m].for = NoIdentifier
                    \/ task'[m].for = task[m].for /\ task'[m].code = task[m].code
                 /\ task'[m].at = "new" => task'[m].for = NoIdentifier
      <4>1. CASE Kept(m)
        BY <4>1 DEF Kept, Coded
      <4>2. CASE Waited(m) \/ Received(m)
        BY <2>2, <4>2 DEF Waited, Received, TaskStates
      <4>3. CASE Ended(m)
        BY <4>3 DEF Ended
      <4>4. CASE Cached(m)
        BY <4>4 DEF Cached, Coded
      <4> QED
        BY <2>1, <2>2, <2>4, <4>1, <4>2, <4>3, <4>4 DEF TaskStep, Reading
    <3>2. lastChannelCode' >= lastChannelCode
      <4>1. ASSUME NEW m \in Makers, NEW i \in Identifiers, MakeChannel(m, i)
            PROVE  lastChannelCode' \in {lastChannelCode, lastChannelCode + 1}
        BY <4>1 DEF MakeChannel, NextCode
      <4>2. ASSUME UNCHANGED vars \/ Connect \/ Close \/ Closed \/ Die
            PROVE  UNCHANGED lastChannelCode
        BY <4>2 DEF vars, hostVars, Connect, Close, Closed, Die
      <4>3. ASSUME Pump PROVE UNCHANGED lastChannelCode
        BY <4>3 DEF hostVars, Pump, PumpReads, PumpStops, PumpFails, PumpFinally
      <4>4. ASSUME NEW t \in Tasks, Abort(t) \/ Written(t) \/ MadeChannel(t)
            PROVE  UNCHANGED lastChannelCode
        BY <4>4 DEF hostVars, Abort, Written, MadeChannel
      <4>5. ASSUME NEW t \in Tasks, NEW c \in Held, Call(t, c) \/ Read(t, c)
            PROVE  UNCHANGED lastChannelCode
        BY <4>5 DEF hostVars, Call, Read
      <4>6. ASSUME NEW q, NEW ok, NEW c, NEW id, Answer(q, ok) \/ Event(c, id)
            PROVE  UNCHANGED lastChannelCode
        BY <4>6 DEF hostVars, Answer, Event
      <4>7. lastChannelCode' \in {lastChannelCode, lastChannelCode + 1}
        BY <4>1, <4>2, <4>3, <4>4, <4>5, <4>6, TasksAssumption DEF Next, Tasks
      <4> QED
        BY <2>2, <4>7
    <3>3. Coded'
      BY <2>2, <3>1, <3>2 DEF Coded
    <3>4. CodesDistinct'
      BY <3>1 DEF CodesDistinct
    <3> QED
      BY <3>3, <3>4
  <2> QED
    BY <2>3, <2>4
<1> QED
  BY <1>1, <1>2, TypeCorrect, AllSound, PTL DEF Spec

-----------------------------------------------------------------------------
(* The reply of a call that waits.                                         *)

\* A reply that is read while its call waits goes to that call: plain readers come
\* after it, and no other call has its identifier.
LEMMA ReplyIsServed ==
    ASSUME TypeOK, Identified, Speakers, NEW r \in Requesters, Waits(r),
           deliverQueuedMessages(ReplyTo(r))
    PROVE  ~Waits(r)'
  <1> DEFINE m == ReplyTo(r)
  <1>1. r \in Tasks /\ task[r].id # 0
    BY DEF Tasks, Waits, Speakers, On
  <1>2. PICK k \in DOMAIN channelWaiters : channelWaiters[k] = r
    BY <1>1 DEF TypeOK, Range
  <1>3. m.ch = task[r].ch /\ m.conv = 1 /\ m.id = task[r].id
    BY DEF ReplyTo, Message
  <1> HIDE DEF m
  <1>4. k \in Claimants(m) /\ Correlated(k)
    BY <1>2, <1>3 DEF Claimants, Correlated, Takes, isReplyTo
  <1>5. PICK i \in Claimants(m) : Precedes(i, k) /\ Serve(i, m)
    BY <1>4 DEF deliverQueuedMessages, m
  <1>6. i \in DOMAIN channelWaiters /\ Correlated(i) /\ Takes(channelWaiters[i], m)
    BY <1>4, <1>5 DEF Claimants, Precedes
  <1>7. channelWaiters[i] = r
    <2>1. channelWaiters[i] \in Requesters /\ task[channelWaiters[i]].id = task[r].id
      BY <1>3, <1>6 DEF Correlated, Takes, isReplyTo
    <2> QED  BY <1>1, <2>1 DEF Identified, Tasks
  <1>8. task' = [task EXCEPT ![r] = Got(r, m)]
    BY <1>5, <1>7 DEF Serve
  <1>9. task'[r] = Got(r, m) /\ Got(r, m).at \in {"new", "received"}
    BY <1>1, <1>8, GotPlace DEF TypeOK
  <1> QED  BY <1>9 DEF Waits

\* The reply of a call that still waits is asked for or on its way: no reader of the
\* stream takes it, and the pump never queues it unnoticed.
THEOREM ReplyOnItsWaySafe == Spec => []ReplyOnItsWay
<1>1. Init => ReplyOnItsWay
  BY DEF Init, ReplyOnItsWay
<1>2. TypeOK /\ Sound /\ Identified /\ Speakers /\ PumpServes /\ ReplyOnItsWay /\ [Next]_vars
      => ReplyOnItsWay'
  <2> SUFFICES ASSUME TypeOK, Sound, Identified, Speakers, PumpServes, ReplyOnItsWay, [Next]_vars
               PROVE  ReplyOnItsWay'
    OBVIOUS
  <2>0. ASSUME \A r \in Requesters : (Waits(r) /\ link = "up" => OnItsWay(r))'
        PROVE  ReplyOnItsWay'
    BY <2>0 DEF ReplyOnItsWay, OnItsWay, ReplyTo
  <2> SUFFICES ASSUME NEW r \in Requesters, Waits(r)', link' = "up" PROVE OnItsWay(r)'
    BY <2>0
  <2>1. r \in Tasks /\ r \notin Readers /\ r \notin Makers /\ task[r] \in TaskStates
    BY TasksAssumption DEF TypeOK, Tasks
  <2>2. CASE Waited(r)
    <3>1. [ch |-> task[r].ch, id |-> task[r].id, code |-> task[r].code] \in asked'
      BY <2>2 DEF Waited
    <3>2. task'[r].ch = task[r].ch /\ task'[r].id = task[r].id
      BY <2>1, <2>2 DEF Waited, TaskStates
    <3>3. \E q \in asked' : q.ch = task'[r].ch /\ q.id = task'[r].id
      BY <3>1, <3>2
    <3> QED  BY <3>3 DEF OnItsWay
  <2>3. CASE Kept(r)
    <3>1. task'[r] = task[r] /\ Waits(r) /\ ReplyTo(r)' = ReplyTo(r)
      BY <2>3 DEF Kept, Waits, ReplyTo
    <3>2. r \in Range(channelWaiters)
      BY <2>1, <3>1 DEF TypeOK
    <3>3. pump # "off"
      BY <3>2 DEF PumpServes, Range
    <3>k. ASSUME asked \subseteq asked', UNCHANGED wire, link = "up" PROVE OnItsWay(r)'
      BY <3>1, <3>k DEF ReplyOnItsWay, OnItsWay, ReplyTo
    <3>w. ASSUME NEW m \in Messages, wire' = Append(wire, m), UNCHANGED asked, link = "up" PROVE OnItsWay(r)'
      <4>1. /\ DOMAIN wire \subseteq DOMAIN wire' /\ \A i \in DOMAIN wire : wire'[i] = wire[i]
        BY <3>w, AppendProperties, LenProperties DEF TypeOK
      <4> QED  BY <3>1, <3>w, <4>1 DEF ReplyOnItsWay, OnItsWay, ReplyTo
    <3>4. CASE Connect \/ Closed \/ Die \/ PumpFails
      BY <3>3, <3>4 DEF Connect, Closed, Die, PumpFails
    <3>5. CASE Close \/ PumpStops \/ PumpFinally \/ UNCHANGED vars
      BY <3>5, <3>k DEF Close, PumpStops, PumpFinally, deviceVars, vars
    <3>6. CASE PumpReads
      <4>1. wire # << >> /\ wire' = Tail(wire) /\ deliverQueuedMessages(Head(wire))
            /\ UNCHANGED <<asked, link>>
        BY <3>6 DEF PumpReads
      <4>2. Head(wire) # ReplyTo(r)
        BY <3>1, <4>1, ReplyIsServed
      <4>3. CASE \E q \in asked : q.ch = task[r].ch /\ q.id = task[r].id
        BY <3>1, <4>1, <4>3 DEF OnItsWay
      <4>4. ASSUME NEW i \in DOMAIN wire, wire[i] = ReplyTo(r) PROVE OnItsWay(r)'
        <5>1. /\ Len(wire) \in Nat /\ DOMAIN wire = 1 .. Len(wire) /\ Head(wire) = wire[1]
              /\ DOMAIN Tail(wire) = 1 .. Len(wire) - 1
              /\ \A j \in 1 .. Len(wire) - 1 : Tail(wire)[j] = wire[j + 1]
          BY <4>1, HeadTailProperties, LenProperties DEF TypeOK
        <5>2. i # 1
          BY <4>2, <4>4, <5>1
        <5>3. i - 1 \in 1 .. Len(wire) - 1 /\ i - 1 + 1 = i
          BY <5>1, <5>2
        <5>4. i - 1 \in DOMAIN wire' /\ wire'[i - 1] = ReplyTo(r)
          BY <4>1, <4>4, <5>1, <5>3
        <5> QED  BY <3>1, <5>4 DEF OnItsWay
      <4> QED  BY <3>1, <4>1, <4>3, <4>4 DEF ReplyOnItsWay, OnItsWay, ReplyTo
    <3>7. ASSUME NEW q \in asked, NEW ok \in BOOLEAN, Answer(q, ok) PROVE OnItsWay(r)'
      <4>1. link = "up" /\ asked' = asked \ {q} /\ wire' = Append(wire, Message(q.ch, q.id, 1, ok))
            /\ (q.ch = Broadcast \/ ok)
        BY <3>7 DEF Answer
      <4>2. /\ DOMAIN wire \subseteq DOMAIN wire' /\ \A i \in DOMAIN wire : wire'[i] = wire[i]
            /\ \E i \in DOMAIN wire' : wire'[i] = Message(q.ch, q.id, 1, ok)
        <5>1. Message(q.ch, q.id, 1, ok) \in Messages
          BY DEF Message, Messages, TypeOK
        <5>2. /\ DOMAIN wire' = 1 .. Len(wire) + 1 /\ DOMAIN wire = 1 .. Len(wire)
              /\ wire'[Len(wire) + 1] = Message(q.ch, q.id, 1, ok) /\ Len(wire) \in Nat
              /\ \A i \in 1 .. Len(wire) : wire'[i] = wire[i]
          BY <4>1, <5>1, AppendProperties, LenProperties DEF TypeOK
        <5> QED  BY <5>2
      <4>3. CASE q.ch = task[r].ch /\ q.id = task[r].id
        <5>1. ok = TRUE
          BY <3>1, <4>1, <4>3 DEF Speakers, On, Waits
        <5> QED  BY <3>1, <4>2, <4>3, <5>1 DEF OnItsWay, ReplyTo
      <4>4. CASE ~(q.ch = task[r].ch /\ q.id = task[r].id)
        <5>1. OnItsWay(r)
          BY <3>1, <4>1 DEF ReplyOnItsWay, OnItsWay, ReplyTo
        <5>2. \A p \in asked : p.ch = task[r].ch /\ p.id = task[r].id => p \in asked'
          BY <4>1, <4>4
        <5>3. CASE \E p \in asked : p.ch = task[r].ch /\ p.id = task[r].id
          BY <3>1, <5>2, <5>3 DEF OnItsWay
        <5>4. CASE \E i \in DOMAIN wire : wire[i] = ReplyTo(r)
          BY <3>1, <4>2, <5>4 DEF OnItsWay
        <5> QED  BY <5>1, <5>3, <5>4 DEF OnItsWay
      <4> QED  BY <4>3, <4>4
    <3>8. ASSUME NEW c \in granted \cup {Broadcast}, NEW id \in EventIds, Event(c, id)
          PROVE  OnItsWay(r)'
      <4>1. Message(c, id, 0, TRUE) \in Messages
        BY BoundsAssumption DEF Message, Messages, TypeOK, Broadcast
      <4> QED  BY <3>8, <3>w, <4>1 DEF Event
    <3>9. ASSUME NEW t \in Tasks, Abort(t) \/ Written(t) \/ MadeChannel(t) PROVE OnItsWay(r)'
      <4>1. asked \subseteq asked' /\ UNCHANGED <<wire, link>>
        BY <3>9 DEF Abort, Written, MadeChannel, deviceVars
      <4> QED  BY <3>k, <4>1
    <3>10. ASSUME NEW t \in Tasks, NEW c, MakeChannel(t, c) \/ Call(t, c) \/ Read(t, c)
           PROVE  OnItsWay(r)'
      BY <3>10, <3>k DEF MakeChannel, Call, Read, deviceVars
    <3> QED
      BY <3>4, <3>5, <3>6, <3>7, <3>8, <3>9, <3>10, TasksAssumption DEF Next, Pump, Tasks
  <2> QED
    <3>1. TaskStep(r)
      BY <2>1, TaskSteps
    <3>2. task'[r].at = "waiting"
      BY DEF Waits
    <3>3. ~Ended(r) /\ ~Received(r) /\ ~Reading(r) /\ ~Began(r) /\ ~Cached(r)
      <4>1. ~Ended(r) /\ ~Reading(r) /\ ~Began(r) /\ ~Cached(r)
        BY <2>1, <3>2 DEF Ended, Reading, Began, Cached
      <4>2. \A m \in Messages : [task[r] EXCEPT !.at = "received", !.got = m].at = "received"
        BY <2>1 DEF TaskStates
      <4> QED  BY <3>2, <4>1, <4>2 DEF Received
    <3> QED  BY <2>2, <2>3, <3>1, <3>3 DEF TaskStep
<1> QED
  BY <1>1, <1>2, TypeCorrect, AllSound, AllIdentified, AllSpeakers, PumpServesSafe, PTL DEF Spec

-----------------------------------------------------------------------------
(* The connection answers each correlated call once.                       *)

\* An identifier that was used: no call is about to send a request with it.
Past(n) == n <= curMessageId /\ \A r \in Requesters : task[r].at = "writing" => task[r].id # n
Elements(q) == {q[i] : i \in DOMAIN q}
Queued == UNION {Elements(channelMessages[c]) : c \in Channels}
\* What is asked, on the wire or queued is of requests that were sent.
Sent ==
    /\ \A q \in asked : Past(q.id)
    /\ \A m \in Elements(wire) \cup Queued : m.conv = 1 => Past(m.id)

\* What was used stays used.
LEMMA PastStays ==
    ASSUME TypeOK, TypeOK', Sound, [Next]_vars, NEW n \in Nat, Past(n)
    PROVE  Past(n)'
<1>1. (\A t \in Tasks : TaskStep(t)) /\ curMessageId' >= curMessageId
  BY TaskSteps
<1>2. n <= curMessageId'
  BY <1>1 DEF Past, TypeOK
<1>3. ASSUME NEW r \in Requesters, task'[r].at = "writing" PROVE task'[r].id # n
  <2>1. r \in Tasks /\ task[r] \in TaskStates /\ r \notin Readers /\ r \notin Makers
    BY TasksAssumption DEF Tasks, TypeOK
  <2>2. CASE Began(r)
    <3>1. task'[r].id = curMessageId + 1 /\ curMessageId \in Nat
      BY <2>2 DEF Began, TypeOK
    <3> QED
      BY <3>1 DEF Past
  <2>3. CASE Kept(r)
    BY <1>3, <2>3 DEF Kept, Past
  <2>4. ~Waited(r) /\ ~Received(r)
    <3>1. [task[r] EXCEPT !.at = "waiting"].at = "waiting"
      BY <2>1 DEF TaskStates
    <3>2. \A m \in Messages : [task[r] EXCEPT !.at = "received", !.got = m].at = "received"
      BY <2>1 DEF TaskStates
    <3> QED
      BY <1>3, <3>1, <3>2 DEF Waited, Received
  <2> QED
    BY <1>1, <1>3, <2>1, <2>2, <2>3, <2>4 DEF TaskStep, Ended, Reading, Cached
<1> QED
  BY <1>2, <1>3 DEF Past

LEMMA QueueElements ==
    ASSUME NEW q \in Seq(Messages)
    PROVE  /\ \A i \in DOMAIN q : Elements(RemoveAt(q, i)) \subseteq Elements(q)
           /\ q # << >> => Elements(Tail(q)) \subseteq Elements(q)
           /\ \A m \in Messages : Elements(Append(q, m)) = Elements(q) \cup {m}
           /\ \A n \in 0 .. Len(q) : Elements(SubSeq(q, 1, n)) \subseteq Elements(q)
<1>1. Len(q) \in Nat /\ DOMAIN q = 1 .. Len(q)
  BY LenProperties
<1>2. ASSUME NEW i \in DOMAIN q PROVE Elements(RemoveAt(q, i)) \subseteq Elements(q)
  <2>1. /\ RemoveAt(q, i) \in Seq(Messages) /\ Len(RemoveAt(q, i)) = Len(q) - 1
        /\ \A j \in 1 .. Len(q) - 1 : RemoveAt(q, i)[j] = IF j < i THEN q[j] ELSE q[j + 1]
    BY RemoveAtFacts
  <2>2. DOMAIN RemoveAt(q, i) = 1 .. Len(q) - 1
    BY <2>1, LenProperties
  <2>3. \A j \in 1 .. Len(q) - 1 : j \in DOMAIN q /\ j + 1 \in DOMAIN q
    BY <1>1
  <2> QED
    BY <2>1, <2>2, <2>3 DEF Elements
<1>3. ASSUME q # << >> PROVE Elements(Tail(q)) \subseteq Elements(q)
  <2>1. /\ Tail(q) \in Seq(Messages) /\ Len(Tail(q)) = Len(q) - 1
        /\ \A j \in 1 .. Len(Tail(q)) : Tail(q)[j] = q[j + 1]
    BY <1>3, HeadTailProperties
  <2>2. DOMAIN Tail(q) = 1 .. Len(q) - 1
    BY <2>1, LenProperties
  <2>3. \A j \in 1 .. Len(q) - 1 : j + 1 \in DOMAIN q
    BY <1>1
  <2> QED
    BY <2>1, <2>2, <2>3 DEF Elements
<1>4. ASSUME NEW m \in Messages PROVE Elements(Append(q, m)) = Elements(q) \cup {m}
  <2>1. /\ DOMAIN Append(q, m) = 1 .. Len(q) + 1 /\ Append(q, m)[Len(q) + 1] = m
        /\ \A j \in 1 .. Len(q) : Append(q, m)[j] = q[j]
    BY AppendProperties, LenProperties
  <2>2. 1 .. Len(q) + 1 = (1 .. Len(q)) \cup {Len(q) + 1}
    BY <1>1
  <2> QED
    BY <1>1, <2>1, <2>2 DEF Elements
<1>5. ASSUME NEW n \in 0 .. Len(q) PROVE Elements(SubSeq(q, 1, n)) \subseteq Elements(q)
  <2>1. n \in Int /\ 1 \in Int /\ \A i \in 1 .. n : q[i] \in Messages
    BY <1>1, ElementOfSeq
  <2>2. /\ SubSeq(q, 1, n) \in Seq(Messages) /\ Len(SubSeq(q, 1, n)) = n
        /\ \A i \in 1 .. n : SubSeq(q, 1, n)[i] = q[i]
    <3>1. /\ SubSeq(q, 1, n) \in Seq(Messages)
          /\ Len(SubSeq(q, 1, n)) = IF 1 <= n THEN n - 1 + 1 ELSE 0
          /\ \A i \in 1 .. n - 1 + 1 : SubSeq(q, 1, n)[i] = q[1 + i - 1]
      BY <2>1, SubSeqProperties
    <3>2. n - 1 + 1 = n /\ \A i \in 1 .. n : 1 + i - 1 = i
      BY <2>1
    <3> QED
      BY <1>1, <3>1, <3>2
  <2>3. DOMAIN SubSeq(q, 1, n) = 1 .. n /\ 1 .. n \subseteq DOMAIN q
    BY <1>1, <2>2, LenProperties
  <2> QED
    BY <2>2, <2>3 DEF Elements
<1> QED
  BY <1>2, <1>3, <1>4, <1>5

LEMMA QueuedPut ==
    ASSUME NEW c, NEW q, NEW X, channelMessages' = Put(c, q), Elements(q) \subseteq Queued \cup X
    PROVE  Queued' \subseteq Queued \cup X
  BY DEF Queued, Put, Channels

LEMMA QueuedFetched ==
    ASSUME TypeOK, NEW t \in Tasks, NEW c \in Channels, recvPacketFragments(t, c)
    PROVE  Queued' \subseteq Queued
<1> DEFINE q == channelMessages[c]
<1>1. q \in Seq(Messages) /\ Elements(q) \subseteq Queued
  BY DEF TypeOK, Queued
<1>2. CASE UNCHANGED channelMessages
  BY <1>2 DEF Queued, Channels
<1>3. ASSUME NEW i \in DOMAIN q, channelMessages' = Put(c, RemoveAt(q, i))
      PROVE  Queued' \subseteq Queued
  <2>1. Elements(RemoveAt(q, i)) \subseteq Queued \cup {}
    BY <1>1, QueueElements
  <2> QED
    BY <1>3, <2>1, QueuedPut
<1> QED
  BY <1>2, <1>3 DEF recvPacketFragments

\* What a step puts on the wire, in the queues or among the requests.
NewRequest(q) ==
    \E t \in Makers \cup Requesters :
        /\ q.id = task[t].id /\ task[t].at = "writing" /\ task'[t].at # "writing"
        /\ \A u \in Tasks : u # t => Kept(u)
NewReply(m) == \E q \in asked, ok \in BOOLEAN : m = Message(q.ch, q.id, 1, ok)

LEMMA Traffic ==
    ASSUME TypeOK, Sound, [Next]_vars
    PROVE  /\ \A q \in asked' : q \in asked \/ NewRequest(q)
           /\ \A m \in Elements(wire)' : m \in Elements(wire) \/ m.conv = 0 \/ NewReply(m)
           /\ Queued' \subseteq Queued \cup Elements(wire)
<1> DEFINE Goal == /\ \A q \in asked' : q \in asked \/ NewRequest(q)
                   /\ \A m \in Elements(wire)' : m \in Elements(wire) \/ m.conv = 0 \/ NewReply(m)
                   /\ Queued' \subseteq Queued \cup Elements(wire)
<1>0. wire \in Seq(Messages) /\ Len(wire) \in Nat
  BY LenProperties DEF TypeOK
<1>1. ASSUME UNCHANGED channelMessages PROVE Queued' = Queued
  BY <1>1 DEF Queued, Channels
<1>2. Elements(<< >>) = {}
  BY DEF Elements
<1>3. CASE Connect \/ Close \/ PumpStops \/ PumpFails \/ PumpFinally \/ UNCHANGED vars
  <2>1. UNCHANGED <<wire, asked, channelMessages>>
    BY <1>3 DEF Connect, Close, PumpStops, PumpFails, PumpFinally, vars, deviceVars
  <2> QED
    BY <1>1, <2>1 DEF Elements
<1>4. CASE Closed
  <2>1. Queued' = {}
    BY <1>2, <1>4 DEF Closed, Queued, Channels, Fresh
  <2> QED
    BY <1>2, <1>4, <2>1 DEF Closed, Elements
<1>5. CASE PumpReads
  <2> DEFINE m == Head(wire)
  <2>1. /\ wire # << >> /\ deliverQueuedMessages(m) /\ wire' = Tail(wire) /\ UNCHANGED asked
    BY <1>5 DEF PumpReads
  <2>2. m \in Messages /\ m \in Elements(wire)
    <3>1. m \in Messages /\ m = wire[1] /\ 1 \in DOMAIN wire
      BY <2>1, HeadTailProperties, LenProperties DEF TypeOK
    <3> QED
      BY <3>1 DEF Elements
  <2>3. Elements(wire') \subseteq Elements(wire)
    BY <1>0, <2>1, QueueElements
  <2>4. Elements(wire)' = Elements(wire')
    BY DEF Elements
  <2>5. Queue(m.ch) \in Seq(Messages) /\ Elements(Queue(m.ch)) \subseteq Queued
    <3>1. CASE m.ch \in Channels
      BY <3>1 DEF Queue, TypeOK, Queued
    <3>2. CASE m.ch \notin Channels
      BY <1>2, <3>2, EmptySeq DEF Queue
    <3> QED
      BY <3>1, <3>2
  <2> HIDE DEF m
  <2>6. Elements(Append(Queue(m.ch), m)) \subseteq Queued \cup Elements(wire)
    BY <2>2, <2>5, QueueElements
  <2>7. Queued' \subseteq Queued \cup Elements(wire)
    <3>1. \/ channelMessages' = Put(m.ch, Append(Queue(m.ch), m))
          \/ channelMessages' = Put(m.ch, Queue(m.ch))
      BY <2>1 DEF deliverQueuedMessages
    <3>2. Elements(Queue(m.ch)) \subseteq Queued \cup Elements(wire)
      BY <2>5
    <3> QED
      BY <2>6, <3>1, <3>2, QueuedPut
  <2> QED
    BY <2>1, <2>3, <2>4, <2>7
<1>6. CASE Die
  <2>1. PICK n \in 0 .. Len(wire) : wire' = SubSeq(wire, 1, n)
    BY <1>6 DEF Die
  <2>2. Elements(wire') \subseteq Elements(wire)
    BY <1>0, <2>1, QueueElements
  <2> QED
    BY <1>1, <1>6, <2>2 DEF Die, Elements
<1>7. ASSUME NEW t \in Abortable, Abort(t) PROVE Goal
  BY <1>1, <1>7 DEF Abort, deviceVars, Elements
<1>8. ASSUME NEW t \in Makers \cup Requesters, Written(t) PROVE Goal
  <2>1. t \in Tasks /\ task[t].at = "writing" /\ t \notin Readers /\ task[t] \in TaskStates
        /\ UNCHANGED wire
    BY <1>8, TasksAssumption DEF Written, Tasks, TypeOK
  <2>2. CASE At(t, "failed") /\ UNCHANGED <<channelMessages, channelWaiters, pump>>
    <3>1. task' = [task EXCEPT ![t] = Over(t, "failed")] /\ Over(t, "failed").at = "failed"
      BY <2>2 DEF At, Over, New
    <3>2. task'[t].at = "failed" /\ \A u \in Tasks : u # t => Kept(u)
      BY <2>1, <3>1 DEF TypeOK, Kept
    <3>3. \A q \in asked' : q \in asked \/ q.id = task[t].id
      BY <1>8 DEF Written
    <3>4. \A q \in asked' : q \in asked \/ NewRequest(q)
      BY <2>1, <3>2, <3>3 DEF NewRequest
    <3> QED
      BY <1>1, <2>1, <2>2, <3>4 DEF Elements
  <2>3. CASE task[t].ch \in Channels /\ recvPacketFragments(t, task[t].ch)
    <3>1. task'[t].at \in {"waiting", "received"} /\ \A u \in Tasks : u # t => Kept(u)
      <4> DEFINE q == channelMessages[task[t].ch]
      <4>1. \/ task' = [task EXCEPT ![t].at = "waiting"]
            \/ \E i \in DOMAIN q : task' = [task EXCEPT ![t] = Got(t, q[i])]
        BY <2>3 DEF recvPacketFragments
      <4>2. CASE task' = [task EXCEPT ![t].at = "waiting"]
        <5>1. task' = [task EXCEPT ![t] = [task[t] EXCEPT !.at = "waiting"]]
          BY <2>1, <4>2 DEF TypeOK
        <5>2. [task[t] EXCEPT !.at = "waiting"].at = "waiting"
          BY <2>1 DEF TaskStates
        <5> QED
          BY <2>1, <5>1, <5>2 DEF TypeOK, Kept
      <4>3. ASSUME NEW i \in DOMAIN q, task' = [task EXCEPT ![t] = Got(t, q[i])]
            PROVE  task'[t].at = "received" /\ \A u \in Tasks : u # t => Kept(u)
        <5>1. Got(t, q[i]).at = "received"
          BY <2>1 DEF Got, TaskStates
        <5> QED
          BY <2>1, <4>3, <5>1 DEF TypeOK, Kept
      <4> QED
        BY <4>1, <4>2, <4>3
    <3>2. \A q \in asked' : q \in asked \/ q.id = task[t].id
      BY <1>8 DEF Written
    <3>3. \A q \in asked' : q \in asked \/ NewRequest(q)
      BY <2>1, <3>1, <3>2 DEF NewRequest
    <3>4. Queued' \subseteq Queued
      BY <2>1, <2>3, QueuedFetched
    <3> QED
      BY <2>1, <3>3, <3>4 DEF Elements
  <2> QED
    BY <1>8, <2>2, <2>3 DEF Written, Receive
<1>9. ASSUME NEW m \in Makers, MadeChannel(m) PROVE Goal
  <2>1. UNCHANGED channelMessages \/ channelMessages' = Put(task[m].code, << >>)
    BY <1>9 DEF MadeChannel
  <2>2. Elements(<< >>) \subseteq Queued \cup {}
    BY <1>2
  <2>3. Queued' \subseteq Queued
    BY <1>1, <2>1, <2>2, QueuedPut
  <2> QED
    BY <1>9, <2>3 DEF MadeChannel, deviceVars, Elements
<1>10. ASSUME NEW t, NEW c, MakeChannel(t, c) \/ Call(t, c) PROVE Goal
  BY <1>1, <1>10 DEF MakeChannel, Call, deviceVars, Elements
<1>11. ASSUME NEW d \in Readers, NEW c \in Held, Read(d, c) PROVE Goal
  <2>1. UNCHANGED <<wire, asked>> /\ c \in Channels
    BY <1>11 DEF Read, deviceVars
  <2>2. CASE channelMessages[c] # << >>
    <3>1. channelMessages' = Put(c, Tail(channelMessages[c]))
      BY <1>11, <2>2 DEF Read
    <3>2. Elements(Tail(channelMessages[c])) \subseteq Queued \cup {}
      BY <2>1, <2>2, QueueElements DEF TypeOK, Queued
    <3>3. Queued' \subseteq Queued
      BY <3>1, <3>2, QueuedPut
    <3> QED
      BY <2>1, <3>3 DEF Elements
  <2>3. CASE channelMessages[c] = << >>
    BY <1>1, <1>11, <2>1, <2>3 DEF Read, Elements
  <2> QED
    BY <2>2, <2>3
<1>12. ASSUME NEW q \in asked, NEW ok \in BOOLEAN, Answer(q, ok) PROVE Goal
  <2>1. Message(q.ch, q.id, 1, ok) \in Messages
    BY DEF Message, Messages, TypeOK
  <2>2. Elements(wire') = Elements(wire) \cup {Message(q.ch, q.id, 1, ok)}
    BY <1>0, <1>12, <2>1, QueueElements DEF Answer
  <2>3. \A m \in Elements(wire') : m \in Elements(wire) \/ NewReply(m)
    BY <2>2 DEF NewReply
  <2> QED
    BY <1>1, <1>12, <2>3 DEF Answer, Elements
<1>13. ASSUME NEW c \in granted \cup {Broadcast}, NEW id \in EventIds, Event(c, id) PROVE Goal
  <2>1. Message(c, id, 0, TRUE) \in Messages /\ Message(c, id, 0, TRUE).conv = 0
    BY BoundsAssumption DEF Message, Messages, TypeOK, Broadcast
  <2>2. Elements(wire') = Elements(wire) \cup {Message(c, id, 0, TRUE)}
    BY <1>0, <1>13, <2>1, QueueElements DEF Event
  <2> QED
    BY <1>1, <1>13, <2>1, <2>2 DEF Event, Elements
<1> QED
  BY <1>3, <1>4, <1>5, <1>6, <1>7, <1>8, <1>9, <1>10, <1>11, <1>12, <1>13 DEF Next, Pump


\* Nothing is asked, on the wire or queued that answers a request yet to be sent.
LEMMA AllSent == Spec => []Sent
<1>1. Init => Sent
  <2> SUFFICES ASSUME Init PROVE Sent
    OBVIOUS
  <2>1. asked = {} /\ Elements(wire) = {} /\ Queued = {}
    BY DEF Init, Elements, Queued, Channels, Fresh
  <2> QED
    BY <2>1 DEF Sent
<1>2. TypeOK /\ TypeOK' /\ Sound /\ Identified /\ Speakers /\ Sent /\ [Next]_vars => Sent'
  <2> SUFFICES ASSUME TypeOK, TypeOK', Sound, Identified, Speakers, Sent, [Next]_vars PROVE Sent'
    OBVIOUS
  <2>0. \A n \in Nat : Past(n) => Past(n)'
    BY PastStays
  <2>1. /\ \A q \in asked : q.id \in Nat
        /\ \A m \in Elements(wire) \cup Queued : m \in Messages
    <3>1. ASSUME NEW q \in Seq(Messages), NEW m \in Elements(q) PROVE m \in Messages
      BY ElementOfSeq, LenProperties DEF Elements
    <3> QED
      BY <3>1 DEF TypeOK, Queued
  <2>2. ASSUME NEW q \in asked' PROVE Past(q.id)'
    <3>1. CASE q \in asked
      BY <2>0, <2>1, <3>1 DEF Sent
    <3>2. CASE NewRequest(q)
      <4>1. PICK t \in Makers \cup Requesters :
               /\ q.id = task[t].id /\ task[t].at = "writing" /\ task'[t].at # "writing"
               /\ \A u \in Tasks : u # t => Kept(u)
        BY <3>2 DEF NewRequest
      <4>2. t \in Tasks /\ q.id <= curMessageId /\ q.id \in Nat /\ curMessageId' \in Nat
        BY <4>1 DEF Tasks, Identified, TypeOK, TaskStates
      <4>3. q.id <= curMessageId'
        <5>1. curMessageId' >= curMessageId /\ curMessageId \in Nat
          BY TaskSteps DEF TypeOK
        <5> QED
          BY <4>2, <5>1
      <4>4. ASSUME NEW r \in Requesters, task'[r].at = "writing" PROVE task'[r].id # q.id
        <5>1. r \in Tasks /\ r # t /\ task'[r] = task[r]
          BY <4>1, <4>4 DEF Tasks, Kept
        <5>2. task[r].id # 0
          BY <4>4, <5>1 DEF Speakers, On
        <5> QED
          BY <4>1, <4>2, <5>1, <5>2 DEF Identified
      <4> QED
        BY <4>3, <4>4 DEF Past
    <3> QED
      BY <3>1, <3>2, Traffic
  <2>3. ASSUME NEW m \in Elements(wire)' \cup Queued', m.conv = 1 PROVE Past(m.id)'
    <3>1. CASE m \in Elements(wire) \cup Queued
      <4>1. m.id \in Nat /\ Past(m.id)
        BY <2>1, <2>3, <3>1 DEF Sent, Messages
      <4> QED
        BY <2>0, <4>1
    <3>2. CASE NewReply(m)
      <4>1. PICK q \in asked : m.id = q.id
        BY <3>2 DEF NewReply, Message
      <4> QED
        BY <2>0, <2>1, <4>1 DEF Sent
    <3> QED
      BY <2>3, <3>1, <3>2, Traffic
  <2> QED
    BY <2>2, <2>3 DEF Sent
<1> QED
  BY <1>1, <1>2, TypeCorrect, AllSound, AllIdentified, AllSpeakers, PTL DEF Spec

\* What a step does to the correlated calls: some fail, or one begins to wait, or one
\* that waits gets the reply the pump reads.
Failed(r) == task[r].at \in {"writing", "waiting"} /\ task'[r].at = "failed"
Calling(r) == task[r].at = "new" /\ task'[r].at = "writing"
Answered(r) == Waits(r) /\ Received(r) /\ wire # << >> /\ Head(wire) = ReplyTo(r)
Only(r) == \A u \in Requesters : u # r => Kept(u)
RequesterStep ==
    \/ \A r \in Requesters : Kept(r) \/ Failed(r) \/ Calling(r)
    \/ \E r \in Requesters : (Waited(r) \/ Answered(r)) /\ Only(r)

LEMMA RequesterSteps ==
    ASSUME TypeOK, Sound, Identified, Speakers, Sent, [Next]_vars
    PROVE  RequesterStep
<1>k. ASSUME UNCHANGED task PROVE RequesterStep
  BY <1>k DEF RequesterStep, Kept
<1>o. ASSUME NEW t, NEW s, task' = [task EXCEPT ![t] = s]
      PROVE  \A u \in Tasks : u # t => Kept(u)
  BY <1>o DEF Kept, TypeOK
<1>n. ASSUME NEW t, NEW s, task' = [task EXCEPT ![t] = s], t \notin Requesters
      PROVE  RequesterStep
  BY <1>o, <1>n DEF RequesterStep, Tasks
<1>1. CASE \/ Connect \/ Close \/ PumpStops \/ PumpFinally \/ Die \/ UNCHANGED vars
           \/ \E q \in asked, ok \in BOOLEAN : Answer(q, ok)
           \/ \E c \in granted \cup {Broadcast}, id \in EventIds : Event(c, id)
  BY <1>1, <1>k DEF Connect, Close, PumpStops, PumpFinally, Die, vars, Answer, Event
<1>2. CASE Closed \/ PumpFails
  <2>1. rejectAllWaiters
    BY <1>2 DEF Closed, PumpFails
  <2>2. \A r \in Tasks : Kept(r) \/ Failed(r)
    BY <2>1 DEF rejectAllWaiters, Kept, Failed, Over, New, Waits
  <2> QED
    BY <2>2 DEF RequesterStep, Tasks
<1>3. CASE PumpReads
  <2> DEFINE m == Head(wire)
  <2>1. wire # << >> /\ deliverQueuedMessages(m)
    BY <1>3 DEF PumpReads
  <2>2. m \in Messages /\ m = wire[1] /\ 1 \in DOMAIN wire
    BY <2>1, HeadTailProperties, LenProperties DEF TypeOK
  <2>3. m.ch # Broadcast => m.ok = TRUE
    BY <2>2 DEF Sound
  <2>a. ASSUME NEW r \in Requesters, Waits(r), m.ch = task[r].ch, Takes(r, m) PROVE m = ReplyTo(r)
    <3>1. m.conv = 1 /\ m.id = task[r].id /\ m.ch # Broadcast
      BY <2>2, <2>a DEF Takes, isReplyTo, Messages, Speakers, On, Waits
    <3>2. m = [ch |-> m.ch, id |-> m.id, conv |-> m.conv, ok |-> m.ok]
      BY <2>2 DEF Messages
    <3> QED
      BY <2>3, <2>a, <3>1, <3>2 DEF ReplyTo, Message
  <2> HIDE DEF m
  <2>4. ASSUME NEW i \in Claimants(m), Serve(i, m) PROVE RequesterStep
    <3> DEFINE t == channelWaiters[i]
    <3>1. i \in DOMAIN channelWaiters /\ task[t].ch = m.ch /\ Takes(t, m)
      BY DEF Claimants
    <3>2. t \in Tasks /\ Waits(t)
      BY <3>1 DEF TypeOK, Range
    <3>3. task' = [task EXCEPT ![t] = Got(t, m)]
      BY <2>4 DEF Serve
    <3> HIDE DEF t
    <3>4. CASE t \in Requesters
      <4>1. task'[t] = [task[t] EXCEPT !.at = "received", !.got = m] /\ t \notin Readers
        BY <3>2, <3>3, <3>4, TasksAssumption DEF TypeOK, Got
      <4>2. Received(t)
        BY <2>2, <2>3, <3>1, <3>2, <4>1 DEF Received, Waits
      <4>3. Answered(t)
        BY <2>1, <2>a, <3>1, <3>2, <3>4, <4>2 DEF Answered, m
      <4>4. Only(t)
        BY <3>3, <1>o DEF Only, Tasks
      <4> QED
        BY <3>4, <4>3, <4>4 DEF RequesterStep
    <3> QED
      BY <3>3, <3>4, <1>n
  <2> QED
    BY <2>1, <2>4, <1>k DEF deliverQueuedMessages
<1>4. ASSUME NEW t \in Tasks, task' = [task EXCEPT ![t] = Over(t, "failed")],
             task[t].at \in {"writing", "waiting"}
      PROVE  RequesterStep
  <2>1. task'[t].at = "failed"
    BY <1>4 DEF TypeOK, Over, New
  <2> QED
    BY <1>4, <1>o, <2>1 DEF RequesterStep, Failed, Tasks
<1>5. ASSUME NEW t \in Abortable, Abort(t) PROVE RequesterStep
  BY <1>4, <1>5, TasksAssumption DEF Abort, At, Waits, Tasks
<1>6. ASSUME NEW t \in Makers \cup Requesters, Written(t) PROVE RequesterStep
  <2>1. t \in Tasks /\ task[t].at = "writing" /\ task[t] \in TaskStates
    BY <1>6 DEF Written, Tasks, TypeOK
  <2>2. CASE At(t, "failed")
    BY <2>1, <2>2, <1>4 DEF At
  <2>3. CASE t \in Requesters /\ task[t].ch \in Channels /\ recvPacketFragments(t, task[t].ch)
    <3> DEFINE q == channelMessages[task[t].ch]
    <3>1. CASE task' = [task EXCEPT ![t].at = "waiting"]
      <4>1. task' = [task EXCEPT ![t] = [task[t] EXCEPT !.at = "waiting"]]
        BY <2>1, <3>1 DEF TypeOK
      <4>2. task'[t] = [task[t] EXCEPT !.at = "waiting"] /\ Only(t)
        BY <2>1, <4>1, <1>o DEF TypeOK, Only, Tasks
      <4>3. task'[t].at = "waiting" /\ ~Kept(t) /\ ~Ended(t) /\ ~Reading(t) /\ ~Began(t) /\ ~Cached(t)
        BY <2>1, <2>3, <4>2, TasksAssumption DEF TaskStates, Kept, Ended, Reading, Began, Cached
      <4>4. ~Received(t)
        <5>1. \A m \in Messages : [task[t] EXCEPT !.at = "received", !.got = m].at = "received"
          BY <2>1 DEF TaskStates
        <5> QED
          BY <4>3, <5>1 DEF Received
      <4>5. Waited(t)
        <5>1. TaskStep(t)
          BY <2>1, TaskSteps
        <5> QED
          BY <4>3, <4>4, <5>1 DEF TaskStep
      <4> QED
        BY <2>3, <4>2, <4>5 DEF RequesterStep
    <3>2. ASSUME NEW i \in DOMAIN q, Takes(t, q[i]) PROVE FALSE
      <4>1. q \in Seq(Messages) /\ q[i] \in Messages /\ q[i] \in Queued
        <5>1. q \in Seq(Messages)
          BY <2>3 DEF TypeOK
        <5>2. q[i] \in Messages
          BY <3>2, <5>1, ElementOfSeq, LenProperties
        <5> QED
          BY <2>3, <3>2, <5>1, <5>2 DEF Queued, Elements
      <4>2. q[i].conv = 1 /\ q[i].id = task[t].id
        BY <2>3, <3>2, <4>1 DEF Takes, isReplyTo, Messages
      <4>3. Past(task[t].id)
        BY <4>1, <4>2 DEF Sent
      <4> QED
        BY <2>1, <2>3, <4>3 DEF Past
    <3> QED
      BY <2>3, <3>1, <3>2 DEF recvPacketFragments
  <2>4. CASE t \notin Requesters /\ recvPacketFragments(t, task[t].ch)
    <3>1. \/ task' = [task EXCEPT ![t].at = "waiting"]
          \/ \E s : task' = [task EXCEPT ![t] = s]
      BY <2>4 DEF recvPacketFragments
    <3>2. task' = [task EXCEPT ![t].at = "waiting"] => \E s : task' = [task EXCEPT ![t] = s]
      BY <2>1 DEF TypeOK
    <3> QED
      BY <2>4, <3>1, <3>2, <1>n
  <2> QED
    BY <1>6, <2>2, <2>3, <2>4 DEF Written, Receive
<1>7. ASSUME NEW m \in Makers, MadeChannel(m) \/ \E i \in Identifiers : MakeChannel(m, i)
      PROVE  RequesterStep
  <2>1. m \notin Requesters /\ m \in Tasks
    BY TasksAssumption DEF Tasks
  <2>2. \A u \in Tasks : u # m => Kept(u)
    BY <1>7, <2>1 DEF MadeChannel, MakeChannel, At, Kept, TypeOK
  <2> QED
    BY <2>1, <2>2 DEF RequesterStep, Tasks
<1>8. ASSUME NEW r \in Requesters, NEW c \in Held, Call(r, c) PROVE RequesterStep
  <2> DEFINE w == [task[r] EXCEPT !.at = "writing", !.ch = c, !.id = curMessageId + 1]
  <2>1. r \in Tasks /\ task[r].at = "new" /\ task[r] \in TaskStates
    BY <1>8 DEF Call, Tasks, TypeOK
  <2>2. task' = [task EXCEPT ![r] = w] /\ task'[r] = w
    BY <1>8, <2>1 DEF Call, TypeOK
  <2>3. w.at = "writing"
    BY <2>1 DEF TaskStates
  <2>4. Calling(r)
    BY <2>1, <2>2, <2>3 DEF Calling
  <2> HIDE DEF w
  <2> QED
    BY <1>o, <2>2, <2>4 DEF RequesterStep, Tasks
<1>9. ASSUME NEW d \in Readers, NEW c \in Held, Read(d, c) PROVE RequesterStep
  <2>1. d \notin Requesters /\ d \in Tasks
    BY TasksAssumption DEF Tasks
  <2>2. \A u \in Tasks : u # d => Kept(u)
    BY <1>9, <2>1 DEF Read, Kept, TypeOK
  <2> QED
    BY <2>1, <2>2 DEF RequesterStep, Tasks
<1> QED
  BY <1>1, <1>2, <1>3, <1>5, <1>6, <1>7, <1>8, <1>9 DEF Next, Pump


\* A request that may be answered after a step could be answered before it, unless its
\* call has just sent it.
LEMMA PendingShrinks ==
    ASSUME TypeOK, Sound, Identified, Speakers, [Next]_vars,
           NEW r \in Requesters, Kept(r), Waits(r), OnItsWay(r)'
    PROVE  OnItsWay(r)
<1>1. task'[r] = task[r] /\ r \in Tasks /\ task[r].id # 0 /\ ReplyTo(r)' = ReplyTo(r)
  BY DEF Kept, Tasks, Waits, Speakers, On, ReplyTo
<1>2. ASSUME NEW q \in asked', q.ch = task[r].ch, q.id = task[r].id PROVE OnItsWay(r)
  <2>1. ~NewRequest(q)
    BY <1>1, <1>2 DEF NewRequest, Identified, Tasks, Waits
  <2> QED
    BY <1>2, <2>1, Traffic DEF OnItsWay
<1>3. ASSUME ReplyTo(r) \in Elements(wire)' PROVE OnItsWay(r)
  <2>1. ReplyTo(r).conv = 1 /\ ReplyTo(r).ch = task[r].ch /\ ReplyTo(r).id = task[r].id
    BY DEF ReplyTo, Message
  <2>2. CASE ReplyTo(r) \in Elements(wire)
    BY <2>2 DEF Elements, OnItsWay
  <2>3. CASE NewReply(ReplyTo(r))
    <3>1. PICK q \in asked : ReplyTo(r).ch = q.ch /\ ReplyTo(r).id = q.id
      BY <2>3 DEF NewReply, Message
    <3> QED
      BY <2>1, <3>1 DEF OnItsWay
  <2> QED
    BY <1>3, <2>1, <2>2, <2>3, Traffic
<1>4. \/ \E q \in asked' : q.ch = task[r].ch /\ q.id = task[r].id
      \/ ReplyTo(r) \in Elements(wire)'
  BY <1>1 DEF OnItsWay, Elements
<1> QED
  BY <1>2, <1>3, <1>4

CallInv == TypeOK /\ Sound /\ Identified /\ Speakers /\ OwnReply /\ Sent

\* The replies, and the calls whose request may still be answered.
Replied == [r \in Requesters |-> IF task[r].at # "received" THEN NoMessage
                                 ELSE IF task[r].got = ReplyTo(r) THEN r ELSE task[r].got]
Pending == {r \in Requesters : Waits(r) /\ OnItsWay(r)}

LEMMA StepPromised ==
    ASSUME CallInv, TypeOK', OwnReply', [Next]_vars
    PROVE  Promise!Next
<1>0. TypeOK /\ Sound /\ Identified /\ Speakers /\ OwnReply /\ Sent
  BY DEF CallInv
<1>1. \A r \in Requesters : r \in Tasks /\ task[r] \in TaskStates
  BY <1>0 DEF TypeOK, Tasks
<1>2. \A r \in Requesters : /\ Replied[r] = IF task[r].at = "received" THEN r ELSE NoMessage
                            /\ Replied'[r] = IF task'[r].at = "received" THEN r ELSE NoMessage
  BY <1>0 DEF OwnReply, Replied, ReplyTo
<1>3. ASSUME NEW r \in Requesters, r \in Pending', Kept(r) PROVE r \in Pending
  <2>1. Waits(r) /\ OnItsWay(r)'
    BY <1>3 DEF Pending, Kept, Waits
  <2> QED
    BY <1>0, <1>3, <2>1, PendingShrinks DEF Pending
<1>4. \A r \in Requesters : Kept(r) => Stage(r)' = Stage(r) /\ Replied'[r] = Replied[r]
  BY <1>2 DEF Kept, Stage, Waits
<1>5. Replied = [r \in Requesters |-> Replied[r]] /\ Replied' = [r \in Requesters |-> Replied'[r]]
  BY DEF Replied
<1>6. CASE \A r \in Requesters : Kept(r) \/ Failed(r) \/ Calling(r)
  <2> DEFINE S == {r \in Requesters : Failed(r)}
  <2>1. \A r \in S : Stage(r) \in {"new", "asked"} /\ Stage(r)' = "failed"
    BY DEF Failed, Stage, Waits
  <2>2. \A r \in Requesters \ S : Stage(r)' = Stage(r)
    BY <1>4, <1>6 DEF Calling, Stage, Waits
  <2>3. Replied' = Replied
    <3>1. \A r \in Requesters : Replied'[r] = Replied[r]
      BY <1>2, <1>4, <1>6 DEF Failed, Calling
    <3> QED
      BY <1>5, <3>1
  <2>4. Pending' \subseteq Pending
    <3>1. \A r \in Requesters : r \in Pending' => Kept(r)
      BY <1>6 DEF Pending, Failed, Calling, Waits
    <3> QED
      BY <1>3, <3>1 DEF Pending
  <2>5. Promise!GiveUp(S)
    BY <2>1, <2>2, <2>3, <2>4 DEF Promise!GiveUp, Replied, Pending
  <2>6. S \in SUBSET Requesters
    OBVIOUS
  <2> QED
    BY <2>5, <2>6 DEF Promise!Next, Promise!GiveUp
<1>7. ASSUME NEW r \in Requesters, Waited(r), Only(r) PROVE Promise!Next
  <2>1. task[r].at = "writing" /\ task'[r].at = "waiting"
    BY <1>1, <1>7 DEF Waited, TaskStates
  <2>2. Stage(r) = "new" /\ Stage(r)' = "asked" /\ \A u \in Requesters : u # r => Stage(u)' = Stage(u)
    BY <1>4, <1>7, <2>1 DEF Only, Stage, Waits
  <2>3. Replied' = Replied
    <3>1. \A u \in Requesters : Replied'[u] = Replied[u]
      BY <1>2, <1>4, <1>7, <2>1 DEF Only
    <3> QED
      BY <1>5, <3>1
  <2>4. Pending' \subseteq Pending \cup {r}
    BY <1>3, <1>7 DEF Only, Pending
  <2>5. Promise!Ask(r)
    BY <2>2, <2>3, <2>4 DEF Promise!Ask, Replied, Pending
  <2> QED
    BY <2>5 DEF Promise!Next
<1>8. ASSUME NEW r \in Requesters, Answered(r), Only(r) PROVE Promise!Next
  <2>1. Waits(r) /\ task'[r].at = "received"
    BY <1>1, <1>8 DEF Answered, Received, TaskStates
  <2>2. Stage(r) = "asked" /\ Stage(r)' = "replied" /\ \A u \in Requesters : u # r => Stage(u)' = Stage(u)
    BY <1>4, <1>8, <2>1 DEF Only, Stage, Waits
  <2>3. Replied' = [Replied EXCEPT ![r] = r]
    <3>1. \A u \in Requesters : Replied'[u] = IF u = r THEN r ELSE Replied[u]
      BY <1>2, <1>4, <1>8, <2>1 DEF Only
    <3> QED
      BY <1>5, <3>1
  <2>4. r \in Pending
    <3>1. 1 \in DOMAIN wire /\ wire[1] = ReplyTo(r)
      BY <1>0, <1>8, HeadTailProperties, LenProperties DEF TypeOK, Answered
    <3> QED
      BY <2>1, <3>1 DEF Pending, OnItsWay
  <2>5. Pending' \subseteq Pending \ {r}
    BY <1>3, <1>8, <2>1 DEF Only, Pending, Waits
  <2>6. Promise!Answer(r)
    BY <2>2, <2>3, <2>4, <2>5 DEF Promise!Answer, Replied, Pending
  <2> QED
    BY <2>6 DEF Promise!Next
<1> QED
  BY <1>0, <1>6, <1>7, <1>8, RequesterSteps DEF RequesterStep

\* The correlated calls of all channels share the connection as calls that are each
\* answered once: for any calls, readers and connections, a request goes out once, no reply
\* settles a call before it was asked for, and it settles its own call or none.
THEOREM Refinement == Spec => ImplementsRequestReply
<1>1. Init => Promise!Init
  <2> SUFFICES ASSUME Init PROVE Promise!Init
    OBVIOUS
  <2>1. \A r \in Requesters : task[r].at = "new" /\ Stage(r) = "new" /\ ~Waits(r)
    BY DEF Init, Tasks, New, Stage, Waits
  <2> QED
    BY <2>1 DEF Promise!Init
<1>2. CallInv /\ TypeOK' /\ OwnReply' /\ [Next]_vars => [Promise!Next]_(Promise!requestVars)
  BY StepPromised
<1> QED
  BY <1>1, <1>2, TypeCorrect, AllSound, AllIdentified, AllSpeakers, OwnReplySafe, AllSent, PTL
  DEF Spec, CallInv, ImplementsRequestReply, Promise!Spec
=============================================================================
