----------------------------- MODULE AfcProofs -----------------------------
(***************************************************************************)
(* Proofs about AfcConnection, for any operations, reconnects, closes and  *)
(* sockets.                                                                *)
(***************************************************************************)
EXTENDS AfcConnection, FiniteSetTheorems, SequenceTheorems, TLAPS

SocketStates == {"unused", "connecting", "open", "destroyed"}
Stages == {"idle", "connecting", "queued", "writing", "waiting", "failing", "done"}
WaiterSet == [num : Nat, op : Ops]
DemuxStates ==
    [used : BOOLEAN, stopped : BOOLEAN, readerSocket : Sockets \cup {None},
     readerActive : BOOLEAN, packetNum : Nat, pending : SUBSET WaiterSet, lock : Seq(Ops)]
CallStates ==
    [pc : Stages, demux : Demuxes \cup {None}, socket : Sockets \cup {None}, num : Nat]
PacketSet == [socket : Sockets, num : Nat, op : Ops]

\* An operation in one of these stages is in the lock's queue, and has sent or
\* sends in one of the latter.
OnSocket == {"queued", "writing", "waiting"}
Sent == {"writing", "waiting"}
USE DEF Sent
Started == {"open", "destroyed"}

\* What is in the queue of a lock: each operation once, and none but the head of
\* it sends or waits.
Queue(d) ==
    /\ \A i \in 1..Len(dmx[d].lock) :
         /\ call[dmx[d].lock[i]].demux = d
         /\ call[dmx[d].lock[i]].pc \in OnSocket
         /\ call[dmx[d].lock[i]].pc \in Sent => i = 1
    /\ \A i, j \in 1..Len(dmx[d].lock) : dmx[d].lock[i] = dmx[d].lock[j] => i = j
    /\ \A w \in dmx[d].pending :
         dmx[d].lock # << >> /\ w.op = Head(dmx[d].lock) /\ call[w.op].pc \in Sent
    /\ \A v, w \in dmx[d].pending : v = w
InQueue(o) ==
    /\ o \in Ops /\ call[o].demux \in Demuxes /\ call[o].socket \in Sockets
    /\ \E i \in 1..Len(dmx[call[o].demux].lock) : dmx[call[o].demux].lock[i] = o
Locks ==
    /\ \A d \in Demuxes : Queue(d)
    /\ \A c \in Calls : call[c].pc \in OnSocket => InQueue(c)

\* Where a call is has opened what it holds; two calls never open one socket.
Holders ==
    \A c \in Calls :
        /\ call[c].pc = "failing" => c \in Ops
        /\ call[c].pc \in OnSocket => sock[call[c].socket] \in Started
        /\ call[c].pc = "connecting" =>
             /\ c \in Ops \cup Reconnects /\ call[c].socket \in Sockets
             /\ sock[call[c].socket] = "connecting"
             /\ c \in Ops => call[c].demux \in Demuxes /\ dmx[call[c].demux].used
             /\ \A b \in Calls :
                  call[b].pc = "connecting" /\ call[b].socket = call[c].socket => b = c

\* The demux in use is the only one that is not stopped; the others were stopped
\* or nothing has used them.
InUse ==
    /\ demux # None => dmx[demux].used /\ ~dmx[demux].stopped
    /\ \A d \in Demuxes :
         /\ dmx[d].used /\ ~dmx[d].stopped => d = demux
         /\ ~dmx[d].used => ~dmx[d].stopped /\ ~dmx[d].readerActive
    /\ socket # None => sock[socket] \in Started
    /\ \A r \in readers : sock[r[2]] \in Started

\* There is a demux left for every close() and reconnect() to come.
Begun == {c \in Closes \cup Reconnects : call[c].pc # "idle"}
Room ==
    \E k \in Nat : /\ k <= Cardinality(Begun) + (IF demux = None THEN 0 ELSE 1)
                   /\ \A d \in Demuxes : dmx[d].used <=> d <= k

BaseInv == TypeOK /\ Locks /\ Holders /\ InUse /\ Room
-----------------------------------------------------------------------------
(* What the helpers leave behind *)

LEMMA Kinds ==
    /\ Ops \subseteq Calls /\ Reconnects \subseteq Calls /\ Closes \subseteq Calls
    /\ Ops \cap (Reconnects \cup Closes) = {} /\ Reconnects \cap Closes = {}
    /\ None \notin Sockets /\ None \notin Demuxes
  BY CallsAssumption, SocketsAssumption DEF Calls, CallsAssumption, SocketsAssumption

LEMMA Counts ==
    /\ IsFiniteSet(Closes \cup Reconnects) /\ Cardinality(Closes \cup Reconnects) \in Nat
    /\ Demuxes = 1..(1 + Cardinality(Closes \cup Reconnects))
    /\ MaxSockets \in Nat /\ 1 \in Sockets
<1>1. IsFiniteSet(Closes \cup Reconnects) /\ IsFiniteSet(Ops \cup Reconnects)
  BY CallsAssumption, FS_Subset DEF CallsAssumption, Calls
<1>2. Cardinality(Closes \cup Reconnects) \in Nat /\ Cardinality(Ops \cup Reconnects) \in Nat
  BY <1>1, FS_CardinalityType
<1> QED
  BY <1>1, <1>2, SocketsAssumption DEF SocketsAssumption, Demuxes, Sockets

LEMMA Types ==
    ASSUME TypeOK
    PROVE  /\ redial \in BOOLEAN /\ connectionError \in BOOLEAN
           /\ socket \in Sockets \cup {None} /\ demux \in Demuxes \cup {None}
           /\ sock \in [Sockets -> SocketStates] /\ dmx \in [Demuxes -> DemuxStates]
           /\ call \in [Calls -> CallStates] /\ readers \subseteq Demuxes \X Sockets
           /\ packets \subseteq PacketSet /\ answer \in [Ops -> Ops \cup {None}]
  BY DEF TypeOK, SocketStates, DemuxStates, WaiterSet, CallStates, Stages, PacketSet

LEMMA Retyped ==
    ASSUME redial' \in BOOLEAN, connectionError' \in BOOLEAN,
           socket' \in Sockets \cup {None}, demux' \in Demuxes \cup {None},
           sock' \in [Sockets -> SocketStates], dmx' \in [Demuxes -> DemuxStates],
           call' \in [Calls -> CallStates], readers' \subseteq Demuxes \X Sockets,
           packets' \subseteq PacketSet, answer' \in [Ops -> Ops \cup {None}],
           Locks'
    PROVE  TypeOK'
<1>1. \A d \in Demuxes : \A w \in dmx'[d].pending :
         Len(dmx'[d].lock) > 0 /\ w.op = Head(dmx'[d].lock)
  <2> TAKE d \in Demuxes
  <2> TAKE w \in dmx'[d].pending
  <2>1. dmx'[d].lock # << >> /\ w.op = Head(dmx'[d].lock)
    BY DEF Locks, Queue
  <2>2. dmx'[d].lock \in Seq(Ops)
    BY DEF DemuxStates
  <2> QED
    BY <2>1, <2>2
<1> QED
  BY <1>1 DEF TypeOK, SocketStates, DemuxStates, WaiterSet, CallStates, Stages, PacketSet

\* Calls that Goto() moves.
LEMMA GotoMoves ==
    ASSUME NEW f \in [Calls -> CallStates], NEW C, NEW pc \in Stages
    PROVE  /\ Goto(f, C, pc) \in [Calls -> CallStates]
           /\ \A c \in Calls :
                /\ c \in C => /\ Goto(f, C, pc)[c].pc = pc
                              /\ Goto(f, C, pc)[c].demux = f[c].demux
                              /\ Goto(f, C, pc)[c].socket = f[c].socket
                /\ c \notin C => Goto(f, C, pc)[c] = f[c]
<1>1. \A c \in Calls : [f[c] EXCEPT !.pc = pc] \in CallStates
  BY DEF CallStates
<1>2. \A c \in Calls : /\ [f[c] EXCEPT !.pc = pc].pc = pc
                       /\ [f[c] EXCEPT !.pc = pc].demux = f[c].demux
                       /\ [f[c] EXCEPT !.pc = pc].socket = f[c].socket
  BY DEF CallStates
<1> QED
  BY <1>1, <1>2 DEF Goto

\* A demux of which a field changes, the others as they were.
LEMMA UsingIs ==
    ASSUME dmx \in [Demuxes -> DemuxStates], NEW d \in Demuxes
    PROVE  /\ Using(d) \in [Demuxes -> DemuxStates]
           /\ \A e \in Demuxes : e # d => Using(d)[e] = dmx[e]
           /\ Using(d)[d].used /\ Using(d)[d].stopped = dmx[d].stopped
           /\ Using(d)[d].pending = dmx[d].pending /\ Using(d)[d].lock = dmx[d].lock
           /\ Using(d)[d].packetNum = dmx[d].packetNum
  BY DEF Using, DemuxStates

LEMMA ReaderIs ==
    ASSUME dmx \in [Demuxes -> DemuxStates], NEW d \in Demuxes, NEW s \in Sockets,
           NEW D, D = ensureReaderStarted(dmx, d, s)
    PROVE  /\ D \in [Demuxes -> DemuxStates]
           /\ \A e \in Demuxes : e # d => D[e] = dmx[e]
           /\ D[d].used /\ D[d].stopped = dmx[d].stopped
           /\ D[d].readerSocket = s /\ D[d].readerActive
           /\ D[d].pending = dmx[d].pending /\ D[d].lock = dmx[d].lock
           /\ D[d].packetNum = dmx[d].packetNum
  BY DEF ensureReaderStarted, DemuxStates

LEMMA EnqueueIs ==
    ASSUME NEW D \in [Demuxes -> DemuxStates], NEW d \in Demuxes, NEW o \in Ops
    PROVE  /\ Enqueue(D, d, o) \in [Demuxes -> DemuxStates]
           /\ \A e \in Demuxes : e # d => Enqueue(D, d, o)[e] = D[e]
           /\ Enqueue(D, d, o)[d].used = D[d].used
           /\ Enqueue(D, d, o)[d].stopped = D[d].stopped
           /\ Enqueue(D, d, o)[d].readerSocket = D[d].readerSocket
           /\ Enqueue(D, d, o)[d].readerActive = D[d].readerActive
           /\ Enqueue(D, d, o)[d].pending = D[d].pending
           /\ Enqueue(D, d, o)[d].lock = Append(D[d].lock, o)
           /\ Enqueue(D, d, o)[d].packetNum = D[d].packetNum
<1>1. D[d] \in DemuxStates /\ D[d].lock \in Seq(Ops)
  BY DEF DemuxStates
<1>2. Append(D[d].lock, o) \in Seq(Ops)
  BY <1>1
<1> QED
  BY <1>1, <1>2 DEF Enqueue, DemuxStates

\* _failPending(): the queue loses its head if that awaits its waiter.
LEMMA FailPendingIs ==
    ASSUME NEW D \in [Demuxes -> DemuxStates], NEW d \in Demuxes,
           D[d].pending # {} => D[d].lock # << >>
    PROVE  /\ _failPending(D, d) \in [Demuxes -> DemuxStates]
           /\ \A e \in Demuxes : e # d => _failPending(D, d)[e] = D[e]
           /\ _failPending(D, d)[d].used = D[d].used
           /\ _failPending(D, d)[d].stopped = D[d].stopped
           /\ _failPending(D, d)[d].readerSocket = D[d].readerSocket
           /\ _failPending(D, d)[d].readerActive = D[d].readerActive
           /\ _failPending(D, d)[d].packetNum = D[d].packetNum
           /\ _failPending(D, d)[d].pending = {}
           /\ _failPending(D, d)[d].lock = Released(D[d].lock, Awaiting(D[d].pending))
<1> DEFINE lock == Released(D[d].lock, Awaiting(D[d].pending))
<1>1. D[d] \in DemuxStates /\ D[d].lock \in Seq(Ops)
  BY DEF DemuxStates
<1>2. lock \in Seq(Ops)
  <2>1. D[d].pending = {} => Awaiting(D[d].pending) = {}
    BY DEF Awaiting
  <2> QED
    BY <1>1, <2>1 DEF Released
<1>3. _failPending(D, d) = [D EXCEPT ![d] = [D[d] EXCEPT !.pending = {}, !.lock = lock]]
  BY <1>1 DEF _failPending
<1> HIDE DEF lock
<1>4. [D[d] EXCEPT !.pending = {}, !.lock = lock] \in DemuxStates
  BY <1>1, <1>2 DEF DemuxStates
<1>5. /\ [D[d] EXCEPT !.pending = {}, !.lock = lock].used = D[d].used
      /\ [D[d] EXCEPT !.pending = {}, !.lock = lock].stopped = D[d].stopped
      /\ [D[d] EXCEPT !.pending = {}, !.lock = lock].readerSocket = D[d].readerSocket
      /\ [D[d] EXCEPT !.pending = {}, !.lock = lock].readerActive = D[d].readerActive
      /\ [D[d] EXCEPT !.pending = {}, !.lock = lock].packetNum = D[d].packetNum
      /\ [D[d] EXCEPT !.pending = {}, !.lock = lock].pending = {}
      /\ [D[d] EXCEPT !.pending = {}, !.lock = lock].lock = lock
  BY <1>1 DEF DemuxStates
<1> QED
  BY <1>3, <1>4, <1>5 DEF lock
-----------------------------------------------------------------------------
(* The queue of a lock *)

\* A call that is in no queue stays in none.
Aloof(c) == call'[c] = call[c] \/ (call[c].pc \notin OnSocket /\ call'[c].pc \notin OnSocket)

LEMMA LocksKept ==
    ASSUME TypeOK, Locks,
           \A d \in Demuxes : /\ dmx'[d].lock = dmx[d].lock
                              /\ dmx'[d].pending \subseteq dmx[d].pending,
           \A c \in Calls : Aloof(c)
    PROVE  Locks'
<1>1. ASSUME NEW d \in Demuxes PROVE Queue(d)'
  <2>1. Queue(d) /\ dmx[d].lock \in Seq(Ops)
    BY Types DEF Locks, DemuxStates
  <2>2. \A i \in 1..Len(dmx[d].lock) : dmx[d].lock[i] \in Calls
    BY <2>1, Kinds
  <2>3. \A i \in 1..Len(dmx[d].lock) : call'[dmx[d].lock[i]] = call[dmx[d].lock[i]]
    BY <2>1, <2>2 DEF Queue, Aloof
  <2>4. \A w \in dmx[d].pending : w.op \in Calls /\ call[w.op].pc \in OnSocket
    <3>1. \A w \in dmx[d].pending : w.op \in Ops
      BY Types DEF DemuxStates, WaiterSet
    <3> QED
      BY <2>1, <3>1, Kinds DEF Queue, OnSocket
  <2>5. \A w \in dmx[d].pending : call'[w.op] = call[w.op]
    BY <2>4 DEF Aloof
  <2> QED
    BY <2>1, <2>3, <2>5 DEF Queue
<1>2. ASSUME NEW c \in Calls, call'[c].pc \in OnSocket PROVE InQueue(c)'
  <2>1. call'[c] = call[c] /\ InQueue(c)
    BY <1>2 DEF Aloof, Locks
  <2> QED
    BY <2>1 DEF InQueue
<1> QED
  BY <1>1, <1>2 DEF Locks

\* Members of a queue are calls of this demux.
LEMMA QueueMembers ==
    ASSUME TypeOK, Locks, NEW d \in Demuxes
    PROVE  /\ dmx[d].lock \in Seq(Ops)
           /\ \A i \in 1..Len(dmx[d].lock) :
                /\ dmx[d].lock[i] \in Ops /\ dmx[d].lock[i] \in Calls
                /\ call[dmx[d].lock[i]].demux = d /\ call[dmx[d].lock[i]].pc \in OnSocket
           /\ \A w \in dmx[d].pending :
                /\ w.op \in Ops /\ w.num \in Nat /\ dmx[d].lock # << >>
                /\ w.op = Head(dmx[d].lock) /\ call[w.op].pc \in Sent /\ call[w.op].demux = d
<1>1. dmx[d].lock \in Seq(Ops) /\ dmx[d].pending \subseteq WaiterSet
  BY Types DEF DemuxStates
<1>2. \A i \in 1..Len(dmx[d].lock) : dmx[d].lock[i] \in Ops /\ dmx[d].lock[i] \in Calls
  BY <1>1, Kinds
<1>3. \A w \in dmx[d].pending : w.op \in Ops /\ w.num \in Nat
  BY <1>1 DEF WaiterSet
<1>4. dmx[d].lock # << >> => Head(dmx[d].lock) = dmx[d].lock[1] /\ 1 \in 1..Len(dmx[d].lock)
  BY <1>1
<1> QED
  BY <1>1, <1>2, <1>3, <1>4 DEF Locks, Queue

\* An operation that sends or waits has the lock, and the waiter if there is one.
LEMMA HeadIs ==
    ASSUME TypeOK, Locks, NEW o \in Ops, call[o].pc \in Sent
    PROVE  /\ call[o].demux \in Demuxes /\ call[o].socket \in Sockets /\ call[o].num \in Nat
           /\ dmx[call[o].demux] \in DemuxStates
           /\ dmx[call[o].demux].lock \in Seq(Ops) /\ dmx[call[o].demux].lock # << >>
           /\ o = Head(dmx[call[o].demux].lock)
           /\ \A w \in dmx[call[o].demux].pending : w.op = o
<1> DEFINE d == call[o].demux
<1>1. InQueue(o) /\ o \in Calls
  BY Kinds DEF Locks, OnSocket
<1>2. d \in Demuxes /\ Queue(d) /\ dmx[d].lock \in Seq(Ops)
  BY <1>1, QueueMembers DEF InQueue, Locks
<1>3. PICK i \in 1..Len(dmx[d].lock) : dmx[d].lock[i] = o
  BY <1>1 DEF InQueue
<1>4. i = 1
  BY <1>2, <1>3 DEF Queue
<1>5. call[o].num \in Nat /\ dmx[d] \in DemuxStates
  BY <1>1, <1>2, Types DEF CallStates
<1>6. dmx[d].lock # << >> /\ o = Head(dmx[d].lock)
  BY <1>2, <1>3, <1>4
<1> QED
  BY <1>1, <1>2, <1>5, <1>6, QueueMembers DEF InQueue

\* The operations that _failPending() fails: the head of the queue or none.
LEMMA AwaitedIs ==
    ASSUME TypeOK, Locks, NEW d \in Demuxes
    PROVE  \A c \in Awaited(d) : /\ c \in Ops /\ c \in Calls /\ call[c].pc = "waiting"
                                 /\ dmx[d].lock # << >> /\ c = Head(dmx[d].lock)
  BY QueueMembers, Kinds DEF Awaited, Awaiting, At

\* An operation that joins no queue but the one of its demux d.
LEMMA Joins ==
    ASSUME TypeOK, Locks, NEW d \in Demuxes, NEW o \in Ops, call[o].pc \notin OnSocket,
           call' \in [Calls -> CallStates],
           call'[o].pc = "queued", call'[o].demux = d, call'[o].socket \in Sockets,
           \A c \in Calls : c # o => call'[c] = call[c],
           \A e \in Demuxes : e # d => dmx'[e] = dmx[e],
           dmx'[d].lock = Append(dmx[d].lock, o), dmx'[d].pending = dmx[d].pending
    PROVE  Locks'
<1> DEFINE lock == dmx[d].lock
<1>1. /\ lock \in Seq(Ops)
      /\ \A i \in 1..Len(lock) : /\ lock[i] \in Calls /\ lock[i] # o /\ call[lock[i]].demux = d
                                 /\ call[lock[i]].pc \in OnSocket
  BY QueueMembers
<1>2. /\ Len(Append(lock, o)) = Len(lock) + 1
      /\ \A i \in 1..Len(lock) : Append(lock, o)[i] = lock[i]
      /\ Append(lock, o)[Len(lock) + 1] = o
      /\ lock # << >> => Head(Append(lock, o)) = Head(lock)
      /\ Append(lock, o) # << >>
  BY <1>1
<1>3. Queue(d)'
  <2>1. Queue(d)
    BY DEF Locks
  <2>2. \A i \in 1..(Len(lock) + 1) :
            (i \in 1..Len(lock) /\ Append(lock, o)[i] = lock[i])
            \/ (i = Len(lock) + 1 /\ Append(lock, o)[i] = o)
    BY <1>1, <1>2
  <2>3. \A i \in 1..(Len(lock) + 1) :
            /\ call'[Append(lock, o)[i]].demux = d
            /\ call'[Append(lock, o)[i]].pc \in OnSocket
            /\ call'[Append(lock, o)[i]].pc \in Sent => i = 1
    BY <1>1, <2>1, <2>2 DEF Queue, OnSocket
  <2>4. \A i, j \in 1..(Len(lock) + 1) : Append(lock, o)[i] = Append(lock, o)[j] => i = j
    BY <1>1, <2>1, <2>2 DEF Queue
  <2>5. \A w \in dmx[d].pending : /\ lock # << >> /\ w.op = Head(lock) /\ w.op \in Calls
                                  /\ call[w.op].pc \in Sent /\ w.op # o
    BY QueueMembers, Kinds DEF OnSocket
  <2>6. \A w \in dmx[d].pending : w.op = Head(Append(lock, o)) /\ call'[w.op].pc \in Sent
    BY <1>2, <2>5
  <2>7. \A v, w \in dmx[d].pending : v = w
    BY <2>1 DEF Queue
  <2> QED
    BY <1>2, <2>3, <2>4, <2>6, <2>7 DEF Queue
<1>4. ASSUME NEW e \in Demuxes, e # d PROVE Queue(e)'
  <2>1. Queue(e)
    BY DEF Locks
  <2>2. /\ \A i \in 1..Len(dmx[e].lock) : dmx[e].lock[i] \in Calls /\ dmx[e].lock[i] # o
        /\ \A w \in dmx[e].pending : w.op \in Calls /\ w.op # o
    BY QueueMembers, Kinds DEF OnSocket
  <2> QED
    BY <1>4, <2>1, <2>2 DEF Queue
<1>5. ASSUME NEW c \in Calls, call'[c].pc \in OnSocket PROVE InQueue(c)'
  <2>1. CASE c = o
    <3>1. dmx'[d].lock[Len(lock) + 1] = o /\ Len(lock) + 1 \in 1..Len(dmx'[d].lock)
      BY <1>1, <1>2
    <3> QED
      BY <2>1, <3>1 DEF InQueue
  <2>2. CASE c # o
    <3>1. InQueue(c) /\ call'[c] = call[c]
      BY <1>5, <2>2 DEF Locks
    <3>2. CASE call[c].demux # d
      BY <3>1, <3>2 DEF InQueue
    <3>3. CASE call[c].demux = d
      <4>1. PICK i \in 1..Len(lock) : lock[i] = c
        BY <3>1, <3>3 DEF InQueue
      <4>2. i \in 1..Len(dmx'[d].lock) /\ dmx'[d].lock[i] = c
        BY <1>1, <1>2, <4>1
      <4> QED
        BY <3>1, <3>3, <4>2 DEF InQueue
    <3> QED
      BY <3>2, <3>3
  <2> QED
    BY <2>1, <2>2
<1> QED
  BY <1>3, <1>4, <1>5 DEF Locks

\* The head of the queue of d leaves it.
LEMMA HeadLeaves ==
    ASSUME TypeOK, Locks, NEW d \in Demuxes, dmx[d].lock # << >>,
           call'[Head(dmx[d].lock)].pc \notin OnSocket,
           \A c \in Calls : c # Head(dmx[d].lock) => Aloof(c),
           \A e \in Demuxes : e # d => dmx'[e].lock = dmx[e].lock /\ dmx'[e].pending = dmx[e].pending,
           dmx'[d].lock = Tail(dmx[d].lock), dmx'[d].pending = {}
    PROVE  Locks'
<1> DEFINE lock == dmx[d].lock
<1> DEFINE o == Head(lock)
<1>1. /\ lock \in Seq(Ops)
      /\ \A i \in 1..Len(lock) : lock[i] \in Calls /\ call[lock[i]].demux = d
                                 /\ call[lock[i]].pc \in OnSocket
  BY QueueMembers
<1>2. /\ Len(lock) \in Nat /\ Len(lock) > 0 /\ Len(Tail(lock)) = Len(lock) - 1
      /\ \A i \in 1..(Len(lock) - 1) : Tail(lock)[i] = lock[i + 1] /\ i + 1 \in 1..Len(lock)
      /\ o = lock[1] /\ 1 \in 1..Len(lock)
  BY <1>1
<1>3. \A i, j \in 1..Len(lock) : lock[i] = lock[j] => i = j
  BY DEF Locks, Queue
<1>4. Queue(d)'
  <2>1. \A i \in 1..(Len(lock) - 1) : Tail(lock)[i] # o
    BY <1>2, <1>3
  <2>2. \A i \in 1..(Len(lock) - 1) : call'[Tail(lock)[i]] = call[Tail(lock)[i]]
    BY <1>1, <1>2, <2>1 DEF Aloof
  <2>3. \A i \in 1..(Len(lock) - 1) :
            /\ call'[Tail(lock)[i]].demux = d /\ call'[Tail(lock)[i]].pc \in OnSocket
            /\ call'[Tail(lock)[i]].pc \notin Sent
    <3> SUFFICES ASSUME NEW i \in 1..(Len(lock) - 1)
                 PROVE  /\ call[Tail(lock)[i]].demux = d /\ call[Tail(lock)[i]].pc \in OnSocket
                        /\ call[Tail(lock)[i]].pc \notin Sent
      BY <2>2
    <3>1. Tail(lock)[i] = lock[i + 1] /\ i + 1 \in 1..Len(lock) /\ i + 1 # 1
      BY <1>2
    <3> QED
      BY <1>1, <3>1 DEF Locks, Queue
  <2>4. \A i, j \in 1..(Len(lock) - 1) : Tail(lock)[i] = Tail(lock)[j] => i = j
    <3> SUFFICES ASSUME NEW i \in 1..(Len(lock) - 1), NEW j \in 1..(Len(lock) - 1),
                        Tail(lock)[i] = Tail(lock)[j]
                 PROVE  i = j
      OBVIOUS
    <3>1. i + 1 = j + 1
      BY <1>2, <1>3
    <3> QED
      BY <1>2, <3>1
  <2> QED
    BY <1>2, <2>3, <2>4 DEF Queue
<1>5. ASSUME NEW e \in Demuxes, e # d PROVE Queue(e)'
  <2>1. call[o].demux = d /\ Queue(e)
    BY <1>1, <1>2 DEF Locks
  <2>2. /\ \A i \in 1..Len(dmx[e].lock) :
              dmx[e].lock[i] \in Calls /\ dmx[e].lock[i] # o /\ call[dmx[e].lock[i]].pc \in OnSocket
        /\ \A w \in dmx[e].pending : w.op \in Calls /\ w.op # o /\ call[w.op].pc \in OnSocket
    BY <1>5, <2>1, QueueMembers, Kinds DEF OnSocket
  <2>3. /\ \A i \in 1..Len(dmx[e].lock) : call'[dmx[e].lock[i]] = call[dmx[e].lock[i]]
        /\ \A w \in dmx[e].pending : call'[w.op] = call[w.op]
    BY <2>2 DEF Aloof
  <2> QED
    BY <1>5, <2>1, <2>3 DEF Queue
<1>6. ASSUME NEW c \in Calls, call'[c].pc \in OnSocket PROVE InQueue(c)'
  <2>1. c # o /\ call'[c] = call[c] /\ InQueue(c)
    BY <1>6 DEF Aloof, Locks
  <2>2. CASE call[c].demux # d
    BY <2>1, <2>2 DEF InQueue
  <2>3. CASE call[c].demux = d
    <3>1. PICK i \in 1..Len(lock) : lock[i] = c
      BY <2>1, <2>3 DEF InQueue
    <3>2. i # 1
      BY <1>2, <2>1, <3>1
    <3>3. i - 1 \in 1..(Len(lock) - 1) /\ Tail(lock)[i - 1] = c
      <4>1. i - 1 \in 1..(Len(lock) - 1)
        BY <1>2, <3>1, <3>2
      <4> QED
        BY <1>2, <3>1, <4>1
    <3>4. i - 1 \in 1..Len(dmx'[d].lock) /\ dmx'[d].lock[i - 1] = c
      BY <1>2, <3>3
    <3> QED
      BY <2>1, <2>3, <3>4 DEF InQueue
  <2> QED
    BY <2>2, <2>3
<1> QED
  BY <1>4, <1>5, <1>6 DEF Locks

\* The head of the queue of d sends, or waits.
LEMMA HeadWaits ==
    ASSUME TypeOK, Locks, NEW d \in Demuxes, NEW o \in Ops,
           call[o].pc \in OnSocket, call[o].demux = d, o = Head(dmx[d].lock),
           call'[o].pc \in Sent, call'[o].demux = d, call'[o].socket = call[o].socket,
           \A c \in Calls : c # o => call'[c] = call[c],
           \A e \in Demuxes : e # d => dmx'[e] = dmx[e],
           dmx'[d].lock = dmx[d].lock, \A w \in dmx'[d].pending : w \in dmx[d].pending \/ w.op = o,
           \A v, w \in dmx'[d].pending : v = w
    PROVE  Locks'
<1>1. o \in Calls /\ InQueue(o) /\ Queue(d)
  BY Kinds DEF Locks, OnSocket
<1>2. dmx[d].lock \in Seq(Ops) /\ dmx[d].lock # << >>
  BY <1>1, QueueMembers DEF InQueue
<1>3. Head(dmx[d].lock) = dmx[d].lock[1] /\ 1 \in 1..Len(dmx[d].lock)
  BY <1>2
<1>4. Queue(d)'
  <2>1. \A w \in dmx[d].pending : w.op = o
    BY QueueMembers
  <2>2. \A i \in 1..Len(dmx[d].lock) : dmx[d].lock[i] \in Calls /\ (dmx[d].lock[i] = o => i = 1)
    BY <1>1, <1>3, QueueMembers DEF Queue
  <2>3. \A i \in 1..Len(dmx[d].lock) :
            /\ call'[dmx[d].lock[i]].demux = d
            /\ call'[dmx[d].lock[i]].pc \in OnSocket
            /\ call'[dmx[d].lock[i]].pc \in Sent => i = 1
    BY <1>1, <2>2 DEF Queue, OnSocket
  <2> QED
    BY <1>1, <1>2, <2>1, <2>3 DEF Queue
<1>5. ASSUME NEW e \in Demuxes, e # d PROVE Queue(e)'
  <2>1. Queue(e)
    BY DEF Locks
  <2>2. /\ \A i \in 1..Len(dmx[e].lock) : dmx[e].lock[i] \in Calls /\ dmx[e].lock[i] # o
        /\ \A w \in dmx[e].pending : w.op \in Calls /\ w.op # o
    BY <1>5, QueueMembers, Kinds
  <2> QED
    BY <1>5, <2>1, <2>2 DEF Queue
<1>6. ASSUME NEW c \in Calls, call'[c].pc \in OnSocket PROVE InQueue(c)'
  <2>1. InQueue(c) /\ call'[c].demux = call[c].demux /\ call'[c].socket = call[c].socket
    BY <1>1, <1>6 DEF Locks
  <2> QED
    BY <2>1 DEF InQueue
<1> QED
  BY <1>4, <1>5, <1>6 DEF Locks

\* Those who await a waiter of d are rejected, and no waiter is left.
LEMMA WaitersLeave ==
    ASSUME TypeOK, Locks, NEW d \in Demuxes,
           \A e \in Demuxes : e # d => dmx'[e].lock = dmx[e].lock /\ dmx'[e].pending = dmx[e].pending,
           dmx'[d].pending = {}, dmx'[d].lock = Released(dmx[d].lock, Awaited(d)),
           \A c \in Calls : c \in Awaited(d) => call'[c].pc \notin OnSocket,
           \A c \in Calls : c \notin Awaited(d) => Aloof(c)
    PROVE  Locks'
<1>1. CASE Awaited(d) = {}
  BY <1>1, LocksKept DEF Released
<1>2. CASE Awaited(d) # {}
  <2>1. PICK o \in Awaited(d) : TRUE
    BY <1>2
  <2>2. o = Head(dmx[d].lock) /\ o \in Calls /\ dmx[d].lock # << >>
    BY <2>1, AwaitedIs
  <2>3. dmx'[d].lock = Tail(dmx[d].lock)
    BY <1>2 DEF Released
  <2>4. \A c \in Awaited(d) : c = Head(dmx[d].lock)
    BY AwaitedIs
  <2> QED
    BY <2>1, <2>2, <2>3, <2>4, HeadLeaves
<1> QED
  BY <1>1, <1>2
-----------------------------------------------------------------------------
(* What each action does, the types and the queues *)

\* The demux that an operation uses.
NextDemux(d) ==
    IF demux # None THEN d = demux
    ELSE ~dmx[d].used /\ \A e \in Demuxes : e < d => dmx[e].used

LEMMA GetDemux ==
    ASSUME BaseInv
    PROVE  _getDemux \in Demuxes /\ NextDemux(_getDemux) /\ ~dmx[_getDemux].stopped
<1>1. demux \in Demuxes \cup {None}
  BY Types DEF BaseInv
<1>2. CASE demux # None
  BY <1>1, <1>2 DEF _getDemux, NextDemux, BaseInv, InUse
<1>3. CASE demux = None
  <2>1. PICK k \in Nat : /\ k <= Cardinality(Begun)
                         /\ \A d \in Demuxes : dmx[d].used <=> d <= k
    <3>1. Cardinality(Begun) \in Nat
      BY Counts, FS_Subset, FS_CardinalityType DEF Begun
    <3> QED
      BY <1>3, <3>1 DEF BaseInv, Room
  <2>2. Cardinality(Begun) <= Cardinality(Closes \cup Reconnects) /\ Cardinality(Begun) \in Nat
    BY Counts, FS_Subset, FS_CardinalityType DEF Begun
  <2>3. k + 1 \in Demuxes
    BY <2>1, <2>2, Counts
  <2>4. ~dmx[k + 1].used /\ \A e \in 1..k : dmx[e].used
    <3>1. ~dmx[k + 1].used
      BY <2>1, <2>3
    <3>2. \A e \in 1..k : e \in Demuxes /\ e <= k
      BY <2>1, <2>3, Counts
    <3> QED
      BY <2>1, <3>1, <3>2
  <2>5. /\ _getDemux \in Demuxes /\ ~dmx[_getDemux].used
        /\ \A e \in 1..(_getDemux - 1) : dmx[e].used
    <3>1. (k + 1) - 1 = k
      OBVIOUS
    <3>2. \E d \in Demuxes : ~dmx[d].used /\ \A e \in 1..(d - 1) : dmx[e].used
      BY <2>3, <2>4, <3>1
    <3> QED
      BY <1>3, <3>2 DEF _getDemux
  <2>6. \A e \in Demuxes : e < _getDemux => e \in 1..(_getDemux - 1)
    BY <2>5, Counts
  <2> QED
    BY <1>3, <2>5, <2>6 DEF NextDemux, BaseInv, InUse
<1> QED
  BY <1>2, <1>3

\* An operation that sends or waits leaves its queue, or a call stays as it is.
Falls(c) ==
    \/ call'[c] = call[c]
    \/ /\ c \in Ops /\ call[c].pc \in Sent /\ call'[c].pc \in {"failing", "done"}

LEMMA BeginOnSocketMoves ==
    ASSUME BaseInv, NEW o \in Ops, BeginOnSocket(o)
    PROVE  /\ TypeOK' /\ Locks'
           /\ \E d \in Demuxes :
                /\ NextDemux(d) /\ ~dmx[d].stopped /\ demux' = d
                /\ readers' = StartReader(d, socket)
                /\ \A e \in Demuxes : e # d => dmx'[e] = dmx[e]
                /\ dmx'[d].used /\ ~dmx'[d].stopped
                /\ dmx'[d].readerSocket = socket /\ dmx'[d].readerActive
                /\ dmx'[d].pending = dmx[d].pending /\ dmx'[d].packetNum = dmx[d].packetNum
                /\ call'[o].pc = "queued" /\ call'[o].demux = d /\ call'[o].socket = socket
                /\ socket \in Sockets /\ sock[socket] = "open"
                /\ \A c \in Calls : c # o => call'[c] = call[c]
<1> DEFINE d == _getDemux
<1> DEFINE D == ensureReaderStarted(dmx, d, socket)
<1>0. TypeOK /\ Locks /\ o \in Calls
  BY Kinds DEF BaseInv
<1>1. d \in Demuxes /\ NextDemux(d) /\ ~dmx[d].stopped
  BY GetDemux
<1>2. /\ demux' = d /\ dmx' = Enqueue(D, d, o) /\ readers' = StartReader(d, socket)
      /\ call' = [call EXCEPT ![o] = [pc |-> "queued", demux |-> d, socket |-> socket, num |-> 0]]
      /\ call[o].pc = "idle" /\ socket # None /\ sock[socket] = "open"
      /\ UNCHANGED <<redial, socket, connectionError, sock, packets, answer>>
  BY DEF BeginOnSocket, At, usable
<1> HIDE DEF d, D
<1>3. /\ dmx \in [Demuxes -> DemuxStates] /\ call \in [Calls -> CallStates]
      /\ readers \subseteq Demuxes \X Sockets /\ socket \in Sockets
  BY <1>0, <1>2, Types
<1>4. /\ D \in [Demuxes -> DemuxStates] /\ \A e \in Demuxes : e # d => D[e] = dmx[e]
      /\ D[d].used /\ D[d].stopped = dmx[d].stopped
      /\ D[d].readerSocket = socket /\ D[d].readerActive
      /\ D[d].pending = dmx[d].pending /\ D[d].lock = dmx[d].lock
      /\ D[d].packetNum = dmx[d].packetNum
  BY <1>1, <1>3, ReaderIs DEF D
<1>5. /\ dmx' \in [Demuxes -> DemuxStates] /\ \A e \in Demuxes : e # d => dmx'[e] = dmx[e]
      /\ dmx'[d].used /\ dmx'[d].stopped = dmx[d].stopped
      /\ dmx'[d].readerSocket = socket /\ dmx'[d].readerActive
      /\ dmx'[d].pending = dmx[d].pending /\ dmx'[d].lock = Append(dmx[d].lock, o)
      /\ dmx'[d].packetNum = dmx[d].packetNum
  <2>1. D \in [Demuxes -> DemuxStates] /\ d \in Demuxes
    BY <1>1, <1>4
  <2>2. /\ dmx' \in [Demuxes -> DemuxStates] /\ \A e \in Demuxes : e # d => dmx'[e] = D[e]
        /\ dmx'[d].used = D[d].used /\ dmx'[d].stopped = D[d].stopped
        /\ dmx'[d].readerSocket = D[d].readerSocket
        /\ dmx'[d].readerActive = D[d].readerActive
        /\ dmx'[d].pending = D[d].pending /\ dmx'[d].lock = Append(D[d].lock, o)
        /\ dmx'[d].packetNum = D[d].packetNum
    BY <1>2, <2>1, EnqueueIs
  <2> QED
    BY <1>4, <2>2
<1>6. [pc |-> "queued", demux |-> d, socket |-> socket, num |-> 0] \in CallStates
  BY <1>1, <1>3 DEF CallStates, Stages
<1>7. /\ call' \in [Calls -> CallStates]
      /\ call'[o].pc = "queued" /\ call'[o].demux = d /\ call'[o].socket = socket
      /\ \A c \in Calls : c # o => call'[c] = call[c]
  BY <1>0, <1>2, <1>3, <1>6
<1>8. Locks'
  BY <1>0, <1>1, <1>2, <1>3, <1>5, <1>7, Joins DEF OnSocket
<1>9. readers' \subseteq Demuxes \X Sockets
  BY <1>1, <1>2, <1>3 DEF StartReader
<1>10. TypeOK'
  BY <1>0, <1>1, <1>2, <1>5, <1>7, <1>8, <1>9, Retyped, Types
<1> QED
  BY <1>1, <1>2, <1>3, <1>5, <1>7, <1>8, <1>10

LEMMA BeginDialMoves ==
    ASSUME BaseInv, NEW o \in Ops, BeginDial(o)
    PROVE  /\ TypeOK' /\ Locks'
           /\ \E d \in Demuxes :
                /\ NextDemux(d) /\ ~dmx[d].stopped /\ demux' = d
                /\ \A e \in Demuxes : e # d => dmx'[e] = dmx[e]
                /\ dmx'[d].used /\ ~dmx'[d].stopped
                /\ dmx'[d].readerActive =>
                     dmx[d].readerActive /\ dmx'[d].readerSocket = dmx[d].readerSocket
                /\ \A c \in Calls : c # o => Falls(c)
                /\ \/ /\ redial /\ call'[o].pc = "connecting" /\ call'[o].demux = d
                      /\ call'[o].socket \in Sockets /\ sock[call'[o].socket] = "unused"
                      /\ sock' = [sock EXCEPT ![call'[o].socket] = "connecting"]
                   \/ ~redial /\ call'[o].pc = "failing" /\ sock' = sock
<1> DEFINE d == _getDemux
<1> DEFINE reset == socket # None
<1> DEFINE U == Using(d)
<1> DEFINE F == _failPending(U, d)
<1> DEFINE D == IF reset
                THEN [F EXCEPT ![d].readerSocket = None, ![d].readerActive = FALSE,
                               ![d].stopped = FALSE, ![d].packetNum = 0]
                ELSE U
<1> DEFINE calls == IF reset THEN Rejected(d) ELSE call
<1>0. TypeOK /\ Locks /\ o \in Calls
  BY Kinds DEF BaseInv
<1>1. d \in Demuxes /\ NextDemux(d) /\ ~dmx[d].stopped
  BY GetDemux
<1>2. /\ demux' = d /\ dmx' = D /\ socket' = None /\ call[o].pc = "idle"
      /\ \/ /\ redial
            /\ \E s \in Sockets : /\ Fresh(s) /\ sock' = [sock EXCEPT ![s] = "connecting"]
                                  /\ call' = [calls EXCEPT ![o] =
                                       [pc |-> "connecting", demux |-> d, socket |-> s, num |-> 0]]
         \/ ~redial /\ call' = Goto(calls, {o}, "failing") /\ sock' = sock
      /\ UNCHANGED <<redial, connectionError, readers, packets, answer>>
  BY DEF BeginDial, At
<1> HIDE DEF d
<1>3. dmx \in [Demuxes -> DemuxStates] /\ call \in [Calls -> CallStates] /\ sock \in [Sockets -> SocketStates]
  BY <1>0, Types
<1>4. /\ U \in [Demuxes -> DemuxStates] /\ \A e \in Demuxes : e # d => U[e] = dmx[e]
      /\ U[d].used /\ U[d].stopped = dmx[d].stopped /\ U[d].pending = dmx[d].pending
      /\ U[d].lock = dmx[d].lock
      /\ U[d].readerActive = dmx[d].readerActive /\ U[d].readerSocket = dmx[d].readerSocket
  BY <1>1, <1>3, UsingIs DEF Using, DemuxStates
<1> HIDE DEF U
<1>5. dmx[d].pending # {} => dmx[d].lock # << >>
  BY <1>0, <1>1, QueueMembers
<1>6. /\ F \in [Demuxes -> DemuxStates] /\ \A e \in Demuxes : e # d => F[e] = dmx[e]
      /\ F[d].used /\ F[d].pending = {}
      /\ F[d].lock = Released(dmx[d].lock, Awaited(d))
  BY <1>1, <1>4, <1>5, FailPendingIs DEF Awaited
<1> HIDE DEF F
<1>7. /\ dmx' \in [Demuxes -> DemuxStates] /\ \A e \in Demuxes : e # d => dmx'[e] = dmx[e]
      /\ dmx'[d].used /\ ~dmx'[d].stopped
      /\ dmx'[d].readerActive =>
           dmx[d].readerActive /\ dmx'[d].readerSocket = dmx[d].readerSocket
      /\ reset => /\ dmx'[d].pending = {}
                  /\ dmx'[d].lock = Released(dmx[d].lock, Awaited(d))
      /\ ~reset => dmx'[d].pending = dmx[d].pending /\ dmx'[d].lock = dmx[d].lock
  <2>1. CASE reset
    <3> DEFINE R == [F[d] EXCEPT !.readerSocket = None, !.readerActive = FALSE,
                                 !.stopped = FALSE, !.packetNum = 0]
    <3>1. F[d] \in DemuxStates
      BY <1>1, <1>6
    <3>2. dmx' = [F EXCEPT ![d] = R]
      BY <1>1, <1>2, <1>6, <2>1
    <3>3. /\ R \in DemuxStates /\ R.used = F[d].used /\ ~R.stopped /\ ~R.readerActive
          /\ R.pending = F[d].pending /\ R.lock = F[d].lock
      BY <3>1 DEF DemuxStates
    <3> HIDE DEF R
    <3> QED
      BY <1>1, <1>6, <2>1, <3>2, <3>3
  <2>2. CASE ~reset
    BY <1>1, <1>2, <1>4, <2>2
  <2> QED
    BY <2>1, <2>2
<1>8. /\ calls \in [Calls -> CallStates]
      /\ \A c \in Calls : /\ reset /\ c \in Awaited(d) => calls[c].pc = "failing"
                          /\ c \in Awaited(d) => c \in Ops /\ call[c].pc = "waiting"
                          /\ ~(reset /\ c \in Awaited(d)) => calls[c] = call[c]
  <2>1. \A c \in Awaited(d) : c \in Ops /\ call[c].pc = "waiting"
    BY <1>0, <1>1, AwaitedIs
  <2> QED
    BY <1>3, <2>1, GotoMoves DEF Rejected, Stages
<1> HIDE DEF calls
<1>9. /\ call' \in [Calls -> CallStates] /\ sock' \in [Sockets -> SocketStates]
      /\ \A c \in Calls : c # o => call'[c] = calls[c]
      /\ \/ /\ redial /\ call'[o].pc = "connecting" /\ call'[o].demux = d
            /\ call'[o].socket \in Sockets /\ sock[call'[o].socket] = "unused"
            /\ sock' = [sock EXCEPT ![call'[o].socket] = "connecting"]
         \/ ~redial /\ call'[o].pc = "failing" /\ sock' = sock
  <2>1. CASE redial
    <3>1. PICK s \in Sockets : /\ Fresh(s) /\ sock' = [sock EXCEPT ![s] = "connecting"]
                               /\ call' = [calls EXCEPT ![o] =
                                    [pc |-> "connecting", demux |-> d, socket |-> s, num |-> 0]]
      BY <1>2, <2>1
    <3>2. [pc |-> "connecting", demux |-> d, socket |-> s, num |-> 0] \in CallStates
      BY <1>1 DEF CallStates, Stages
    <3>3. /\ call' \in [Calls -> CallStates] /\ \A c \in Calls : c # o => call'[c] = calls[c]
          /\ call'[o].pc = "connecting" /\ call'[o].demux = d /\ call'[o].socket = s
      BY <1>0, <1>8, <3>1, <3>2
    <3>4. sock[s] = "unused" /\ sock' \in [Sockets -> SocketStates]
      BY <1>3, <3>1 DEF Fresh, SocketStates
    <3> QED
      BY <2>1, <3>1, <3>3, <3>4
  <2>2. CASE ~redial
    BY <1>0, <1>2, <1>3, <1>8, <2>2, GotoMoves DEF Stages
  <2> QED
    BY <2>1, <2>2
<1>10. call[o].pc = "idle" /\ o \notin Awaited(d)
  BY <1>0, <1>2, <1>8
<1>11. \A c \in Calls : c # o => Falls(c)
  BY <1>8, <1>9 DEF Falls
<1>12. Locks'
  <2>1. Aloof(o)
    BY <1>9, <1>10 DEF Aloof, OnSocket
  <2>2. CASE reset
    <3>1. \A c \in Calls : c \in Awaited(d) => call'[c].pc \notin OnSocket
      BY <1>8, <1>9, <1>10, <2>2 DEF OnSocket
    <3>2. \A c \in Calls : c \notin Awaited(d) => Aloof(c)
      BY <1>8, <1>9, <2>1 DEF Aloof
    <3> QED
      BY <1>0, <1>1, <1>7, <2>2, <3>1, <3>2, WaitersLeave
  <2>3. CASE ~reset
    <3>1. \A c \in Calls : Aloof(c)
      BY <1>8, <1>9, <2>1, <2>3 DEF Aloof
    <3> QED
      BY <1>0, <1>7, <2>3, <3>1, LocksKept
  <2> QED
    BY <2>2, <2>3
<1>13. TypeOK'
  BY <1>0, <1>1, <1>2, <1>7, <1>9, <1>12, Retyped, Types
<1> QED
  BY <1>1, <1>2, <1>7, <1>9, <1>11, <1>12, <1>13

LEMMA ConnectDoneMoves ==
    ASSUME BaseInv, NEW b \in Ops \cup Reconnects, ConnectDone(b)
    PROVE  /\ TypeOK' /\ Locks'
           /\ call[b].pc = "connecting" /\ sock' = [sock EXCEPT ![call[b].socket] = "open"]
           /\ \E d \in Demuxes :
                /\ NextDemux(d) /\ ~dmx[d].stopped /\ demux' = d
                /\ socket' = call[b].socket /\ readers' = StartReader(d, socket')
                /\ \A e \in Demuxes : e # d => dmx'[e] = dmx[e]
                /\ dmx'[d].used /\ ~dmx'[d].stopped
                /\ dmx'[d].readerSocket = socket' /\ dmx'[d].readerActive
                /\ \A c \in Calls : c # b => call'[c] = call[c]
                /\ call'[b].demux = call[b].demux /\ call'[b].socket = call[b].socket
                /\ \/ call'[b].pc = "done"
                   \/ b \in Ops /\ call'[b].pc = "failing"
                   \/ b \in Ops /\ call'[b].pc = "queued" /\ call[b].demux = d
<1> DEFINE d == _getDemux
<1> DEFINE s == call[b].socket
<1> DEFINE own == call[b].demux
<1> DEFINE D == ensureReaderStarted(dmx, d, s)
<1>0. TypeOK /\ Locks /\ b \in Calls
  BY Kinds DEF BaseInv
<1>1. d \in Demuxes /\ NextDemux(d) /\ ~dmx[d].stopped
  BY GetDemux
<1>2. /\ call[b].pc = "connecting" /\ socket' = s /\ demux' = d
      /\ sock' = [sock EXCEPT ![s] = "open"] /\ readers' = StartReader(d, s)
      /\ \/ b \in Reconnects /\ dmx' = D /\ call' = Goto(call, {b}, "done")
         \/ b \in Ops /\ dmx' = D /\ call' = Goto(call, {b}, "failing")
         \/ /\ b \in Ops /\ ~D[own].stopped
            /\ dmx' = Enqueue(D, own, b) /\ call' = Goto(call, {b}, "queued")
      /\ UNCHANGED <<redial, connectionError, packets, answer>>
  BY DEF ConnectDone, At
<1> HIDE DEF d, D
<1>3. /\ dmx \in [Demuxes -> DemuxStates] /\ call \in [Calls -> CallStates]
      /\ sock \in [Sockets -> SocketStates] /\ readers \subseteq Demuxes \X Sockets
  BY <1>0, Types
<1>4. /\ s \in Sockets
      /\ b \in Ops => /\ own \in Demuxes /\ dmx[own].used
                      /\ (dmx[own].stopped \/ own = d)
  <2>1. /\ s \in Sockets /\ b \in Ops => own \in Demuxes /\ dmx[own].used
    BY <1>0, <1>2 DEF BaseInv, Holders
  <2>2. s \in Sockets
    BY <1>0, <1>2 DEF BaseInv, Holders
  <2>3. b \in Ops => (dmx[own].stopped \/ own = demux)
    BY <2>1, <2>2 DEF BaseInv, InUse
  <2>4. demux # None => d = demux
    BY <1>1 DEF NextDemux
  <2> QED
    BY <2>1, <2>2, <2>3, <2>4, Kinds
<1>5. /\ D \in [Demuxes -> DemuxStates] /\ \A e \in Demuxes : e # d => D[e] = dmx[e]
      /\ D[d].used /\ D[d].stopped = dmx[d].stopped
      /\ D[d].readerSocket = s /\ D[d].readerActive
      /\ D[d].pending = dmx[d].pending /\ D[d].lock = dmx[d].lock
  BY <1>1, <1>3, <1>4, ReaderIs DEF D
<1>6. readers' \subseteq Demuxes \X Sockets /\ sock' \in [Sockets -> SocketStates]
  <2>1. readers' \subseteq Demuxes \X Sockets
    BY <1>1, <1>2, <1>3, <1>4 DEF StartReader
  <2>2. sock' \in [Sockets -> SocketStates]
    BY <1>2, <1>3, <1>4 DEF SocketStates
  <2> QED
    BY <2>1, <2>2
<1>7. CASE dmx' = D /\ \/ b \in Reconnects /\ call' = Goto(call, {b}, "done")
                       \/ b \in Ops /\ call' = Goto(call, {b}, "failing")
  <2>1. /\ call' \in [Calls -> CallStates] /\ \A c \in Calls : c # b => call'[c] = call[c]
        /\ call'[b].demux = own /\ call'[b].socket = s
        /\ call'[b].pc = "done" \/ (b \in Ops /\ call'[b].pc = "failing")
    BY <1>0, <1>3, <1>7, GotoMoves DEF Stages
  <2>2. \A c \in Calls : Aloof(c)
    BY <1>2, <2>1 DEF Aloof, OnSocket
  <2>3. \A e \in Demuxes : dmx'[e].lock = dmx[e].lock /\ dmx'[e].pending = dmx[e].pending
    BY <1>5, <1>7
  <2>4. Locks'
    BY <1>0, <2>2, <2>3, LocksKept
  <2>5. TypeOK'
    BY <1>0, <1>1, <1>2, <1>4, <1>5, <1>6, <1>7, <2>1, <2>4, Retyped, Types
  <2> QED
    BY <1>1, <1>2, <1>5, <1>7, <2>1, <2>4, <2>5
<1>8. CASE /\ b \in Ops /\ ~D[own].stopped
           /\ dmx' = Enqueue(D, own, b) /\ call' = Goto(call, {b}, "queued")
  <2>1. own = d
    BY <1>4, <1>5, <1>8
  <2>2. /\ dmx' \in [Demuxes -> DemuxStates] /\ \A e \in Demuxes : e # d => dmx'[e] = dmx[e]
        /\ dmx'[d].used /\ ~dmx'[d].stopped
        /\ dmx'[d].readerSocket = s /\ dmx'[d].readerActive
        /\ dmx'[d].pending = dmx[d].pending /\ dmx'[d].lock = Append(dmx[d].lock, b)
    <3>1. D \in [Demuxes -> DemuxStates] /\ d \in Demuxes /\ dmx' = Enqueue(D, d, b) /\ b \in Ops
      BY <1>1, <1>5, <1>8, <2>1
    <3>2. /\ dmx' \in [Demuxes -> DemuxStates] /\ \A e \in Demuxes : e # d => dmx'[e] = D[e]
          /\ dmx'[d].used = D[d].used /\ dmx'[d].stopped = D[d].stopped
          /\ dmx'[d].readerSocket = D[d].readerSocket
          /\ dmx'[d].readerActive = D[d].readerActive
          /\ dmx'[d].pending = D[d].pending /\ dmx'[d].lock = Append(D[d].lock, b)
      BY <3>1, EnqueueIs
    <3> QED
      BY <1>1, <1>5, <3>2
  <2>3. /\ call' \in [Calls -> CallStates] /\ \A c \in Calls : c # b => call'[c] = call[c]
        /\ call'[b].demux = d /\ call'[b].socket = s /\ call'[b].pc = "queued"
    <3>1. "queued" \in Stages /\ call' = Goto(call, {b}, "queued")
      BY <1>8 DEF Stages
    <3>2. /\ call' \in [Calls -> CallStates] /\ \A c \in Calls : c # b => call'[c] = call[c]
          /\ call'[b].demux = own /\ call'[b].socket = s /\ call'[b].pc = "queued"
      BY <1>0, <1>3, <3>1, GotoMoves
    <3> QED
      BY <2>1, <3>2
  <2>4. Locks'
    BY <1>0, <1>1, <1>2, <1>4, <1>8, <2>2, <2>3, Joins DEF OnSocket
  <2>5. TypeOK'
    BY <1>0, <1>1, <1>2, <1>4, <1>6, <2>2, <2>3, <2>4, Retyped, Types
  <2> QED
    BY <1>1, <1>2, <1>8, <2>1, <2>2, <2>3, <2>4, <2>5
<1> QED
  BY <1>2, <1>7, <1>8

\* The fields of a demux that its queue does not touch.
SameReader(d) ==
    /\ dmx'[d].used = dmx[d].used /\ dmx'[d].stopped = dmx[d].stopped
    /\ dmx'[d].readerSocket = dmx[d].readerSocket /\ dmx'[d].readerActive = dmx[d].readerActive

LEMMA SendMoves ==
    ASSUME BaseInv, NEW o \in Ops, Send(o)
    PROVE  /\ TypeOK' /\ Locks' /\ call[o].pc = "queued"
           /\ \A d \in Demuxes : SameReader(d)
           /\ \A c \in Calls : c # o => call'[c] = call[c]
           /\ call'[o].demux = call[o].demux /\ call'[o].socket = call[o].socket
           /\ call[o].demux \in Demuxes /\ call[o].socket \in Sockets
           /\ \A d \in Demuxes : d # call[o].demux => dmx'[d] = dmx[d]
           /\ dmx'[call[o].demux].packetNum = dmx[call[o].demux].packetNum + 1
           /\ packets' = packets
           /\ \/ /\ sock[call[o].socket] = "open" /\ call'[o].pc = "writing"
                 /\ call'[o].num = dmx[call[o].demux].packetNum
                 /\ dmx'[call[o].demux].pending =
                      {[num |-> dmx[call[o].demux].packetNum, op |-> o]}
              \/ /\ call'[o].pc = "failing"
                 /\ dmx'[call[o].demux].pending = dmx[call[o].demux].pending
<1> DEFINE d == call[o].demux
<1> DEFINE s == call[o].socket
<1> DEFINE n == dmx[d].packetNum
<1>0. TypeOK /\ Locks /\ o \in Calls
  BY Kinds DEF BaseInv
<1>1. /\ call[o].pc = "queued" /\ Head(dmx[d].lock) = o
      /\ \/ /\ sock[s] = "open"
            /\ dmx' = [dmx EXCEPT ![d].packetNum = n + 1,
                                  ![d].pending = @ \cup {[num |-> n, op |-> o]}]
            /\ call' = [call EXCEPT ![o].pc = "writing", ![o].num = n]
         \/ /\ dmx' = [dmx EXCEPT ![d].packetNum = n + 1, ![d].lock = Tail(@)]
            /\ call' = Goto(call, {o}, "failing")
      /\ UNCHANGED <<redial, socket, demux, connectionError, sock, readers, packets, answer>>
  BY DEF Send, At
<1>2. InQueue(o)
  BY <1>0, <1>1 DEF Locks, OnSocket
<1>3. d \in Demuxes /\ s \in Sockets /\ dmx[d].lock \in Seq(Ops) /\ dmx[d].lock # << >>
  BY <1>0, <1>2, QueueMembers DEF InQueue
<1>4. /\ dmx \in [Demuxes -> DemuxStates] /\ call \in [Calls -> CallStates]
      /\ packets \subseteq PacketSet /\ dmx[d] \in DemuxStates /\ n \in Nat
      /\ dmx[d].pending \subseteq WaiterSet /\ Tail(dmx[d].lock) \in Seq(Ops)
  <2>1. dmx \in [Demuxes -> DemuxStates] /\ call \in [Calls -> CallStates] /\ packets \subseteq PacketSet
    BY <1>0, Types
  <2>2. dmx[d] \in DemuxStates
    BY <1>3, <2>1
  <2>3. n \in Nat /\ dmx[d].pending \subseteq WaiterSet
    BY <2>2 DEF DemuxStates
  <2> QED
    BY <1>3, <2>1, <2>2, <2>3
<1>5. dmx[d].pending = {}
  <2>1. \A w \in dmx[d].pending : FALSE
    BY <1>0, <1>1, <1>3, QueueMembers
  <2> QED
    BY <2>1
<1>6. CASE /\ sock[s] = "open"
           /\ dmx' = [dmx EXCEPT ![d].packetNum = n + 1,
                                 ![d].pending = @ \cup {[num |-> n, op |-> o]}]
           /\ call' = [call EXCEPT ![o].pc = "writing", ![o].num = n]
  <2> DEFINE W == {[num |-> n, op |-> o]}
  <2> DEFINE m == n + 1
  <2>0. m \in Nat
    BY <1>4
  <2> DEFINE R == [dmx[d] EXCEPT !.packetNum = m, !.pending = W]
  <2>1. dmx' = [dmx EXCEPT ![d] = R]
    BY <1>3, <1>4, <1>5, <1>6
  <2>2. W \subseteq WaiterSet
    BY <1>4 DEF WaiterSet
  <2>3. /\ R \in DemuxStates /\ R.used = dmx[d].used /\ R.stopped = dmx[d].stopped
        /\ R.readerSocket = dmx[d].readerSocket /\ R.readerActive = dmx[d].readerActive
        /\ R.lock = dmx[d].lock /\ R.packetNum = m /\ R.pending = W
    <3> HIDE DEF m
    <3> QED
      BY <1>4, <2>0, <2>2 DEF DemuxStates
  <2> HIDE DEF R
  <2>4. /\ dmx' \in [Demuxes -> DemuxStates] /\ \A e \in Demuxes : e # d => dmx'[e] = dmx[e]
        /\ dmx'[d] = R
    BY <1>3, <1>4, <2>1, <2>3
  <2>5. call' = [call EXCEPT ![o] = [call[o] EXCEPT !.pc = "writing", !.num = n]]
    BY <1>0, <1>4, <1>6
  <2>6. /\ call' \in [Calls -> CallStates] /\ \A c \in Calls : c # o => call'[c] = call[c]
        /\ call'[o].pc = "writing" /\ call'[o].demux = d /\ call'[o].socket = s
        /\ call'[o].num = n
    <3>1. call[o] \in CallStates
      BY <1>0, <1>4
    <3>2. [call[o] EXCEPT !.pc = "writing", !.num = n] \in CallStates
      BY <1>4, <3>1 DEF CallStates, Stages
    <3>3. /\ [call[o] EXCEPT !.pc = "writing", !.num = n].pc = "writing"
          /\ [call[o] EXCEPT !.pc = "writing", !.num = n].demux = d
          /\ [call[o] EXCEPT !.pc = "writing", !.num = n].socket = s
          /\ [call[o] EXCEPT !.pc = "writing", !.num = n].num = n
      BY <3>1 DEF CallStates
    <3> QED
      BY <1>0, <1>4, <2>5, <3>2, <3>3
  <2>7. /\ \A w \in dmx'[d].pending : w \in dmx[d].pending \/ w.op = o
        /\ \A v, w \in dmx'[d].pending : v = w
    BY <2>3, <2>4
  <2>8. Locks'
    BY <1>0, <1>1, <1>3, <2>3, <2>4, <2>6, <2>7, HeadWaits DEF OnSocket
  <2>9. TypeOK'
    BY <1>0, <1>1, <1>4, <1>6, <2>2, <2>4, <2>6, <2>8, Retyped, Types
  <2>10. \A e \in Demuxes : SameReader(e)
    BY <2>3, <2>4 DEF SameReader
  <2> QED
    BY <1>1, <1>3, <1>6, <2>3, <2>4, <2>6, <2>8, <2>9, <2>10
<1>7. CASE /\ dmx' = [dmx EXCEPT ![d].packetNum = n + 1, ![d].lock = Tail(@)]
           /\ call' = Goto(call, {o}, "failing")
  <2> DEFINE m == n + 1
  <2>0. m \in Nat
    BY <1>4
  <2> DEFINE R == [dmx[d] EXCEPT !.packetNum = m, !.lock = Tail(dmx[d].lock)]
  <2>1. dmx' = [dmx EXCEPT ![d] = R]
    BY <1>3, <1>4, <1>7
  <2>2. /\ R \in DemuxStates /\ R.used = dmx[d].used /\ R.stopped = dmx[d].stopped
        /\ R.readerSocket = dmx[d].readerSocket /\ R.readerActive = dmx[d].readerActive
        /\ R.lock = Tail(dmx[d].lock) /\ R.packetNum = m /\ R.pending = dmx[d].pending
    <3> HIDE DEF m
    <3> QED
      BY <1>4, <2>0 DEF DemuxStates
  <2> HIDE DEF R
  <2>3. /\ dmx' \in [Demuxes -> DemuxStates] /\ \A e \in Demuxes : e # d => dmx'[e] = dmx[e]
        /\ dmx'[d] = R
    BY <1>3, <1>4, <2>1, <2>2
  <2>4. /\ call' \in [Calls -> CallStates] /\ \A c \in Calls : c # o => call'[c] = call[c]
        /\ call'[o].pc = "failing" /\ call'[o].demux = d /\ call'[o].socket = s
    <3>1. "failing" \in Stages /\ call' = Goto(call, {o}, "failing")
      BY <1>7 DEF Stages
    <3>2. call \in [Calls -> CallStates]
      BY <1>4
    <3> QED
      BY <1>0, <3>1, <3>2, GotoMoves
  <2>5. Locks'
    BY <1>0, <1>1, <1>3, <1>5, <2>2, <2>3, <2>4, HeadLeaves DEF Aloof, OnSocket
  <2>6. TypeOK'
    BY <1>0, <1>1, <1>4, <1>7, <2>3, <2>4, <2>5, Retyped, Types
  <2>7. \A e \in Demuxes : SameReader(e)
    BY <2>2, <2>3 DEF SameReader
  <2> QED
    BY <1>1, <1>3, <1>7, <2>2, <2>3, <2>4, <2>5, <2>6, <2>7
<1> QED
  BY <1>1, <1>6, <1>7

\* An operation that sends or waits leaves its queue, with its waiter.
LEMMA Leaves ==
    ASSUME TypeOK, Locks, NEW o \in Ops, call[o].pc \in Sent,
           NEW pc \in {"failing", "done"}, call' = Goto(call, {o}, pc),
           dmx' = [dmx EXCEPT ![call[o].demux] =
                     [dmx[call[o].demux] EXCEPT !.pending = {},
                                                !.lock = Tail(dmx[call[o].demux].lock)]]
    PROVE  /\ Locks' /\ dmx' \in [Demuxes -> DemuxStates] /\ call' \in [Calls -> CallStates]
           /\ \A e \in Demuxes : /\ SameReader(e) /\ dmx'[e].packetNum = dmx[e].packetNum
                                 /\ dmx'[e].pending \subseteq dmx[e].pending
           /\ \A c \in Calls : Falls(c)
           /\ \A c \in Calls : c # o => call'[c] = call[c]
           /\ call'[o].pc = pc /\ call'[o].demux = call[o].demux
           /\ call'[o].socket = call[o].socket
<1> DEFINE d == call[o].demux
<1> DEFINE R == [dmx[d] EXCEPT !.pending = {}, !.lock = Tail(dmx[d].lock)]
<1>1. /\ d \in Demuxes /\ dmx[d] \in DemuxStates /\ dmx[d].lock \in Seq(Ops)
      /\ dmx[d].lock # << >> /\ o = Head(dmx[d].lock)
  BY HeadIs
<1>2. /\ dmx \in [Demuxes -> DemuxStates] /\ call \in [Calls -> CallStates] /\ o \in Calls
      /\ Tail(dmx[d].lock) \in Seq(Ops)
  BY <1>1, Types, Kinds
<1>3. /\ R \in DemuxStates /\ R.used = dmx[d].used /\ R.stopped = dmx[d].stopped
      /\ R.readerSocket = dmx[d].readerSocket /\ R.readerActive = dmx[d].readerActive
      /\ R.lock = Tail(dmx[d].lock) /\ R.packetNum = dmx[d].packetNum /\ R.pending = {}
  BY <1>1, <1>2 DEF DemuxStates
<1> HIDE DEF R
<1>4. dmx' = [dmx EXCEPT ![d] = R]
  BY DEF R
<1>5. /\ dmx' \in [Demuxes -> DemuxStates] /\ \A e \in Demuxes : e # d => dmx'[e] = dmx[e]
      /\ dmx'[d] = R
  BY <1>1, <1>2, <1>3, <1>4
<1>6. /\ call' \in [Calls -> CallStates] /\ \A c \in Calls : c # o => call'[c] = call[c]
      /\ call'[o].pc = pc /\ call'[o].demux = d /\ call'[o].socket = call[o].socket
  <2>1. pc \in Stages
    BY DEF Stages
  <2>2. o \in {o} /\ \A c \in Calls : c # o => c \notin {o}
    OBVIOUS
  <2> HIDE DEF d
  <2> QED
    BY <1>2, <2>1, <2>2, GotoMoves DEF d
<1>7. Locks'
  <2>1. call'[o].pc \notin OnSocket /\ \A c \in Calls : c # o => Aloof(c)
    BY <1>6 DEF Aloof, OnSocket
  <2>2. dmx'[d].lock = Tail(dmx[d].lock) /\ dmx'[d].pending = {}
    BY <1>3, <1>5
  <2> HIDE DEF d
  <2> QED
    BY <1>1, <1>5, <2>1, <2>2, HeadLeaves
<1>8. \A c \in Calls : Falls(c)
  BY <1>6 DEF Falls
<1>9. \A e \in Demuxes : /\ SameReader(e) /\ dmx'[e].packetNum = dmx[e].packetNum
                         /\ dmx'[e].pending \subseteq dmx[e].pending
  BY <1>3, <1>5 DEF SameReader
<1> QED
  BY <1>5, <1>6, <1>7, <1>8, <1>9

LEMMA WrittenMoves ==
    ASSUME BaseInv, NEW o \in Ops, Written(o)
    PROVE  /\ TypeOK' /\ Locks' /\ call[o].pc = "writing"
           /\ \A d \in Demuxes : /\ SameReader(d) /\ dmx'[d].packetNum = dmx[d].packetNum
                                 /\ dmx'[d].pending \subseteq dmx[d].pending
           /\ \A c \in Calls : c # o => call'[c] = call[c]
           /\ call'[o].demux = call[o].demux /\ call'[o].socket = call[o].socket
           /\ call[o].demux \in Demuxes /\ call[o].socket \in Sockets /\ call[o].num \in Nat
           /\ sock[call[o].socket] = "open"
           /\ packets' = packets \cup {[socket |-> call[o].socket, num |-> call[o].num, op |-> o]}
           /\ \A w \in dmx[call[o].demux].pending : w.op = o
           /\ \/ call'[o].pc = "waiting"
              \/ call'[o].pc = "failing"
              \/ call'[o].pc = "done" /\ answer[o] # None
<1> DEFINE d == call[o].demux
<1> DEFINE p == [socket |-> call[o].socket, num |-> call[o].num, op |-> o]
<1>0. TypeOK /\ Locks /\ o \in Calls
  BY Kinds DEF BaseInv
<1>1. /\ call[o].pc = "writing" /\ sock[call[o].socket] = "open"
      /\ packets' = packets \cup {p}
      /\ UNCHANGED <<redial, socket, demux, connectionError, sock, readers, answer>>
  BY DEF Written, At
<1>2. /\ d \in Demuxes /\ call[o].socket \in Sockets /\ call[o].num \in Nat
      /\ dmx[d] \in DemuxStates /\ o = Head(dmx[d].lock)
      /\ \A w \in dmx[d].pending : w.op = o
  BY <1>0, <1>1, HeadIs
<1>3. packets' \subseteq PacketSet
  <2>1. p \in PacketSet /\ packets \subseteq PacketSet
    BY <1>0, <1>2, Types DEF PacketSet
  <2> HIDE DEF p
  <2> QED
    BY <1>1, <2>1
<1>4. CASE o \in Waiters(d)
  <2>1. call' = Goto(call, {o}, "waiting") /\ dmx' = dmx
    BY <1>4 DEF Written
  <2>2. /\ call' \in [Calls -> CallStates] /\ \A c \in Calls : c # o => call'[c] = call[c]
        /\ call'[o].pc = "waiting" /\ call'[o].demux = d /\ call'[o].socket = call[o].socket
    <3>1. "waiting" \in Stages /\ call \in [Calls -> CallStates]
      BY <1>0, Types DEF Stages
    <3> QED
      BY <1>0, <2>1, <3>1, GotoMoves
  <2>3. \A v, w \in dmx[d].pending : v = w
    BY <1>0, <1>2 DEF Locks, Queue
  <2>4. Locks'
    BY <1>0, <1>1, <1>2, <2>1, <2>2, <2>3, HeadWaits DEF OnSocket
  <2>5. TypeOK'
    BY <1>0, <1>1, <1>3, <2>1, <2>2, <2>4, Retyped, Types
  <2> QED
    BY <1>1, <1>2, <2>1, <2>2, <2>4, <2>5 DEF SameReader
<1>5. CASE o \notin Waiters(d)
  <2>1. /\ dmx' = [dmx EXCEPT ![d].lock = Tail(@)]
        /\ call' = Goto(call, {o}, IF answer[o] = None THEN "failing" ELSE "done")
    BY <1>5 DEF Written
  <2>2. dmx[d].pending = {}
    BY <1>2, <1>5 DEF Waiters
  <2>3. dmx' = [dmx EXCEPT ![d] = [dmx[d] EXCEPT !.pending = {}, !.lock = Tail(dmx[d].lock)]]
    <3>1. [dmx[d] EXCEPT !.pending = {}, !.lock = Tail(dmx[d].lock)]
             = [dmx[d] EXCEPT !.lock = Tail(dmx[d].lock)]
      BY <1>2, <2>2 DEF DemuxStates
    <3>2. dmx' = [dmx EXCEPT ![d] = [dmx[d] EXCEPT !.lock = Tail(dmx[d].lock)]]
      BY <2>1
    <3> QED
      BY <3>1, <3>2
  <2> DEFINE pc == IF answer[o] = None THEN "failing" ELSE "done"
  <2>4. /\ Locks' /\ dmx' \in [Demuxes -> DemuxStates] /\ call' \in [Calls -> CallStates]
        /\ \A e \in Demuxes : /\ SameReader(e) /\ dmx'[e].packetNum = dmx[e].packetNum
                              /\ dmx'[e].pending \subseteq dmx[e].pending
        /\ \A c \in Calls : c # o => call'[c] = call[c]
        /\ call'[o].pc = pc /\ call'[o].demux = d /\ call'[o].socket = call[o].socket
    <3>1. pc \in {"failing", "done"}
      OBVIOUS
    <3> QED
      BY <1>0, <1>1, <2>1, <2>3, <3>1, Leaves
  <2>5. TypeOK'
    BY <1>0, <1>1, <1>3, <2>4, Retyped, Types
  <2> QED
    BY <1>1, <1>2, <2>4, <2>5
<1> QED
  BY <1>4, <1>5

\* Who sends or waits leaves the queue; nobody else moves.
Abandons ==
    /\ TypeOK' /\ Locks'
    /\ \A d \in Demuxes : /\ SameReader(d) /\ dmx'[d].packetNum = dmx[d].packetNum
                          /\ dmx'[d].pending \subseteq dmx[d].pending
    /\ \A c \in Calls : Falls(c)

LEMMA TimeoutMoves ==
    ASSUME BaseInv, NEW o \in Ops, Timeout(o) \/ WriteFails(o)
    PROVE  Abandons
<1> DEFINE d == call[o].demux
<1> DEFINE W == {w \in dmx[d].pending : w.op # o}
<1>0. TypeOK /\ Locks /\ o \in Calls
  BY Kinds DEF BaseInv
<1>1. /\ call[o].pc \in Sent
      /\ UNCHANGED <<redial, socket, demux, connectionError, sock, readers, packets, answer>>
  BY DEF Timeout, WriteFails, At
<1>2. /\ d \in Demuxes /\ dmx[d] \in DemuxStates /\ \A w \in dmx[d].pending : w.op = o
  BY <1>0, <1>1, HeadIs
<1>3. W = {}
  BY <1>2
<1> HIDE DEF W
<1>4. CASE /\ dmx' = [dmx EXCEPT ![d].pending = W, ![d].lock = Tail(@)]
           /\ \E pc \in {"failing", "done"} : call' = Goto(call, {o}, pc)
  <2>1. PICK pc \in {"failing", "done"} : call' = Goto(call, {o}, pc)
    BY <1>4
  <2>2. dmx' = [dmx EXCEPT ![d] = [dmx[d] EXCEPT !.pending = {}, !.lock = Tail(dmx[d].lock)]]
    BY <1>3, <1>4
  <2>3. /\ Locks' /\ dmx' \in [Demuxes -> DemuxStates] /\ call' \in [Calls -> CallStates]
        /\ \A e \in Demuxes : /\ SameReader(e) /\ dmx'[e].packetNum = dmx[e].packetNum
                              /\ dmx'[e].pending \subseteq dmx[e].pending
        /\ \A c \in Calls : Falls(c)
    BY <1>0, <1>1, <2>1, <2>2, Leaves
  <2>4. TypeOK'
    BY <1>0, <1>1, <2>3, Retyped, Types
  <2> QED
    BY <2>3, <2>4 DEF Abandons
<1>5. CASE /\ dmx' = [dmx EXCEPT ![d].pending = W, ![d].lock = @]
           /\ call' = call
  <2> DEFINE R == [dmx[d] EXCEPT !.pending = {}]
  <2>1. /\ R \in DemuxStates /\ R.used = dmx[d].used /\ R.stopped = dmx[d].stopped
        /\ R.readerSocket = dmx[d].readerSocket /\ R.readerActive = dmx[d].readerActive
        /\ R.lock = dmx[d].lock /\ R.packetNum = dmx[d].packetNum /\ R.pending = {}
    BY <1>2 DEF DemuxStates
  <2>2. dmx' = [dmx EXCEPT ![d] = R]
    <3>1. [dmx[d] EXCEPT !.pending = {}, !.lock = dmx[d].lock] = R
      BY <1>2 DEF DemuxStates
    <3>2. dmx' = [dmx EXCEPT ![d] = [dmx[d] EXCEPT !.pending = {}, !.lock = dmx[d].lock]]
      BY <1>3, <1>5
    <3> QED
      BY <3>1, <3>2
  <2> HIDE DEF R
  <2>3. /\ dmx' \in [Demuxes -> DemuxStates] /\ \A e \in Demuxes : e # d => dmx'[e] = dmx[e]
        /\ dmx'[d] = R
    BY <1>0, <1>2, <2>1, <2>2, Types
  <2>4. Locks'
    <3>1. \A e \in Demuxes : dmx'[e].lock = dmx[e].lock /\ dmx'[e].pending \subseteq dmx[e].pending
      BY <2>1, <2>3
    <3> QED
      BY <1>0, <1>5, <3>1, LocksKept DEF Aloof
  <2>5. TypeOK'
    BY <1>0, <1>1, <1>5, <2>3, <2>4, Retyped, Types
  <2>6. \A e \in Demuxes : /\ SameReader(e) /\ dmx'[e].packetNum = dmx[e].packetNum
                           /\ dmx'[e].pending \subseteq dmx[e].pending
    BY <2>1, <2>3 DEF SameReader
  <2> QED
    BY <1>5, <2>4, <2>5, <2>6 DEF Falls, Abandons
<1> QED
  BY <1>4, <1>5 DEF Timeout, WriteFails, At, W

LEMMA ReplyMoves ==
    ASSUME BaseInv, NEW d \in Demuxes, NEW s \in Sockets, NEW p \in packets, Reply(d, s, p)
    PROVE  /\ Abandons
           /\ \A o \in Ops : \/ answer'[o] = answer[o]
                             \/ \E w \in dmx[d].pending :
                                  w.num = p.num /\ w.op = o /\ answer'[o] = p.op
<1> DEFINE W == Matching(d, p)
<1> DEFINE A == Awaiting(W)
<1> DEFINE P == dmx[d].pending \ W
<1>0. TypeOK /\ Locks
  BY DEF BaseInv
<1>1. /\ dmx' = [dmx EXCEPT ![d].pending = P, ![d].lock = Released(@, A)]
      /\ call' = Goto(call, A, "done") /\ packets' = packets \ {p}
      /\ answer' = [o \in Ops |-> IF \E w \in W : w.op = o THEN p.op ELSE answer[o]]
      /\ readers' = IF dmx[d].stopped THEN readers \ {<<d, s>>} ELSE readers
      /\ UNCHANGED <<redial, socket, demux, connectionError, sock>>
  BY DEF Reply
<1>2. W \subseteq dmx[d].pending /\ \A w \in W : w.num = p.num
  BY DEF Matching
<1>a. \A c \in A : \E w \in W : c = w.op /\ call[c].pc = "waiting"
  BY DEF Awaiting, At
<1> HIDE DEF W, A, P
<1>3. /\ dmx \in [Demuxes -> DemuxStates] /\ call \in [Calls -> CallStates]
      /\ dmx[d] \in DemuxStates /\ packets \subseteq PacketSet
      /\ readers \subseteq Demuxes \X Sockets /\ answer \in [Ops -> Ops \cup {None}]
      /\ dmx[d].lock \in Seq(Ops) /\ dmx[d].pending \subseteq WaiterSet
  <2>1. dmx \in [Demuxes -> DemuxStates] /\ dmx[d] \in DemuxStates
    BY <1>0, Types
  <2> QED
    BY <1>0, <2>1, Types DEF DemuxStates
<1>4. /\ readers' \subseteq Demuxes \X Sockets /\ packets' \subseteq PacketSet
      /\ answer' \in [Ops -> Ops \cup {None}]
  <2>1. p.op \in Ops
    BY <1>3 DEF PacketSet
  <2> QED
    BY <1>1, <1>3, <2>1
<1>5. \A o \in Ops : \/ answer'[o] = answer[o]
                     \/ \E w \in dmx[d].pending :
                          w.num = p.num /\ w.op = o /\ answer'[o] = p.op
  BY <1>1, <1>2
<1>6. CASE A = {}
  <2>1. call' \in [Calls -> CallStates] /\ \A c \in Calls : call'[c] = call[c]
    <3>1. call' = Goto(call, {}, "done") /\ "done" \in Stages
      BY <1>1, <1>6 DEF Stages
    <3> QED
      BY <1>3, <3>1, GotoMoves
  <2> DEFINE R == [dmx[d] EXCEPT !.pending = P]
  <2>2. /\ R \in DemuxStates /\ R.used = dmx[d].used /\ R.stopped = dmx[d].stopped
        /\ R.readerSocket = dmx[d].readerSocket /\ R.readerActive = dmx[d].readerActive
        /\ R.lock = dmx[d].lock /\ R.packetNum = dmx[d].packetNum /\ R.pending = P
    <3>1. P \subseteq WaiterSet
      BY <1>3 DEF P
    <3> QED
      BY <1>3, <3>1 DEF DemuxStates
  <2>3. dmx' = [dmx EXCEPT ![d] = R]
    <3>1. Released(dmx[d].lock, A) = dmx[d].lock
      BY <1>6 DEF Released
    <3>2. [dmx[d] EXCEPT !.pending = P, !.lock = dmx[d].lock] = R
      BY <1>3 DEF DemuxStates
    <3>3. dmx' = [dmx EXCEPT ![d] = [dmx[d] EXCEPT !.pending = P, !.lock = Released(dmx[d].lock, A)]]
      BY <1>1
    <3> QED
      BY <3>1, <3>2, <3>3
  <2> HIDE DEF R
  <2>4. /\ dmx' \in [Demuxes -> DemuxStates] /\ \A e \in Demuxes : e # d => dmx'[e] = dmx[e]
        /\ dmx'[d] = R
    BY <1>3, <2>2, <2>3
  <2>5. \A e \in Demuxes : dmx'[e].lock = dmx[e].lock /\ dmx'[e].pending \subseteq dmx[e].pending
    BY <2>2, <2>4 DEF P
  <2>6. Locks'
    BY <1>0, <2>1, <2>5, LocksKept DEF Aloof
  <2>7. TypeOK'
    BY <1>0, <1>1, <1>3, <1>4, <2>1, <2>4, <2>6, Retyped, Types
  <2>8. \A e \in Demuxes : SameReader(e) /\ dmx'[e].packetNum = dmx[e].packetNum
    BY <2>2, <2>4 DEF SameReader
  <2> QED
    BY <1>5, <2>1, <2>5, <2>6, <2>7, <2>8 DEF Falls, Abandons
<1>7. CASE A # {}
  <2>1. PICK c \in A : TRUE
    BY <1>7
  <2>2. PICK w \in W : c = w.op /\ call[c].pc = "waiting"
    BY <1>a, <2>1
  <2>3. /\ w \in dmx[d].pending /\ c \in Ops /\ call[c].demux = d
        /\ \A v \in dmx[d].pending : v = w
    <3>1. w \in dmx[d].pending
      BY <1>2
    <3>2. \A v \in dmx[d].pending : v = w
      BY <1>0, <3>1 DEF Locks, Queue
    <3> QED
      BY <1>0, <2>2, <3>1, <3>2, QueueMembers
  <2>4. P = {} /\ A = {c}
    <3>1. W = dmx[d].pending
      BY <1>2, <2>2, <2>3
    <3> QED
      BY <1>2, <1>a, <2>1, <2>2, <2>3, <3>1 DEF P
  <2>5. dmx' = [dmx EXCEPT ![d] = [dmx[d] EXCEPT !.pending = {}, !.lock = Tail(dmx[d].lock)]]
    <3>1. Released(dmx[d].lock, A) = Tail(dmx[d].lock)
      BY <1>7 DEF Released
    <3> QED
      BY <1>1, <2>4, <3>1
  <2>6. call' = Goto(call, {c}, "done")
    BY <1>1, <2>4
  <2>7. /\ Locks' /\ dmx' \in [Demuxes -> DemuxStates] /\ call' \in [Calls -> CallStates]
        /\ \A e \in Demuxes : /\ SameReader(e) /\ dmx'[e].packetNum = dmx[e].packetNum
                              /\ dmx'[e].pending \subseteq dmx[e].pending
        /\ \A b \in Calls : Falls(b)
    BY <1>0, <2>2, <2>3, <2>5, <2>6, Leaves
  <2>8. TypeOK'
    BY <1>0, <1>1, <1>3, <1>4, <2>7, Retyped, Types
  <2> QED
    BY <1>5, <2>7, <2>8 DEF Abandons
<1> QED
  BY <1>6, <1>7

\* _markConnectionDead().
LEMMA DeadMoves ==
    ASSUME NEW sk \in [Sockets -> SocketStates], _markConnectionDead(sk),
           socket \in Sockets \cup {None}
    PROVE  /\ sock' \in [Sockets -> SocketStates] /\ connectionError'
           /\ connectionError' \in BOOLEAN /\ socket' \in Sockets \cup {None}
           /\ socket' = IF connectionError THEN socket ELSE None
           /\ \A t \in Sockets :
                IF t = socket /\ ~connectionError THEN sock'[t] = "destroyed" ELSE sock'[t] = sk[t]
  BY DEF _markConnectionDead, SocketStates

LEMMA ReaderFailsMoves ==
    ASSUME BaseInv, NEW d \in Demuxes, NEW s \in Sockets, ReaderFails(d, s)
    PROVE  /\ TypeOK' /\ Locks'
           /\ \A e \in Demuxes :
                /\ dmx'[e].used = dmx[e].used /\ dmx'[e].stopped = dmx[e].stopped
                /\ dmx'[e].readerSocket = dmx[e].readerSocket
                /\ dmx'[e].packetNum = dmx[e].packetNum
                /\ dmx'[e].pending \subseteq dmx[e].pending
                /\ dmx'[e].readerActive => dmx[e].readerActive
           /\ \A c \in Calls : Falls(c)
           /\ sock'[s] = "destroyed"
           /\ \A t \in Sockets : sock'[t] = sock[t] \/ (t \in {s, socket} /\ sock'[t] = "destroyed")
           /\ socket' = socket \/ socket' = None
<1> DEFINE current == ~dmx[d].stopped /\ dmx[d].readerSocket = s
<1> DEFINE F == _failPending(dmx, d)
<1> DEFINE D == IF current THEN F ELSE dmx
<1>0. TypeOK /\ Locks
  BY DEF BaseInv
<1>1. /\ readers' = readers \ {<<d, s>>}
      /\ dmx' = [D EXCEPT ![d].readerActive = IF D[d].readerSocket = s THEN FALSE ELSE @]
      /\ IF current THEN call' = Rejected(d) /\ _markConnectionDead(Destroy(s))
                    ELSE sock' = Destroy(s) /\ UNCHANGED <<call, socket, connectionError>>
      /\ UNCHANGED <<redial, demux, packets, answer>>
  BY DEF ReaderFails
<1>2. /\ dmx \in [Demuxes -> DemuxStates] /\ call \in [Calls -> CallStates]
      /\ readers \subseteq Demuxes \X Sockets /\ sock \in [Sockets -> SocketStates]
      /\ socket \in Sockets \cup {None} /\ connectionError \in BOOLEAN
  BY <1>0, Types
<1>3. dmx[d].pending # {} => dmx[d].lock # << >>
  BY <1>0, QueueMembers
<1>4. /\ F \in [Demuxes -> DemuxStates] /\ \A e \in Demuxes : e # d => F[e] = dmx[e]
      /\ F[d].used = dmx[d].used /\ F[d].stopped = dmx[d].stopped
      /\ F[d].readerSocket = dmx[d].readerSocket /\ F[d].readerActive = dmx[d].readerActive
      /\ F[d].packetNum = dmx[d].packetNum /\ F[d].pending = {}
      /\ F[d].lock = Released(dmx[d].lock, Awaited(d))
  BY <1>2, <1>3, FailPendingIs DEF Awaited
<1> HIDE DEF F
<1>5. /\ D \in [Demuxes -> DemuxStates] /\ \A e \in Demuxes : e # d => D[e] = dmx[e]
      /\ D[d].used = dmx[d].used /\ D[d].stopped = dmx[d].stopped
      /\ D[d].readerSocket = dmx[d].readerSocket /\ D[d].readerActive = dmx[d].readerActive
      /\ D[d].packetNum = dmx[d].packetNum
      /\ current => /\ D[d].pending = {}
                    /\ D[d].lock = Released(dmx[d].lock, Awaited(d))
      /\ ~current => D[d].pending = dmx[d].pending /\ D[d].lock = dmx[d].lock
  BY <1>2, <1>4
<1> HIDE DEF D
<1> DEFINE a == IF D[d].readerSocket = s THEN FALSE ELSE D[d].readerActive
<1> DEFINE R == [D[d] EXCEPT !.readerActive = a]
<1>6. D[d] \in DemuxStates /\ a \in BOOLEAN /\ (a => D[d].readerActive)
  <2>1. D[d] \in DemuxStates
    BY <1>5
  <2> QED
    BY <2>1 DEF DemuxStates
<1>7. dmx' = [D EXCEPT ![d] = R]
  BY <1>1, <1>5, <1>6
<1> HIDE DEF a
<1>8. /\ R \in DemuxStates /\ R.used = D[d].used /\ R.stopped = D[d].stopped
      /\ R.readerSocket = D[d].readerSocket /\ R.readerActive = a
      /\ R.packetNum = D[d].packetNum /\ R.pending = D[d].pending /\ R.lock = D[d].lock
  BY <1>6 DEF DemuxStates
<1> HIDE DEF R
<1>9. /\ dmx' \in [Demuxes -> DemuxStates] /\ \A e \in Demuxes : e # d => dmx'[e] = dmx[e]
      /\ dmx'[d] = R
  BY <1>5, <1>7, <1>8
<1>10. \A e \in Demuxes :
          /\ dmx'[e].used = dmx[e].used /\ dmx'[e].stopped = dmx[e].stopped
          /\ dmx'[e].readerSocket = dmx[e].readerSocket
          /\ dmx'[e].packetNum = dmx[e].packetNum
          /\ dmx'[e].pending \subseteq dmx[e].pending
          /\ dmx'[e].readerActive => dmx[e].readerActive
  BY <1>5, <1>6, <1>8, <1>9
<1>11. Destroy(s) \in [Sockets -> SocketStates] /\ Destroy(s)[s] = "destroyed"
       /\ \A t \in Sockets : t # s => Destroy(s)[t] = sock[t]
  BY <1>2 DEF Destroy, SocketStates
<1>12. readers' \subseteq Demuxes \X Sockets
  BY <1>1, <1>2
<1>13. CASE current
  <2>1. call' = Goto(call, Awaited(d), "failing") /\ _markConnectionDead(Destroy(s))
    BY <1>1, <1>13 DEF Rejected
  <2>2. \A c \in Awaited(d) : c \in Ops /\ call[c].pc = "waiting"
    BY <1>0, AwaitedIs
  <2>3. /\ call' \in [Calls -> CallStates]
        /\ \A c \in Calls : /\ c \in Awaited(d) => call'[c].pc = "failing"
                            /\ c \notin Awaited(d) => call'[c] = call[c]
    BY <1>2, <2>1, GotoMoves DEF Stages
  <2>4. Locks'
    <3>1. \A c \in Calls : c \in Awaited(d) => call'[c].pc \notin OnSocket
      BY <2>3 DEF OnSocket
    <3>2. \A c \in Calls : c \notin Awaited(d) => Aloof(c)
      BY <2>3 DEF Aloof
    <3>3. dmx'[d].pending = {} /\ dmx'[d].lock = Released(dmx[d].lock, Awaited(d))
      BY <1>5, <1>8, <1>9, <1>13
    <3> QED
      BY <1>0, <1>9, <3>1, <3>2, <3>3, WaitersLeave
  <2>5. /\ sock' \in [Sockets -> SocketStates] /\ connectionError' \in BOOLEAN
        /\ socket' \in Sockets \cup {None} /\ (socket' = socket \/ socket' = None)
        /\ sock'[s] = "destroyed"
        /\ \A t \in Sockets : sock'[t] = sock[t] \/ (t \in {s, socket} /\ sock'[t] = "destroyed")
    BY <1>2, <1>11, <2>1, DeadMoves
  <2>6. TypeOK'
    BY <1>0, <1>1, <1>9, <1>12, <2>3, <2>4, <2>5, Retyped, Types
  <2>7. \A c \in Calls : Falls(c)
    BY <2>2, <2>3 DEF Falls
  <2> QED
    BY <1>10, <2>4, <2>5, <2>6, <2>7
<1>14. CASE ~current
  <2>1. sock' = Destroy(s) /\ UNCHANGED <<call, socket, connectionError>>
    BY <1>1, <1>14
  <2>2. \A e \in Demuxes : dmx'[e].lock = dmx[e].lock /\ dmx'[e].pending = dmx[e].pending
    BY <1>5, <1>8, <1>9, <1>14
  <2>3. Locks'
    BY <1>0, <2>1, <2>2, LocksKept DEF Aloof
  <2>4. TypeOK'
    BY <1>0, <1>1, <1>2, <1>9, <1>11, <1>12, <2>1, <2>3, Retyped, Types
  <2> QED
    BY <1>10, <1>11, <2>1, <2>3, <2>4 DEF Falls
<1> QED
  BY <1>13, <1>14

\* What close() and reconnect() leave of the demux, its waiters and the socket.
LEMMA StopIs ==
    ASSUME BaseInv
    PROVE  /\ Stopped \in [Demuxes -> DemuxStates] /\ RejectedByStop \in [Calls -> CallStates]
           /\ SocketClosed \in [Sockets -> SocketStates]
           /\ \A e \in Demuxes :
                /\ Stopped[e].used = dmx[e].used /\ Stopped[e].packetNum = dmx[e].packetNum
                /\ e # demux => Stopped[e] = dmx[e]
                /\ e = demux => /\ Stopped[e].stopped /\ ~Stopped[e].readerActive
                                /\ Stopped[e].pending = {}
                                /\ Stopped[e].lock = Released(dmx[e].lock, Awaited(e))
           /\ \A c \in Calls :
                IF demux # None /\ c \in Awaited(demux)
                THEN c \in Ops /\ call[c].pc = "waiting" /\ RejectedByStop[c].pc = "failing"
                ELSE RejectedByStop[c] = call[c]
           /\ \A t \in Sockets :
                SocketClosed[t] = IF t = socket THEN "destroyed" ELSE sock[t]
<1>0. TypeOK /\ Locks
  BY DEF BaseInv
<1>1. /\ dmx \in [Demuxes -> DemuxStates] /\ call \in [Calls -> CallStates]
      /\ sock \in [Sockets -> SocketStates] /\ socket \in Sockets \cup {None}
      /\ demux \in Demuxes \cup {None}
  BY <1>0, Types
<1>2. /\ SocketClosed \in [Sockets -> SocketStates]
      /\ \A t \in Sockets : SocketClosed[t] = IF t = socket THEN "destroyed" ELSE sock[t]
  BY <1>1, Kinds DEF SocketClosed, Destroy, SocketStates
<1>3. CASE demux = None
  BY <1>1, <1>2, <1>3, Kinds DEF Stopped, RejectedByStop
<1>4. CASE demux # None
  <2> DEFINE F == _failPending(dmx, demux)
  <2>1. demux \in Demuxes
    BY <1>1, <1>4
  <2>2. dmx[demux].pending # {} => dmx[demux].lock # << >>
    BY <1>0, <2>1, QueueMembers
  <2>3. /\ F \in [Demuxes -> DemuxStates] /\ \A e \in Demuxes : e # demux => F[e] = dmx[e]
        /\ F[demux].used = dmx[demux].used /\ F[demux].packetNum = dmx[demux].packetNum
        /\ F[demux].pending = {}
        /\ F[demux].lock = Released(dmx[demux].lock, Awaited(demux))
    BY <1>1, <2>1, <2>2, FailPendingIs DEF Awaited
  <2>4. Stopped = [F EXCEPT ![demux].stopped = TRUE, ![demux].readerSocket = None,
                            ![demux].readerActive = FALSE]
    BY <1>4 DEF Stopped
  <2> HIDE DEF F
  <2> DEFINE R == [F[demux] EXCEPT !.stopped = TRUE, !.readerSocket = None, !.readerActive = FALSE]
  <2>5. F[demux] \in DemuxStates
    BY <2>1, <2>3
  <2>6. Stopped = [F EXCEPT ![demux] = R]
    BY <2>1, <2>3, <2>4
  <2>7. /\ R \in DemuxStates /\ R.used = F[demux].used /\ R.stopped /\ ~R.readerActive
        /\ R.packetNum = F[demux].packetNum
        /\ R.pending = F[demux].pending /\ R.lock = F[demux].lock
    BY <2>5 DEF DemuxStates
  <2> HIDE DEF R
  <2>8. /\ Stopped \in [Demuxes -> DemuxStates] /\ Stopped[demux] = R
        /\ \A e \in Demuxes : e # demux => Stopped[e] = dmx[e]
    BY <2>1, <2>3, <2>6, <2>7
  <2>9. \A c \in Awaited(demux) : c \in Ops /\ call[c].pc = "waiting"
    BY <1>0, <2>1, AwaitedIs
  <2>10. RejectedByStop = Goto(call, Awaited(demux), "failing")
    BY <1>4 DEF RejectedByStop, Rejected
  <2>11. /\ RejectedByStop \in [Calls -> CallStates]
         /\ \A c \in Calls : /\ c \in Awaited(demux) => RejectedByStop[c].pc = "failing"
                             /\ c \notin Awaited(demux) => RejectedByStop[c] = call[c]
    BY <1>1, <2>10, GotoMoves DEF Stages
  <2> QED
    BY <1>2, <1>4, <2>3, <2>7, <2>8, <2>9, <2>11
<1> QED
  BY <1>3, <1>4

\* The call x that closes leaves the queues in order.
LEMMA StopLocks ==
    ASSUME BaseInv, NEW x \in Calls, call[x].pc = "idle", call'[x].pc \notin OnSocket,
           dmx' = Stopped, \A c \in Calls : c # x => call'[c] = RejectedByStop[c]
    PROVE  /\ Locks' /\ \A c \in Calls : c # x => Falls(c)
           /\ \A e \in Demuxes : dmx'[e].pending \subseteq dmx[e].pending
<1>0. TypeOK /\ Locks /\ demux \in Demuxes \cup {None}
  BY Types DEF BaseInv
<1>1. \A c \in Calls : c # x => Falls(c)
  BY StopIs DEF Falls
<1>2. Aloof(x)
  BY DEF Aloof, OnSocket
<1>3. CASE demux = None
  <2>1. \A e \in Demuxes : dmx'[e] = dmx[e]
    BY <1>3, Kinds, StopIs
  <2>2. \A c \in Calls : Aloof(c)
    BY <1>2, <1>3, StopIs DEF Aloof
  <2> QED
    BY <1>0, <1>1, <2>1, <2>2, LocksKept
<1>4. CASE demux # None
  <2>1. /\ demux \in Demuxes /\ dmx'[demux].pending = {}
        /\ dmx'[demux].lock = Released(dmx[demux].lock, Awaited(demux))
        /\ \A e \in Demuxes : e # demux => dmx'[e] = dmx[e]
    BY <1>0, <1>4, StopIs
  <2>2. \A c \in Calls : c \in Awaited(demux) => call'[c].pc \notin OnSocket
    <3>1. x \notin Awaited(demux)
      BY <1>4, StopIs
    <3> QED
      BY <1>4, <3>1, StopIs DEF OnSocket
  <2>3. \A c \in Calls : c \notin Awaited(demux) => Aloof(c)
    BY <1>2, <1>4, StopIs DEF Aloof
  <2>4. Locks'
    BY <1>0, <2>1, <2>2, <2>3, WaitersLeave
  <2> QED
    BY <1>1, <2>1, <2>4
<1> QED
  BY <1>3, <1>4

LEMMA StopMoves ==
    ASSUME BaseInv, NEW x \in Closes \cup Reconnects, close(x) \/ reconnect(x),
           x \in Closes => close(x), x \in Reconnects => reconnect(x)
    PROVE  /\ TypeOK' /\ Locks' /\ call[x].pc = "idle"
           /\ dmx' = Stopped /\ demux' = None /\ socket' = None
           /\ \A c \in Calls : c # x => Falls(c)
           /\ \A e \in Demuxes : dmx'[e].pending \subseteq dmx[e].pending
           /\ \/ call'[x].pc = "done" /\ sock' = SocketClosed
              \/ /\ x \in Reconnects /\ redial /\ call'[x].pc = "connecting"
                 /\ call'[x].socket \in Sockets /\ sock[call'[x].socket] = "unused"
                 /\ sock' = [SocketClosed EXCEPT ![call'[x].socket] = "connecting"]
<1>0. TypeOK /\ x \in Calls
  BY Kinds DEF BaseInv
<1>1. /\ call[x].pc = "idle" /\ dmx' = Stopped /\ demux' = None /\ socket' = None
      /\ connectionError' = FALSE /\ UNCHANGED <<redial, readers, packets, answer>>
  BY DEF close, reconnect, At
<1>2. \/ call' = Goto(RejectedByStop, {x}, "done") /\ sock' = SocketClosed
      \/ /\ x \in Reconnects /\ redial
         /\ \E s \in Sockets : /\ Fresh(s) /\ sock' = [SocketClosed EXCEPT ![s] = "connecting"]
                               /\ call' = [RejectedByStop EXCEPT ![x].pc = "connecting",
                                                                 ![x].socket = s]
  BY DEF close, reconnect
<1>3. /\ Stopped \in [Demuxes -> DemuxStates] /\ RejectedByStop \in [Calls -> CallStates]
      /\ SocketClosed \in [Sockets -> SocketStates]
  BY StopIs
<1>4. /\ call' \in [Calls -> CallStates] /\ sock' \in [Sockets -> SocketStates]
      /\ \A c \in Calls : c # x => call'[c] = RejectedByStop[c]
      /\ \/ call'[x].pc = "done" /\ sock' = SocketClosed
         \/ /\ x \in Reconnects /\ redial /\ call'[x].pc = "connecting"
            /\ call'[x].socket \in Sockets /\ sock[call'[x].socket] = "unused"
            /\ sock' = [SocketClosed EXCEPT ![call'[x].socket] = "connecting"]
  <2>1. CASE call' = Goto(RejectedByStop, {x}, "done") /\ sock' = SocketClosed
    BY <1>0, <1>3, <2>1, GotoMoves DEF Stages
  <2>2. CASE /\ x \in Reconnects /\ redial
             /\ \E s \in Sockets : /\ Fresh(s) /\ sock' = [SocketClosed EXCEPT ![s] = "connecting"]
                                   /\ call' = [RejectedByStop EXCEPT ![x].pc = "connecting",
                                                                     ![x].socket = s]
    <3>1. PICK s \in Sockets : /\ Fresh(s) /\ sock' = [SocketClosed EXCEPT ![s] = "connecting"]
                               /\ call' = [RejectedByStop EXCEPT ![x].pc = "connecting",
                                                                 ![x].socket = s]
      BY <2>2
    <3> DEFINE r == [RejectedByStop[x] EXCEPT !.pc = "connecting", !.socket = s]
    <3>2. RejectedByStop[x] \in CallStates
      BY <1>0, <1>3
    <3>3. r \in CallStates /\ r.pc = "connecting" /\ r.socket = s
      BY <3>2 DEF CallStates, Stages
    <3>4. call' = [RejectedByStop EXCEPT ![x] = r]
      BY <1>0, <1>3, <3>1
    <3> HIDE DEF r
    <3>5. /\ call' \in [Calls -> CallStates] /\ call'[x] = r
          /\ \A c \in Calls : c # x => call'[c] = RejectedByStop[c]
      BY <1>0, <1>3, <3>3, <3>4
    <3>6. sock[s] = "unused" /\ sock' \in [Sockets -> SocketStates]
      BY <1>3, <3>1 DEF Fresh, SocketStates
    <3> QED
      BY <2>2, <3>1, <3>3, <3>5, <3>6
  <2> QED
    BY <1>2, <2>1, <2>2
<1>5. /\ Locks' /\ \A c \in Calls : c # x => Falls(c)
      /\ \A e \in Demuxes : dmx'[e].pending \subseteq dmx[e].pending
  BY <1>0, <1>1, <1>4, StopLocks DEF OnSocket
<1>6. TypeOK'
  BY <1>0, <1>1, <1>3, <1>4, <1>5, Retyped, Types
<1> QED
  BY <1>1, <1>4, <1>5, <1>6

\* The actions that leave the demuxes alone.
LEMMA QuietMoves ==
    ASSUME BaseInv, NEW c \in Calls,
           \/ c \in Ops /\ (Refused(c) \/ Catch(c))
           \/ ConnectFails(c)
    PROVE  /\ TypeOK' /\ Locks' /\ dmx' = dmx
           /\ call'[c].pc = "done" /\ \A b \in Calls : b # c => call'[b] = call[b]
           /\ call[c].pc \in {"idle", "failing", "connecting"}
           /\ socket' \in {socket, None}
           /\ \A t \in Sockets :
                \/ sock'[t] = sock[t]
                \/ /\ sock'[t] = "destroyed"
                   /\ t = socket \/ (t = call[c].socket /\ call[c].pc = "connecting")
<1>0. TypeOK /\ Locks
  BY DEF BaseInv
<1>1. /\ dmx' = dmx /\ call' = Goto(call, {c}, "done")
      /\ call[c].pc \in {"idle", "failing", "connecting"}
      /\ UNCHANGED <<redial, demux, readers, packets, answer>>
  BY DEF Refused, Catch, ConnectFails, At
<1>2. /\ call \in [Calls -> CallStates] /\ sock \in [Sockets -> SocketStates]
      /\ socket \in Sockets \cup {None} /\ connectionError \in BOOLEAN
  BY <1>0, Types
<1>3. /\ call' \in [Calls -> CallStates] /\ call'[c].pc = "done"
      /\ \A b \in Calls : b # c => call'[b] = call[b]
  <2>1. "done" \in Stages
    BY DEF Stages
  <2> QED
    BY <1>1, <1>2, <2>1, GotoMoves
<1>4. Locks'
  BY <1>0, <1>1, <1>3, LocksKept DEF Aloof, OnSocket
<1>5. /\ sock' \in [Sockets -> SocketStates] /\ connectionError' \in BOOLEAN
      /\ socket' \in Sockets \cup {None} /\ socket' \in {socket, None}
      /\ \A t \in Sockets :
                \/ sock'[t] = sock[t]
                \/ /\ sock'[t] = "destroyed"
                   /\ t = socket \/ (t = call[c].socket /\ call[c].pc = "connecting")
  <2>1. CASE c \in Ops /\ Refused(c)
    BY <1>2, <2>1 DEF Refused
  <2>2. CASE c \in Ops /\ Catch(c)
    <3>1. _markConnectionDead(sock)
      BY <2>2 DEF Catch
    <3> QED
      BY <1>2, <3>1, DeadMoves
  <2>3. CASE ConnectFails(c)
    <3>1. /\ sock' = Destroy(call[c].socket) /\ call[c].pc = "connecting"
          /\ UNCHANGED <<socket, connectionError>>
      BY <2>3 DEF ConnectFails, At
    <3> QED
      BY <1>2, <3>1 DEF Destroy, SocketStates
  <2> QED
    BY <2>1, <2>2, <2>3
<1>6. TypeOK'
  BY <1>0, <1>1, <1>3, <1>4, <1>5, Retyped, Types
<1> QED
  BY <1>1, <1>3, <1>4, <1>5, <1>6
-----------------------------------------------------------------------------
(* Who holds what *)

\* A call that begins to connect, goes on on its socket or ends.
Moves(c) ==
    \/ call'[c].pc = "done" \/ (c \in Ops /\ call'[c].pc = "failing")
    \/ call'[c].pc \in OnSocket /\ sock'[call'[c].socket] \in Started
    \/ /\ call'[c].pc = "connecting" /\ c \in Ops \cup Reconnects
       /\ call'[c].socket \in Sockets /\ sock[call'[c].socket] = "unused"
       /\ sock'[call'[c].socket] = "connecting"
       /\ c \in Ops => call'[c].demux \in Demuxes /\ dmx'[call'[c].demux].used

LEMMA HoldersKept ==
    ASSUME BaseInv, NEW x,
           \A c \in Calls : c # x => Falls(c),
           x \in Calls => call'[x] = call[x] \/ Moves(x),
           \A t \in Sockets : sock[t] \in Started => sock'[t] \in Started,
           \A c \in Calls : call[c].pc = "connecting" /\ call'[c] = call[c] =>
              sock'[call[c].socket] = "connecting",
           \A d \in Demuxes : dmx[d].used => dmx'[d].used
    PROVE  Holders'
<1>0. Locks /\ Holders
  BY DEF BaseInv
<1>1. ASSUME NEW c \in Calls
      PROVE  /\ call'[c].pc = "failing" => c \in Ops
             /\ call'[c].pc \in OnSocket => sock'[call'[c].socket] \in Started
             /\ call'[c].pc = "connecting" =>
                  /\ c \in Ops \cup Reconnects /\ call'[c].socket \in Sockets
                  /\ sock'[call'[c].socket] = "connecting"
                  /\ c \in Ops => call'[c].demux \in Demuxes /\ dmx'[call'[c].demux].used
  <2>1. CASE call'[c] = call[c]
    <3>1. call[c].pc \in OnSocket => call[c].socket \in Sockets
      BY <1>0 DEF Locks, InQueue
    <3> QED
      BY <1>0, <2>1, <3>1 DEF Holders
  <2>2. CASE call'[c] # call[c] /\ c # x
    BY <2>2 DEF Falls, OnSocket
  <2>3. CASE call'[c] # call[c] /\ c = x
    BY <2>3 DEF Moves, OnSocket
  <2> QED
    BY <2>1, <2>2, <2>3
<1>2. ASSUME NEW c \in Calls, NEW b \in Calls, call'[c].pc = "connecting",
             call'[b].pc = "connecting", call'[b].socket = call'[c].socket
      PROVE  b = c
  <2>1. \A a \in Calls : call'[a].pc = "connecting" =>
           \/ call'[a] = call[a] /\ sock[call[a].socket] = "connecting"
           \/ a = x /\ sock[call'[a].socket] = "unused"
    BY <1>0 DEF Falls, Moves, Holders, OnSocket
  <2>2. CASE call'[c] = call[c] /\ call'[b] = call[b]
    BY <1>0, <1>2, <2>2 DEF Holders
  <2> QED
    BY <1>2, <2>1, <2>2
<1> QED
  BY <1>1, <1>2 DEF Holders

\* No call goes back to where it had not begun.
OnceBegun == \A c \in Calls : call[c].pc # "idle" => call'[c].pc # "idle"

LEMMA BegunGrows ==
    ASSUME OnceBegun
    PROVE  /\ Cardinality(Begun) \in Nat /\ Cardinality(Begun') \in Nat
           /\ Cardinality(Begun) <= Cardinality(Begun')
           /\ (\E x \in Closes \cup Reconnects : call[x].pc = "idle" /\ call'[x].pc # "idle") =>
                 Cardinality(Begun) + 1 <= Cardinality(Begun')
<1>1. Begun' \subseteq Closes \cup Reconnects /\ Begun \subseteq Begun'
  BY Kinds DEF Begun, OnceBegun
<1>2. IsFiniteSet(Begun') /\ IsFiniteSet(Begun)
  BY <1>1, Counts, FS_Subset
<1>3. /\ Cardinality(Begun) \in Nat /\ Cardinality(Begun') \in Nat
      /\ Cardinality(Begun) <= Cardinality(Begun')
  BY <1>1, <1>2, FS_Subset, FS_CardinalityType
<1>4. ASSUME NEW x \in Closes \cup Reconnects, call[x].pc = "idle", call'[x].pc # "idle"
      PROVE  Cardinality(Begun) + 1 <= Cardinality(Begun')
  <2>1. x \notin Begun /\ Begun \cup {x} \subseteq Begun'
    BY <1>1, <1>4 DEF Begun
  <2>2. IsFiniteSet(Begun \cup {x}) /\ Cardinality(Begun \cup {x}) = Cardinality(Begun) + 1
    BY <1>2, <2>1, FS_AddElement
  <2> QED
    BY <1>2, <2>1, <2>2, FS_Subset
<1> QED
  BY <1>3, <1>4

LEMMA RoomKept ==
    ASSUME Room, OnceBegun, demux' = demux, \A d \in Demuxes : dmx'[d].used = dmx[d].used
    PROVE  Room'
<1>1. PICK k \in Nat : /\ k <= Cardinality(Begun) + (IF demux = None THEN 0 ELSE 1)
                       /\ \A d \in Demuxes : dmx[d].used <=> d <= k
  BY DEF Room
<1>2. k <= Cardinality(Begun') + (IF demux' = None THEN 0 ELSE 1)
  BY <1>1, BegunGrows
<1>3. \A d \in Demuxes : dmx'[d].used <=> d <= k
  BY <1>1
<1> QED
  BY <1>2, <1>3 DEF Room

LEMMA RoomTaken ==
    ASSUME Room, OnceBegun, NEW d \in Demuxes, NextDemux(d), demux' = d,
           \A e \in Demuxes : e # d => dmx'[e] = dmx[e], dmx'[d].used,
           demux # None => dmx[demux].used
    PROVE  Room'
<1>1. PICK k \in Nat : /\ k <= Cardinality(Begun) + (IF demux = None THEN 0 ELSE 1)
                       /\ \A e \in Demuxes : dmx[e].used <=> e <= k
  BY DEF Room
<1>2. CASE demux # None
  <2>1. demux = d
    BY <1>2 DEF NextDemux
  <2>2. k <= Cardinality(Begun') + (IF demux' = None THEN 0 ELSE 1)
    BY <1>1, <2>1, BegunGrows
  <2>3. \A e \in Demuxes : dmx'[e].used <=> e <= k
    <3>1. d <= k
      BY <1>1, <1>2, <2>1
    <3> QED
      BY <1>1, <3>1
  <2> QED
    BY <2>2, <2>3 DEF Room
<1>3. CASE demux = None
  <2>1. ~dmx[d].used /\ \A e \in Demuxes : e < d => dmx[e].used
    BY <1>3 DEF NextDemux
  <2>2. d \in Nat /\ d # None
    BY Counts, Kinds
  <2>3. d = k + 1
    <3>1. d > k
      BY <1>1, <2>1, <2>2
    <3>2. CASE d > k + 1
      <4>1. k + 1 \in Demuxes /\ k + 1 < d /\ ~(k + 1 <= k)
        BY <2>2, <3>2, Counts
      <4> QED
        BY <1>1, <2>1, <4>1
    <3> QED
      BY <2>2, <3>1, <3>2
  <2>4. k + 1 <= Cardinality(Begun') + (IF demux' = None THEN 0 ELSE 1)
    BY <1>1, <1>3, <2>2, BegunGrows
  <2>5. \A e \in Demuxes : dmx'[e].used <=> e <= k + 1
    <3> SUFFICES ASSUME NEW e \in Demuxes PROVE dmx'[e].used <=> e <= k + 1
      OBVIOUS
    <3>1. CASE e = d
      BY <2>3, <3>1
    <3>2. CASE e # d
      <4>1. dmx'[e].used <=> e <= k
        BY <1>1, <3>2
      <4>2. e <= k <=> e <= k + 1
        BY <2>3, <3>2, Counts
      <4> QED
        BY <4>1, <4>2
    <3> QED
      BY <3>1, <3>2
  <2> QED
    BY <2>4, <2>5 DEF Room
<1> QED
  BY <1>2, <1>3

LEMMA RoomLeft ==
    ASSUME Room, OnceBegun, NEW x \in Closes \cup Reconnects,
           call[x].pc = "idle", call'[x].pc # "idle",
           demux' = None, \A d \in Demuxes : dmx'[d].used = dmx[d].used
    PROVE  Room'
<1>1. PICK k \in Nat : /\ k <= Cardinality(Begun) + (IF demux = None THEN 0 ELSE 1)
                       /\ \A d \in Demuxes : dmx[d].used <=> d <= k
  BY DEF Room
<1>2. k <= Cardinality(Begun')
  BY <1>1, BegunGrows
<1>3. \A d \in Demuxes : dmx'[d].used <=> d <= k
  BY <1>1
<1> QED
  BY <1>2, <1>3, BegunGrows DEF Room

LEMMA BaseInit == Init => BaseInv
<1> SUFFICES ASSUME Init PROVE BaseInv
  OBVIOUS
<1>1. /\ dmx \in [Demuxes -> DemuxStates] /\ sock \in [Sockets -> SocketStates]
      /\ call \in [Calls -> CallStates]
      /\ \A d \in Demuxes : dmx[d].lock = << >> /\ dmx[d].pending = {} /\ ~dmx[d].used
                            /\ ~dmx[d].stopped /\ ~dmx[d].readerActive
      /\ \A c \in Calls : call[c].pc = "idle"
  BY DEF Init, DemuxStates, SocketStates, CallStates, Stages
<1>2. Locks
  BY <1>1 DEF Locks, Queue, OnSocket
<1>3. /\ redial \in BOOLEAN /\ connectionError \in BOOLEAN
      /\ socket \in Sockets \cup {None} /\ demux \in Demuxes \cup {None}
      /\ readers \subseteq Demuxes \X Sockets
      /\ packets \subseteq PacketSet /\ answer \in [Ops -> Ops \cup {None}]
  BY Counts DEF Init
<1>4. TypeOK
  <2>1. \A d \in Demuxes : \A w \in dmx[d].pending :
           Len(dmx[d].lock) > 0 /\ w.op = Head(dmx[d].lock)
    BY <1>1
  <2> QED
    BY <1>1, <1>3, <2>1 DEF TypeOK, SocketStates, DemuxStates, WaiterSet, CallStates, Stages, PacketSet
<1>5. Holders
  BY <1>1 DEF Holders, OnSocket
<1>6. InUse
  <2>1. demux = None /\ readers = {}
    BY DEF Init
  <2>2. socket # None => sock[socket] \in Started
    BY Counts DEF Init, Started
  <2> QED
    BY <1>1, <2>1, <2>2 DEF InUse
<1>7. Room
  <2>1. Cardinality(Begun) \in Nat /\ demux = None
    BY Counts, FS_Subset, FS_CardinalityType DEF Begun, Init
  <2>2. \A d \in Demuxes : ~(d <= 0)
    BY Counts
  <2>3. \A d \in Demuxes : dmx[d].used <=> d <= 0
    BY <1>1, <2>2
  <2>4. 0 <= Cardinality(Begun) + (IF demux = None THEN 0 ELSE 1) /\ 0 \in Nat
    BY <2>1
  <2> QED
    BY <2>3, <2>4 DEF Room
<1> QED
  BY <1>2, <1>4, <1>5, <1>6, <1>7 DEF BaseInv

\* A socket once started stays so; one that is being opened is that of its call.
LEMMA SocketFacts ==
    ASSUME BaseInv
    PROVE  /\ socket \in Sockets \cup {None} /\ (socket # None => sock[socket] \in Started)
           /\ sock \in [Sockets -> SocketStates]
           /\ readers \subseteq Demuxes \X Sockets
           /\ \A r \in readers : r[2] \in Sockets /\ sock[r[2]] \in Started
           /\ "connecting" \notin Started /\ "unused" \notin Started
           /\ "open" \in Started /\ "destroyed" \in Started
           /\ \A c \in Calls : call[c].pc = "connecting" =>
                call[c].socket \in Sockets /\ sock[call[c].socket] = "connecting"
  BY Types DEF BaseInv, InUse, Started, Holders

LEMMA BaseQuiet ==
    ASSUME BaseInv, NEW c \in Calls,
           \/ c \in Ops /\ (Refused(c) \/ Catch(c))
           \/ ConnectFails(c)
    PROVE  BaseInv'
<1>1. /\ TypeOK' /\ Locks' /\ dmx' = dmx
      /\ call'[c].pc = "done" /\ \A b \in Calls : b # c => call'[b] = call[b]
      /\ call[c].pc \in {"idle", "failing", "connecting"}
      /\ socket' \in {socket, None}
      /\ \A t \in Sockets :
           \/ sock'[t] = sock[t]
           \/ /\ sock'[t] = "destroyed"
              /\ t = socket \/ (t = call[c].socket /\ call[c].pc = "connecting")
  BY QuietMoves
<1>2. demux' = demux /\ readers' = readers
  BY DEF Refused, Catch, ConnectFails
<1>3. Holders'
  <2>1. \A t \in Sockets : sock[t] \in Started => sock'[t] \in Started
    BY <1>1, SocketFacts
  <2>2. ASSUME NEW b \in Calls, call[b].pc = "connecting", call'[b] = call[b]
        PROVE  sock'[call[b].socket] = "connecting"
    <3>1. b # c
      BY <1>1, <2>2
    <3>2. call[b].socket # socket
      BY <2>2, SocketFacts, Kinds
    <3>3. call[c].pc = "connecting" => call[c].socket # call[b].socket
      BY <2>2, <3>1 DEF BaseInv, Holders
    <3> QED
      BY <1>1, <2>2, <3>2, <3>3, SocketFacts
  <2> QED
    BY <1>1, <2>1, <2>2, HoldersKept DEF Falls, Moves
<1>4. InUse'
  <2>1. \A t \in Sockets : sock[t] \in Started => sock'[t] \in Started
    BY <1>1, SocketFacts
  <2>2. socket' # None => sock'[socket'] \in Started
    BY <1>1, <2>1, SocketFacts
  <2>3. \A r \in readers' : sock'[r[2]] \in Started
    BY <1>2, <2>1, SocketFacts
  <2> QED
    BY <1>1, <1>2, <2>2, <2>3 DEF BaseInv, InUse
<1>5. Room'
  BY <1>1, <1>2, RoomKept DEF BaseInv, OnceBegun
<1> QED
  BY <1>1, <1>3, <1>4, <1>5 DEF BaseInv

\* A step that takes no demux and stops none: who waits may be served or rejected.
LEMMA BaseServes ==
    ASSUME BaseInv, TypeOK', Locks', \A c \in Calls : Falls(c),
           demux' = demux, socket' = socket \/ socket' = None, readers' \subseteq readers,
           \A d \in Demuxes : /\ dmx'[d].used = dmx[d].used /\ dmx'[d].stopped = dmx[d].stopped
                              /\ dmx'[d].readerActive => dmx[d].readerActive,
           \A t \in Sockets : \/ sock'[t] = sock[t]
                              \/ sock[t] \in Started /\ sock'[t] \in Started
    PROVE  BaseInv'
<1>1. \A t \in Sockets : sock[t] \in Started => sock'[t] \in Started
  OBVIOUS
<1>2. Holders'
  <2>1. \A c \in Calls : call[c].pc = "connecting" => sock'[call[c].socket] = "connecting"
    BY SocketFacts
  <2>2. None \in Calls => call'[None] = call[None] \/ Moves(None)
    BY DEF Falls, Moves
  <2> QED
    BY <1>1, <2>1, <2>2, HoldersKept
<1>3. InUse'
  <2>1. socket' # None => sock'[socket'] \in Started
    BY <1>1, SocketFacts
  <2>2. \A r \in readers' : sock'[r[2]] \in Started
    BY <1>1, SocketFacts
  <2>3. /\ demux # None => demux \in Demuxes /\ dmx[demux].used /\ ~dmx[demux].stopped
        /\ \A d \in Demuxes :
             /\ dmx[d].used /\ ~dmx[d].stopped => d = demux
             /\ ~dmx[d].used => ~dmx[d].stopped /\ ~dmx[d].readerActive
    BY Types DEF BaseInv, InUse
  <2>4. /\ demux' # None => dmx'[demux'].used /\ ~dmx'[demux'].stopped
        /\ \A d \in Demuxes :
             /\ dmx'[d].used /\ ~dmx'[d].stopped => d = demux'
             /\ ~dmx'[d].used => ~dmx'[d].stopped /\ ~dmx'[d].readerActive
    BY <2>3
  <2> QED
    BY <2>1, <2>2, <2>4 DEF InUse
<1>4. Room'
  <2>1. OnceBegun
    BY DEF OnceBegun, Falls
  <2> QED
    BY <2>1, RoomKept DEF BaseInv
<1> QED
  BY <1>2, <1>3, <1>4 DEF BaseInv

LEMMA BaseSend ==
    ASSUME BaseInv, NEW o \in Ops, Send(o) \/ Written(o)
    PROVE  BaseInv'
<1>1. /\ UNCHANGED <<socket, demux, sock, readers>>
      /\ TypeOK' /\ Locks' /\ call[o].pc \in OnSocket
      /\ \A d \in Demuxes : SameReader(d)
      /\ \A c \in Calls : c # o => call'[c] = call[c]
      /\ call'[o].socket = call[o].socket
      /\ call'[o].pc \in {"writing", "waiting", "failing", "done"}
  <2>1. CASE Send(o)
    BY <2>1, SendMoves DEF Send, OnSocket
  <2>2. CASE Written(o)
    BY <2>2, WrittenMoves DEF Written, OnSocket
  <2> QED
    BY <2>1, <2>2
<1>2. o \in Calls /\ sock[call[o].socket] \in Started
  BY <1>1, Kinds DEF BaseInv, Holders, OnSocket
<1>3. Holders'
  <2>1. Moves(o)
    BY <1>1, <1>2 DEF Moves, OnSocket
  <2> QED
    BY <1>1, <2>1, SocketFacts, HoldersKept DEF Falls, SameReader
<1>4. InUse'
  <2>1. /\ demux # None => demux \in Demuxes /\ dmx[demux].used /\ ~dmx[demux].stopped
        /\ \A d \in Demuxes :
             /\ dmx[d].used /\ ~dmx[d].stopped => d = demux
             /\ ~dmx[d].used => ~dmx[d].stopped /\ ~dmx[d].readerActive
    BY Types DEF BaseInv, InUse
  <2>2. /\ demux' # None => dmx'[demux'].used /\ ~dmx'[demux'].stopped
        /\ \A d \in Demuxes :
             /\ dmx'[d].used /\ ~dmx'[d].stopped => d = demux'
             /\ ~dmx'[d].used => ~dmx'[d].stopped /\ ~dmx'[d].readerActive
    BY <1>1, <2>1 DEF SameReader
  <2>3. (socket' # None => sock'[socket'] \in Started) /\ \A r \in readers' : sock'[r[2]] \in Started
    BY <1>1 DEF BaseInv, InUse
  <2> QED
    BY <2>2, <2>3 DEF InUse
<1>5. Room'
  BY <1>1, RoomKept DEF BaseInv, OnceBegun, SameReader
<1> QED
  BY <1>1, <1>3, <1>4, <1>5 DEF BaseInv

\* A step that takes the demux d, of a call that moves.
LEMMA BaseTakes ==
    ASSUME BaseInv, TypeOK', Locks', NEW x \in Calls, Moves(x),
           \A c \in Calls : c # x => Falls(c),
           NEW d \in Demuxes, NextDemux(d), demux' = d,
           \A e \in Demuxes : e # d => dmx'[e] = dmx[e],
           dmx'[d].used, ~dmx'[d].stopped,
           \A t \in Sockets : sock[t] \in Started => sock'[t] \in Started,
           \A c \in Calls : c # x /\ call[c].pc = "connecting" => sock'[call[c].socket] = "connecting",
           call'[x] # call[x], call'[x].pc # "idle",
           socket' # None => socket' \in Sockets /\ sock'[socket'] \in Started,
           \A r \in readers' : sock'[r[2]] \in Started
    PROVE  BaseInv'
<1>1. Holders'
  <2>1. \A e \in Demuxes : dmx[e].used => dmx'[e].used
    OBVIOUS
  <2> QED
    BY <2>1, HoldersKept
<1>2. InUse'
  <2>1. ASSUME NEW e \in Demuxes, e # d
        PROVE  /\ ~(dmx'[e].used /\ ~dmx'[e].stopped)
               /\ ~dmx'[e].used => ~dmx'[e].stopped /\ ~dmx'[e].readerActive
    <3>1. dmx[e].used /\ ~dmx[e].stopped => e = demux
      BY DEF BaseInv, InUse
    <3>2. e # demux
      BY <2>1, Kinds DEF NextDemux
    <3> QED
      BY <2>1, <3>1, <3>2 DEF BaseInv, InUse
  <2> QED
    BY <2>1 DEF InUse
<1>3. Room'
  <2>1. OnceBegun
    BY DEF OnceBegun, Falls
  <2> QED
    BY <2>1, RoomTaken DEF BaseInv, InUse
<1> QED
  BY <1>1, <1>2, <1>3 DEF BaseInv

LEMMA BaseBegins ==
    ASSUME BaseInv, NEW o \in Ops, BeginOnSocket(o) \/ BeginDial(o)
    PROVE  BaseInv'
<1>0. o \in Calls /\ call[o].pc = "idle"
  BY Kinds DEF BeginOnSocket, BeginDial, At
<1>1. CASE BeginOnSocket(o)
  <2>1. /\ TypeOK' /\ Locks'
        /\ \E d \in Demuxes :
             /\ NextDemux(d) /\ ~dmx[d].stopped /\ demux' = d
             /\ readers' = StartReader(d, socket)
             /\ \A e \in Demuxes : e # d => dmx'[e] = dmx[e]
             /\ dmx'[d].used /\ ~dmx'[d].stopped
             /\ call'[o].pc = "queued" /\ call'[o].socket = socket
             /\ socket \in Sockets /\ sock[socket] = "open"
             /\ \A c \in Calls : c # o => call'[c] = call[c]
    BY <1>1, BeginOnSocketMoves
  <2>2. PICK d \in Demuxes :
             /\ NextDemux(d) /\ demux' = d
             /\ readers' = StartReader(d, socket)
             /\ \A e \in Demuxes : e # d => dmx'[e] = dmx[e]
             /\ dmx'[d].used /\ ~dmx'[d].stopped
             /\ call'[o].pc = "queued" /\ call'[o].socket = socket
             /\ socket \in Sockets /\ sock[socket] = "open"
             /\ \A c \in Calls : c # o => call'[c] = call[c]
    BY <2>1
  <2>3. sock' = sock /\ socket' = socket
    BY <1>1 DEF BeginOnSocket
  <2>4. Moves(o) /\ call'[o] # call[o] /\ call'[o].pc # "idle"
    BY <1>0, <2>2, <2>3 DEF Moves, OnSocket, Started
  <2>5. \A r \in readers' : sock'[r[2]] \in Started
    BY <2>2, <2>3, SocketFacts DEF StartReader
  <2> QED
    BY <1>0, <2>1, <2>2, <2>3, <2>4, <2>5, SocketFacts, BaseTakes DEF Falls
<1>2. CASE BeginDial(o)
  <2>1. /\ TypeOK' /\ Locks'
        /\ \E d \in Demuxes :
             /\ NextDemux(d) /\ ~dmx[d].stopped /\ demux' = d
             /\ \A e \in Demuxes : e # d => dmx'[e] = dmx[e]
             /\ dmx'[d].used /\ ~dmx'[d].stopped
             /\ \A c \in Calls : c # o => Falls(c)
             /\ \/ /\ redial /\ call'[o].pc = "connecting" /\ call'[o].demux = d
                   /\ call'[o].socket \in Sockets /\ sock[call'[o].socket] = "unused"
                   /\ sock' = [sock EXCEPT ![call'[o].socket] = "connecting"]
                \/ ~redial /\ call'[o].pc = "failing" /\ sock' = sock
    BY <1>2, BeginDialMoves
  <2>2. PICK d \in Demuxes :
             /\ NextDemux(d) /\ demux' = d
             /\ \A e \in Demuxes : e # d => dmx'[e] = dmx[e]
             /\ dmx'[d].used /\ ~dmx'[d].stopped
             /\ \A c \in Calls : c # o => Falls(c)
             /\ \/ /\ redial /\ call'[o].pc = "connecting" /\ call'[o].demux = d
                   /\ call'[o].socket \in Sockets /\ sock[call'[o].socket] = "unused"
                   /\ sock' = [sock EXCEPT ![call'[o].socket] = "connecting"]
                \/ ~redial /\ call'[o].pc = "failing" /\ sock' = sock
    BY <2>1
  <2>3. socket' = None /\ readers' = readers
    BY <1>2 DEF BeginDial
  <2>4. /\ \A t \in Sockets : sock[t] \in Started => sock'[t] \in Started
        /\ \A c \in Calls : c # o /\ call[c].pc = "connecting" => sock'[call[c].socket] = "connecting"
    BY <2>2, SocketFacts
  <2>5. Moves(o) /\ call'[o] # call[o] /\ call'[o].pc # "idle"
    <3>1. call'[o].pc = "connecting" => sock'[call'[o].socket] = "connecting"
      BY <2>2, SocketFacts
    <3> QED
      BY <1>0, <2>2, <3>1 DEF Moves
  <2>6. \A r \in readers' : sock'[r[2]] \in Started
    BY <2>3, <2>4, SocketFacts
  <2> QED
    BY <1>0, <2>1, <2>2, <2>3, <2>4, <2>5, <2>6, BaseTakes
<1> QED
  BY <1>1, <1>2

LEMMA BaseConnectDone ==
    ASSUME BaseInv, NEW b \in Ops \cup Reconnects, ConnectDone(b)
    PROVE  BaseInv'
<1>1. /\ TypeOK' /\ Locks'
      /\ call[b].pc = "connecting" /\ sock' = [sock EXCEPT ![call[b].socket] = "open"]
  BY ConnectDoneMoves
<1>2. PICK d \in Demuxes :
           /\ NextDemux(d) /\ demux' = d
           /\ socket' = call[b].socket /\ readers' = StartReader(d, socket')
           /\ \A e \in Demuxes : e # d => dmx'[e] = dmx[e]
           /\ dmx'[d].used /\ ~dmx'[d].stopped
           /\ \A c \in Calls : c # b => call'[c] = call[c]
           /\ call'[b].socket = call[b].socket
           /\ \/ call'[b].pc = "done"
              \/ b \in Ops /\ call'[b].pc = "failing"
              \/ b \in Ops /\ call'[b].pc = "queued" /\ call[b].demux = d
  BY ConnectDoneMoves
<1>3. /\ b \in Calls /\ call[b].socket \in Sockets /\ sock[call[b].socket] = "connecting"
      /\ sock'[call[b].socket] = "open"
      /\ \A t \in Sockets : t # call[b].socket => sock'[t] = sock[t]
  BY <1>1, Kinds, SocketFacts
<1>4. Moves(b) /\ call'[b] # call[b] /\ call'[b].pc # "idle"
  BY <1>1, <1>2, <1>3, SocketFacts DEF Moves, OnSocket
<1>5. \A t \in Sockets : sock[t] \in Started => sock'[t] \in Started
  BY <1>3, SocketFacts
<1>6. ASSUME NEW c \in Calls, c # b, call[c].pc = "connecting"
      PROVE  sock'[call[c].socket] = "connecting"
  <2>1. call[c].socket # call[b].socket
    BY <1>1, <1>3, <1>6 DEF BaseInv, Holders
  <2> QED
    BY <1>3, <1>6, <2>1, SocketFacts
<1>7. \A r \in readers' : sock'[r[2]] \in Started
  BY <1>2, <1>3, <1>5, SocketFacts DEF StartReader
<1> QED
  BY <1>1, <1>2, <1>3, <1>4, <1>5, <1>6, <1>7, SocketFacts, BaseTakes DEF Falls

LEMMA BaseStop ==
    ASSUME BaseInv, NEW x \in Closes \cup Reconnects, close(x) \/ reconnect(x),
           x \in Closes => close(x), x \in Reconnects => reconnect(x)
    PROVE  BaseInv'
<1>1. /\ TypeOK' /\ Locks' /\ call[x].pc = "idle"
      /\ dmx' = Stopped /\ demux' = None /\ socket' = None
      /\ \A c \in Calls : c # x => Falls(c)
      /\ \/ call'[x].pc = "done" /\ sock' = SocketClosed
         \/ /\ x \in Reconnects /\ redial /\ call'[x].pc = "connecting"
            /\ call'[x].socket \in Sockets /\ sock[call'[x].socket] = "unused"
            /\ sock' = [SocketClosed EXCEPT ![call'[x].socket] = "connecting"]
  BY StopMoves
<1>2. /\ x \in Calls /\ readers' = readers
      /\ SocketClosed \in [Sockets -> SocketStates]
      /\ \A t \in Sockets : SocketClosed[t] = IF t = socket THEN "destroyed" ELSE sock[t]
  BY Kinds, StopIs DEF close, reconnect
<1>3. /\ \A t \in Sockets : sock[t] \in Started => sock'[t] \in Started
      /\ \A c \in Calls : c # x /\ call[c].pc = "connecting" => sock'[call[c].socket] = "connecting"
      /\ call'[x].pc = "connecting" => sock'[call'[x].socket] = "connecting"
  <2>1. \A c \in Calls : call[c].pc = "connecting" => call[c].socket # socket
    BY SocketFacts, Kinds
  <2>2. CASE sock' = SocketClosed /\ call'[x].pc = "done"
    BY <1>2, <2>1, <2>2, SocketFacts
  <2>3. CASE /\ call'[x].socket \in Sockets /\ sock[call'[x].socket] = "unused"
             /\ sock' = [SocketClosed EXCEPT ![call'[x].socket] = "connecting"]
    <3>1. /\ sock'[call'[x].socket] = "connecting"
          /\ \A t \in Sockets : t # call'[x].socket => sock'[t] = SocketClosed[t]
      BY <1>2, <2>3
    <3> QED
      BY <1>2, <2>1, <2>3, <3>1, SocketFacts
  <2> QED
    BY <1>1, <2>2, <2>3
<1>4. \A d \in Demuxes : /\ dmx'[d].used = dmx[d].used
                         /\ d # demux => dmx'[d] = dmx[d]
                         /\ d = demux => dmx'[d].stopped /\ ~dmx'[d].readerActive
  BY <1>1, StopIs
<1>5. Holders'
  <2>1. Moves(x)
    <3>1. x \in Reconnects => x \notin Ops
      BY Kinds
    <3> QED
      BY <1>1, <1>3, <3>1 DEF Moves
  <2>2. \A c \in Calls : call[c].pc = "connecting" /\ call'[c] = call[c] =>
           sock'[call[c].socket] = "connecting"
    BY <1>1, <1>3
  <2>3. \A d \in Demuxes : dmx[d].used => dmx'[d].used
    BY <1>4
  <2> QED
    BY <1>1, <1>3, <2>1, <2>2, <2>3, HoldersKept
<1>6. InUse'
  <2>1. ASSUME NEW d \in Demuxes
        PROVE  /\ ~(dmx'[d].used /\ ~dmx'[d].stopped)
               /\ ~dmx'[d].used => ~dmx'[d].stopped /\ ~dmx'[d].readerActive
    <3>1. /\ dmx[d].used /\ ~dmx[d].stopped => d = demux
          /\ ~dmx[d].used => ~dmx[d].stopped /\ ~dmx[d].readerActive
      BY DEF BaseInv, InUse
    <3>2. demux = d => dmx[d].used
      BY Kinds DEF BaseInv, InUse
    <3>3. CASE d = demux
      BY <1>4, <3>2, <3>3
    <3>4. CASE d # demux
      BY <1>4, <3>1, <3>4
    <3> QED
      BY <3>3, <3>4
  <2>2. \A r \in readers' : sock'[r[2]] \in Started
    BY <1>2, <1>3, SocketFacts
  <2> QED
    BY <1>1, <2>1, <2>2 DEF InUse
<1>7. Room'
  <2>1. OnceBegun /\ call'[x].pc # "idle"
    BY <1>1 DEF OnceBegun, Falls
  <2> QED
    BY <1>1, <1>4, <2>1, RoomLeft DEF BaseInv
<1> QED
  BY <1>1, <1>5, <1>6, <1>7 DEF BaseInv

LEMMA BaseStep == BaseInv /\ [Next]_vars => BaseInv'
<1> SUFFICES ASSUME BaseInv, [Next]_vars PROVE BaseInv'
  OBVIOUS
<1>1. ASSUME NEW o \in Ops, OpStep(o) PROVE BaseInv'
  <2>1. o \in Calls
    BY Kinds
  <2>2. CASE Timeout(o) \/ WriteFails(o)
    <3>1. UNCHANGED <<socket, demux, sock, readers>>
      BY <2>2 DEF Timeout, WriteFails
    <3> QED
      BY <2>2, <3>1, TimeoutMoves, BaseServes DEF Abandons, SameReader
  <2> QED
    BY <1>1, <2>1, <2>2, BaseQuiet, BaseBegins, BaseSend DEF OpStep
<1>2. ASSUME NEW c \in Ops \cup Reconnects, Connecting(c) PROVE BaseInv'
  <2>1. c \in Calls
    BY Kinds
  <2> QED
    BY <1>2, <2>1, BaseQuiet, BaseConnectDone DEF Connecting
<1>3. ASSUME NEW d \in Demuxes, NEW s \in Sockets, ReaderFails(d, s) PROVE BaseInv'
  <2>1. demux' = demux /\ readers' \subseteq readers /\ <<d, s>> \in readers
    BY <1>3 DEF ReaderFails
  <2>2. sock[s] \in Started /\ "destroyed" \in Started
    BY <2>1, SocketFacts
  <2>3. \A t \in Sockets : \/ sock'[t] = sock[t]
                           \/ sock[t] \in Started /\ sock'[t] \in Started
    BY <1>3, <2>2, ReaderFailsMoves, SocketFacts, Kinds
  <2> QED
    BY <1>3, <2>1, <2>3, ReaderFailsMoves, BaseServes
<1>4. ASSUME NEW d \in Demuxes, NEW s \in Sockets, NEW p \in packets, Reply(d, s, p) PROVE BaseInv'
  <2>1. UNCHANGED <<socket, demux, sock>> /\ readers' \subseteq readers
    BY <1>4 DEF Reply
  <2> QED
    BY <1>4, <2>1, ReplyMoves, BaseServes DEF Abandons, SameReader
<1>5. ASSUME NEW s \in Sockets, PeerCloses(s) PROVE BaseInv'
  <2>1. /\ sock[s] = "open" /\ sock' = Destroy(s)
        /\ UNCHANGED <<redial, socket, demux, connectionError, dmx, readers, call, packets, answer>>
    BY <1>5 DEF PeerCloses
  <2>2. /\ sock' \in [Sockets -> SocketStates] /\ "open" \in Started /\ "destroyed" \in Started
        /\ \A t \in Sockets : sock'[t] = IF t = s THEN "destroyed" ELSE sock[t]
    BY <2>1, SocketFacts DEF Destroy, SocketStates
  <2>3. TypeOK /\ Locks
    BY DEF BaseInv
  <2>4. Locks'
    BY <2>1, <2>3, LocksKept DEF Aloof
  <2>5. TypeOK'
    BY <2>1, <2>2, <2>3, <2>4, Types, Retyped
  <2>6. \A c \in Calls : Falls(c)
    BY <2>1 DEF Falls
  <2> QED
    BY <2>1, <2>2, <2>4, <2>5, <2>6, BaseServes
<1>6. ASSUME NEW x \in Closes, close(x) PROVE BaseInv'
  BY <1>6, Kinds, BaseStop
<1>7. ASSUME NEW r \in Reconnects, reconnect(r) PROVE BaseInv'
  BY <1>7, Kinds, BaseStop
<1>8. CASE UNCHANGED vars
  <2>1. UNCHANGED <<redial, socket, demux, connectionError, sock, dmx, readers, call, packets, answer>>
    BY <1>8 DEF vars
  <2>2. TypeOK' /\ Locks'
    BY <2>1, LocksKept DEF BaseInv, TypeOK, Aloof
  <2> QED
    BY <2>1, <2>2, BaseServes DEF Falls
<1> QED
  BY <1>1, <1>2, <1>3, <1>4, <1>5, <1>6, <1>7, <1>8 DEF Next

LEMMA BaseInvariant == Spec => []BaseInv
  BY BaseInit, BaseStep, PTL DEF Spec

\* Every variable keeps its type, and whoever waits for a reply has the lock.
THEOREM TypeCorrect == Spec => []TypeOK
<1>1. BaseInv => TypeOK
  BY DEF BaseInv
<1> QED
  BY <1>1, BaseInvariant, PTL
-----------------------------------------------------------------------------
(* Readers *)

\* The reader a demux counts on is there while its socket lives, and so is one
\* for each operation that sends or waits.
Reads ==
    /\ \A d \in Demuxes, t \in Sockets :
         /\ dmx[d].readerActive /\ dmx[d].readerSocket = t
         /\ ~dmx[d].stopped /\ sock[t] # "destroyed"
         => <<d, t>> \in readers
    /\ \A o \in Ops :
         /\ call[o].pc \in OnSocket
         /\ ~dmx[call[o].demux].stopped /\ sock[call[o].socket] # "destroyed"
         => <<call[o].demux, call[o].socket>> \in readers

LEMMA ReadsKept ==
    ASSUME BaseInv, Reads, NEW x,
           \A c \in Calls : c # x => Falls(c),
           x \in Ops /\ call'[x].pc \in OnSocket =>
              <<call'[x].demux, call'[x].socket>> \in readers' \/ call'[x] = call[x],
           \A t \in Sockets : sock[t] = "destroyed" => sock'[t] = "destroyed",
           \A d \in Demuxes : dmx[d].stopped => dmx'[d].stopped,
           \A d \in Demuxes : dmx'[d].readerActive /\ ~dmx'[d].stopped =>
              \/ dmx[d].readerActive /\ dmx'[d].readerSocket = dmx[d].readerSocket
              \/ <<d, dmx'[d].readerSocket>> \in readers',
           \A d \in Demuxes, t \in Sockets : <<d, t>> \in readers =>
              <<d, t>> \in readers' \/ dmx'[d].stopped \/ sock'[t] = "destroyed"
    PROVE  Reads'
<1>1. ASSUME NEW d \in Demuxes, NEW t \in Sockets,
             dmx'[d].readerActive, dmx'[d].readerSocket = t,
             ~dmx'[d].stopped, sock'[t] # "destroyed"
      PROVE  <<d, t>> \in readers'
  <2>1. CASE dmx[d].readerActive /\ dmx[d].readerSocket = t
    <3>1. <<d, t>> \in readers
      BY <1>1, <2>1 DEF Reads
    <3> QED
      BY <1>1, <3>1
  <2> QED
    BY <1>1, <2>1
<1>2. ASSUME NEW o \in Ops, call'[o].pc \in OnSocket,
             ~dmx'[call'[o].demux].stopped, sock'[call'[o].socket] # "destroyed"
      PROVE  <<call'[o].demux, call'[o].socket>> \in readers'
  <2>1. CASE call'[o] = call[o]
    <3>1. o \in Calls
      BY Kinds
    <3>2. call[o].demux \in Demuxes /\ call[o].socket \in Sockets
      BY <1>2, <2>1, <3>1 DEF BaseInv, Locks, InQueue
    <3>3. <<call[o].demux, call[o].socket>> \in readers
      BY <1>2, <2>1, <3>2 DEF Reads
    <3> QED
      BY <1>2, <2>1, <3>2, <3>3
  <2>2. CASE call'[o] # call[o]
    BY <1>2, <2>2, Kinds DEF Falls, OnSocket
  <2> QED
    BY <2>1, <2>2
<1> QED
  BY <1>1, <1>2 DEF Reads

LEMMA ReadsTaken ==
    ASSUME BaseInv, Reads, NEW d \in Demuxes, NEW t \in Sockets,
           ~dmx[d].stopped, sock[t] # "destroyed"
    PROVE  <<d, t>> \in StartReader(d, t) /\ readers \subseteq StartReader(d, t)
  BY DEF StartReader, Reads

LEMMA ReadsStep == BaseInv /\ Reads /\ [Next]_vars => Reads'
<1> SUFFICES ASSUME BaseInv, Reads, [Next]_vars PROVE Reads'
  OBVIOUS
<1>0. /\ dmx \in [Demuxes -> DemuxStates] /\ sock \in [Sockets -> SocketStates]
      /\ socket \in Sockets \cup {None} /\ None \notin Sockets
  BY Types, Kinds DEF BaseInv
<1>1. ASSUME NEW c \in Calls, \/ c \in Ops /\ (Refused(c) \/ Catch(c))
                              \/ ConnectFails(c)
      PROVE  Reads'
  <2>1. readers' = readers /\ dmx' = dmx /\ call'[c].pc = "done"
        /\ (\A b \in Calls : b # c => call'[b] = call[b])
        /\ \A t \in Sockets : sock'[t] = sock[t] \/ sock'[t] = "destroyed"
    BY <1>1, QuietMoves DEF Refused, Catch, ConnectFails
  <2> QED
    BY <2>1, ReadsKept DEF Falls, OnSocket
<1>2. ASSUME NEW o \in Ops, Send(o) \/ Written(o) PROVE Reads'
  <2>1. /\ UNCHANGED <<sock, readers>> /\ \A d \in Demuxes : SameReader(d)
        /\ \A c \in Calls : c # o => call'[c] = call[c]
        /\ call'[o].demux = call[o].demux /\ call'[o].socket = call[o].socket
        /\ call[o].pc \in OnSocket /\ call[o].demux \in Demuxes /\ call[o].socket \in Sockets
    <3>1. CASE Send(o)
      BY <3>1, SendMoves DEF Send, OnSocket
    <3>2. CASE Written(o)
      BY <3>2, WrittenMoves DEF Written, OnSocket
    <3> QED
      BY <1>2, <3>1, <3>2
  <2>2. \A d \in Demuxes, t \in Sockets :
           dmx'[d].readerActive /\ dmx'[d].readerSocket = t
           /\ ~dmx'[d].stopped /\ sock'[t] # "destroyed" => <<d, t>> \in readers'
    BY <2>1 DEF Reads, SameReader
  <2>3. \A b \in Ops : call'[b].demux = call[b].demux /\ call'[b].socket = call[b].socket
                       /\ (call'[b].pc \in OnSocket => call[b].pc \in OnSocket)
    BY <2>1, Kinds DEF OnSocket
  <2>4. ASSUME NEW b \in Ops, call'[b].pc \in OnSocket,
               ~dmx'[call'[b].demux].stopped, sock'[call'[b].socket] # "destroyed"
        PROVE  <<call'[b].demux, call'[b].socket>> \in readers'
    <3>1. call[b].pc \in OnSocket /\ b \in Calls
      BY <2>3, <2>4, Kinds
    <3>2. call[b].demux \in Demuxes
      BY <3>1 DEF BaseInv, Locks, InQueue
    <3>3. ~dmx[call[b].demux].stopped
      BY <2>1, <2>3, <2>4, <3>2 DEF SameReader
    <3> QED
      BY <2>1, <2>3, <2>4, <3>1, <3>3 DEF Reads
  <2> QED
    BY <2>2, <2>4 DEF Reads
<1>3. ASSUME NEW o \in Ops, Timeout(o) \/ WriteFails(o) PROVE Reads'
  <2>1. UNCHANGED <<sock, readers>>
    BY <1>3 DEF Timeout, WriteFails
  <2>2. /\ \A c \in Calls : Falls(c)
        /\ \A d \in Demuxes : /\ dmx[d].stopped => dmx'[d].stopped
                              /\ dmx'[d].readerActive => dmx[d].readerActive
                              /\ dmx'[d].readerSocket = dmx[d].readerSocket
    BY <1>3, TimeoutMoves DEF Abandons, SameReader
  <2>3. o \in Calls => (call'[o].pc \in OnSocket => call'[o] = call[o])
    BY <2>2 DEF Falls, OnSocket
  <2> QED
    BY <2>1, <2>2, <2>3, Kinds, ReadsKept
<1>4. ASSUME NEW d \in Demuxes, NEW s \in Sockets, NEW p \in packets, Reply(d, s, p) PROVE Reads'
  <2>1. sock' = sock /\ readers' = IF dmx[d].stopped THEN readers \ {<<d, s>>} ELSE readers
    BY <1>4 DEF Reply
  <2>2. /\ \A c \in Calls : Falls(c)
        /\ \A e \in Demuxes : /\ dmx[e].stopped => dmx'[e].stopped
                              /\ dmx'[e].readerActive => dmx[e].readerActive
                              /\ dmx'[e].readerSocket = dmx[e].readerSocket
    BY <1>4, ReplyMoves DEF Abandons, SameReader
  <2>3. \A e \in Demuxes, t \in Sockets :
           <<e, t>> \in readers => <<e, t>> \in readers' \/ dmx'[e].stopped
    BY <2>1, <2>2
  <2>4. None \in Ops => (call'[None].pc \in OnSocket => call'[None] = call[None])
    BY <2>2, Kinds DEF Falls, OnSocket
  <2> QED
    BY <2>1, <2>2, <2>3, <2>4, ReadsKept
<1>5. ASSUME NEW d \in Demuxes, NEW s \in Sockets, ReaderFails(d, s) PROVE Reads'
  <2>1. readers' = readers \ {<<d, s>>}
    BY <1>5 DEF ReaderFails
  <2>2. /\ \A c \in Calls : Falls(c)
        /\ \A e \in Demuxes : /\ dmx[e].stopped => dmx'[e].stopped
                              /\ dmx'[e].readerActive => dmx[e].readerActive
                              /\ dmx'[e].readerSocket = dmx[e].readerSocket
        /\ sock'[s] = "destroyed"
        /\ \A t \in Sockets : sock'[t] = sock[t] \/ sock'[t] = "destroyed"
    BY <1>5, ReaderFailsMoves
  <2>3. \A e \in Demuxes, t \in Sockets :
           <<e, t>> \in readers => <<e, t>> \in readers' \/ sock'[t] = "destroyed"
    BY <2>1, <2>2
  <2>4. None \in Ops => (call'[None].pc \in OnSocket => call'[None] = call[None])
    BY <2>2, Kinds DEF Falls, OnSocket
  <2> QED
    BY <2>2, <2>3, <2>4, ReadsKept
<1>6. ASSUME NEW s \in Sockets, PeerCloses(s) PROVE Reads'
  <2>1. /\ UNCHANGED <<dmx, readers, call>>
        /\ \A t \in Sockets : sock'[t] = sock[t] \/ sock'[t] = "destroyed"
    BY <1>0, <1>6 DEF PeerCloses, Destroy
  <2> QED
    BY <2>1, ReadsKept DEF Falls
<1>7. ASSUME NEW x \in Closes \cup Reconnects, close(x) \/ reconnect(x),
             x \in Closes => close(x), x \in Reconnects => reconnect(x)
      PROVE  Reads'
  <2>1. /\ dmx' = Stopped /\ \A c \in Calls : c # x => Falls(c)
        /\ \/ sock' = SocketClosed
           \/ /\ call'[x].socket \in Sockets /\ sock[call'[x].socket] = "unused"
              /\ sock' = [SocketClosed EXCEPT ![call'[x].socket] = "connecting"]
    BY <1>7, StopMoves
  <2>2. readers' = readers /\ x \notin Ops
    BY <1>7, Kinds DEF close, reconnect
  <2>3. \A d \in Demuxes : /\ dmx[d].stopped => dmx'[d].stopped
                           /\ dmx'[d].readerActive => dmx' [d] = dmx[d]
    <3> SUFFICES ASSUME NEW d \in Demuxes
                 PROVE  /\ dmx[d].stopped => dmx'[d].stopped
                        /\ dmx'[d].readerActive => dmx' [d] = dmx[d]
      OBVIOUS
    <3>1. CASE d = demux
      BY <2>1, <3>1, StopIs
    <3>2. CASE d # demux
      BY <2>1, <3>2, StopIs
    <3> QED
      BY <3>1, <3>2
  <2>4. \A t \in Sockets : sock[t] = "destroyed" => sock'[t] = "destroyed"
    <3>1. /\ SocketClosed \in [Sockets -> SocketStates]
          /\ \A t \in Sockets : sock[t] = "destroyed" => SocketClosed[t] = "destroyed"
      BY StopIs
    <3> QED
      BY <2>1, <3>1
  <2> QED
    BY <2>1, <2>2, <2>3, <2>4, ReadsKept
<1>8. ASSUME NEW o \in Ops, BeginOnSocket(o) PROVE Reads'
  <2>1. PICK d \in Demuxes :
             /\ ~dmx[d].stopped /\ readers' = StartReader(d, socket)
             /\ \A e \in Demuxes : e # d => dmx'[e] = dmx[e]
             /\ ~dmx'[d].stopped /\ dmx'[d].readerSocket = socket
             /\ call'[o].demux = d /\ call'[o].socket = socket
             /\ socket \in Sockets /\ sock[socket] = "open"
             /\ \A c \in Calls : c # o => call'[c] = call[c]
    BY <1>8, BeginOnSocketMoves
  <2>2. sock' = sock
    BY <1>8 DEF BeginOnSocket
  <2>3. <<d, socket>> \in readers' /\ readers \subseteq readers'
    BY <2>1, ReadsTaken
  <2> QED
    BY <2>1, <2>2, <2>3, ReadsKept DEF Falls
<1>9. ASSUME NEW o \in Ops, BeginDial(o) PROVE Reads'
  <2>1. PICK d \in Demuxes :
             /\ ~dmx[d].stopped
             /\ \A e \in Demuxes : e # d => dmx'[e] = dmx[e]
             /\ dmx'[d].readerActive =>
                  dmx[d].readerActive /\ dmx'[d].readerSocket = dmx[d].readerSocket
             /\ \A c \in Calls : c # o => Falls(c)
             /\ \/ /\ call'[o].pc = "connecting"
                   /\ call'[o].socket \in Sockets /\ sock[call'[o].socket] = "unused"
                   /\ sock' = [sock EXCEPT ![call'[o].socket] = "connecting"]
                \/ call'[o].pc = "failing" /\ sock' = sock
    BY <1>9, BeginDialMoves
  <2>2. readers' = readers
    BY <1>9 DEF BeginDial
  <2>3. \A t \in Sockets : sock[t] = "destroyed" => sock'[t] = "destroyed"
    BY <1>0, <2>1
  <2>4. call'[o].pc \notin OnSocket
    BY <2>1 DEF OnSocket
  <2> QED
    BY <2>1, <2>2, <2>3, <2>4, ReadsKept
<1>10. ASSUME NEW b \in Ops \cup Reconnects, ConnectDone(b) PROVE Reads'
  <2>1. call[b].pc = "connecting" /\ sock' = [sock EXCEPT ![call[b].socket] = "open"]
    BY <1>10, ConnectDoneMoves
  <2>2. PICK d \in Demuxes :
             /\ ~dmx[d].stopped /\ socket' = call[b].socket /\ readers' = StartReader(d, socket')
             /\ \A e \in Demuxes : e # d => dmx'[e] = dmx[e]
             /\ ~dmx'[d].stopped /\ dmx'[d].readerSocket = socket'
             /\ \A c \in Calls : c # b => call'[c] = call[c]
             /\ call'[b].demux = call[b].demux /\ call'[b].socket = call[b].socket
             /\ \/ call'[b].pc = "done"
                \/ b \in Ops /\ call'[b].pc = "failing"
                \/ b \in Ops /\ call'[b].pc = "queued" /\ call[b].demux = d
    BY <1>10, ConnectDoneMoves
  <2>3. call[b].socket \in Sockets /\ sock[call[b].socket] = "connecting"
    BY <2>1, Kinds, SocketFacts
  <2>4. <<d, call[b].socket>> \in readers' /\ readers \subseteq readers'
    BY <2>2, <2>3, ReadsTaken
  <2>5. \A t \in Sockets : sock[t] = "destroyed" => sock'[t] = "destroyed"
    BY <1>0, <2>1, <2>3
  <2>6. b \in Ops /\ call'[b].pc \in OnSocket => <<call'[b].demux, call'[b].socket>> \in readers'
    BY <2>2, <2>4 DEF OnSocket
  <2> QED
    BY <2>2, <2>4, <2>5, <2>6, ReadsKept DEF Falls
<1>11. CASE UNCHANGED vars
  BY <1>11 DEF vars, Reads
<1>12. Ops \subseteq Calls /\ Reconnects \subseteq Calls /\ Closes \cap Reconnects = {}
  BY Kinds
<1> QED
  BY <1>1, <1>2, <1>3, <1>4, <1>5, <1>6, <1>7, <1>8, <1>9, <1>10, <1>11, <1>12
  DEF Next, OpStep, Connecting

\* While an operation waits on an open socket, a reader loop of its demux reads
\* it, whichever socket the demux was last told of, until the demux is stopped.
THEOREM ReplyIsReadSafe == Spec => []ReplyIsRead
<1>1. Init => Reads
  BY Kinds DEF Init, Reads, OnSocket
<1>2. BaseInv /\ Reads => ReplyIsRead
  BY DEF Reads, ReplyIsRead, At, OnSocket
<1> QED
  BY <1>1, <1>2, BaseInvariant, ReadsStep, PTL DEF Spec
-----------------------------------------------------------------------------
(* A service made from a socket *)

\* It has no other socket and opens none.
Alone ==
    /\ \A c \in Calls : call[c].pc # "connecting"
    /\ \A t \in Sockets : t # 1 => sock[t] = "unused"
    /\ socket \in {None, 1}
    /\ \A o \in Ops : call[o].pc \in OnSocket => call[o].socket = 1

\* While that socket lives one demux has all the operations, and no two packets
\* of one number are on it.
Numbered ==
    /\ socket = 1 /\ ~connectionError
    /\ \A o \in Ops : call[o].pc \in OnSocket => call[o].demux = demux
    /\ demux = None => packets = {}
    /\ demux # None =>
         /\ \A p \in packets :
              /\ p.num < dmx[demux].packetNum
              /\ \A w \in dmx[demux].pending : p.num = w.num => p.op = w.op
         /\ \A o \in Ops : call[o].pc = "writing" => call[o].num < dmx[demux].packetNum

Given ==
    ~redial => /\ Alone /\ (sock[1] = "open" => Numbered)
               /\ \A o \in Ops : answer[o] \in {None, o}
GivenInv == BaseInv /\ Given

LEMMA GivenInit == Init => Given
<1> SUFFICES ASSUME Init, ~redial PROVE Given
  BY DEF Given
<1>1. Alone
  BY Kinds DEF Init, Alone, OnSocket
<1>2. Numbered
  BY Kinds DEF Init, Numbered, OnSocket
<1> QED
  BY <1>1, <1>2 DEF Init, Given

\* A step of x that opens no socket.
LEMMA AloneKept ==
    ASSUME BaseInv, Alone, NEW x,
           \A c \in Calls : c # x => Falls(c),
           x \in Calls => \/ call'[x].pc \in {"done", "failing"}
                          \/ call'[x].pc \in OnSocket /\ call'[x].socket = 1
                          \/ call'[x] = call[x],
           socket' \in {socket, None},
           \A t \in Sockets : sock'[t] = sock[t] \/ sock[t] \in Started
    PROVE  Alone'
<1>1. ASSUME NEW c \in Calls
      PROVE  /\ call'[c].pc # "connecting"
             /\ c \in Ops /\ call'[c].pc \in OnSocket => call'[c].socket = 1
  BY DEF Alone, Falls, OnSocket
<1>2. \A t \in Sockets : t # 1 => sock'[t] = "unused"
  BY SocketFacts DEF Alone
<1>3. socket' \in {None, 1}
  BY DEF Alone
<1> QED
  BY <1>1, <1>2, <1>3, Kinds DEF Alone

\* A step that serves or rejects.
LEMMA NumberedKept ==
    ASSUME BaseInv, Numbered, \A c \in Calls : Falls(c),
           UNCHANGED <<socket, demux, connectionError>>, packets' \subseteq packets,
           \A d \in Demuxes : /\ dmx'[d].packetNum = dmx[d].packetNum
                              /\ dmx'[d].pending \subseteq dmx[d].pending
    PROVE  Numbered'
<1>1. demux \in Demuxes \cup {None}
  BY Types DEF BaseInv
<1>2. \A o \in Ops : call'[o].pc \in OnSocket => call'[o].demux = demux'
  BY Kinds DEF Numbered, Falls, OnSocket
<1>3. demux' # None => \A p \in packets' :
         /\ p.num < dmx'[demux'].packetNum
         /\ \A w \in dmx'[demux'].pending : p.num = w.num => p.op = w.op
  BY <1>1 DEF Numbered
<1>4. demux' # None =>
        \A o \in Ops : call'[o].pc = "writing" => call'[o].num < dmx'[demux'].packetNum
  BY <1>1, Kinds DEF Numbered, Falls
<1> QED
  BY <1>2, <1>3, <1>4 DEF Numbered

LEMMA GivenBegins ==
    ASSUME GivenInv, ~redial, NEW o \in Ops, BeginOnSocket(o) \/ BeginDial(o)
    PROVE  Given'
<1>0. BaseInv /\ Alone /\ (sock[1] = "open" => Numbered) /\ o \in Calls /\ 1 \in Sockets
  BY Kinds, Counts DEF GivenInv, Given
<1>1. CASE BeginOnSocket(o)
  <2>1. PICK d \in Demuxes :
             /\ NextDemux(d) /\ demux' = d
             /\ dmx'[d].pending = dmx[d].pending /\ dmx'[d].packetNum = dmx[d].packetNum
             /\ call'[o].pc = "queued" /\ call'[o].demux = d /\ call'[o].socket = socket
             /\ socket \in Sockets /\ sock[socket] = "open"
             /\ \A c \in Calls : c # o => call'[c] = call[c]
    BY <1>0, <1>1, BeginOnSocketMoves
  <2>2. UNCHANGED <<redial, socket, connectionError, sock, packets, answer>>
    BY <1>1 DEF BeginOnSocket
  <2>3. socket = 1 /\ Numbered
    BY <1>0, <2>1, Kinds DEF Alone
  <2>4. Alone'
    BY <1>0, <2>1, <2>2, <2>3, AloneKept DEF Falls, OnSocket
  <2>5. Numbered'
    <3>1. CASE demux # None
      <4>1. d = demux
        BY <2>1, <3>1 DEF NextDemux
      <4> QED
        BY <2>1, <2>2, <2>3, <3>1, <4>1, Kinds DEF Numbered
    <3>2. CASE demux = None
      <4>1. \A b \in Ops : call[b].pc \notin OnSocket
        <5>1. \A b \in Ops : call[b].pc \in OnSocket => call[b].demux \in Demuxes
          BY <1>0, Kinds DEF BaseInv, Locks, InQueue
        <5> QED
          BY <2>3, <3>2, <5>1, Kinds DEF Numbered
      <4>2. /\ \A b \in Ops : call'[b].pc \in OnSocket => call'[b].demux = d
            /\ \A b \in Ops : call'[b].pc # "writing"
        BY <2>1, <4>1, Kinds DEF OnSocket
      <4> QED
        BY <2>1, <2>2, <2>3, <3>2, <4>2 DEF Numbered
    <3> QED
      BY <3>1, <3>2
  <2> QED
    BY <2>2, <2>4, <2>5 DEF Given, GivenInv
<1>2. CASE BeginDial(o)
  <2>1. /\ socket' = None /\ ~usable /\ UNCHANGED <<redial, answer>>
    BY <1>2 DEF BeginDial
  <2>2. /\ call'[o].pc = "failing" /\ sock' = sock
        /\ \A c \in Calls : c # o => Falls(c)
    BY <1>0, <1>2, BeginDialMoves
  <2>3. sock[1] # "open"
    BY <1>0, <2>1, Kinds DEF Numbered, usable
  <2>4. Alone'
    BY <1>0, <2>1, <2>2, AloneKept
  <2> QED
    BY <2>1, <2>2, <2>3, <2>4 DEF Given, GivenInv
<1> QED
  BY <1>1, <1>2

LEMMA GivenSend ==
    ASSUME GivenInv, ~redial, NEW o \in Ops, Send(o)
    PROVE  Given'
<1>0. BaseInv /\ Alone /\ (sock[1] = "open" => Numbered) /\ o \in Calls
  BY Kinds DEF GivenInv, Given
<1> DEFINE d == call[o].demux
<1> DEFINE s == call[o].socket
<1> DEFINE n == dmx[d].packetNum
<1>1. UNCHANGED <<redial, socket, demux, connectionError, sock, readers, packets, answer>>
  BY DEF Send
<1>2. /\ call[o].pc = "queued" /\ \A c \in Calls : c # o => call'[c] = call[c]
      /\ call'[o].demux = d /\ call'[o].socket = s /\ d \in Demuxes
      /\ dmx'[d].packetNum = n + 1
      /\ \/ /\ sock[s] = "open" /\ call'[o].pc = "writing" /\ call'[o].num = n
            /\ dmx'[d].pending = {[num |-> n, op |-> o]}
         \/ /\ call'[o].pc = "failing" /\ dmx'[d].pending = dmx[d].pending
  BY <1>0, SendMoves
<1>3. /\ s = 1 /\ n \in Nat /\ packets \subseteq PacketSet
      /\ \A b \in Ops : call[b].num \in Nat
  <2>1. dmx[d] \in DemuxStates
    BY <1>0, <1>2, Types DEF BaseInv
  <2>2. \A b \in Ops : call[b] \in CallStates
    BY Types, Kinds DEF GivenInv, BaseInv
  <2> QED
    BY <1>0, <1>2, <2>1, <2>2, Types DEF BaseInv, Alone, OnSocket, DemuxStates, CallStates
<1>4. Alone'
  BY <1>0, <1>1, <1>2, <1>3, AloneKept DEF Falls, OnSocket
<1>5. ASSUME sock[1] = "open" PROVE Numbered'
  <2>1. Numbered
    BY <1>0, <1>5
  <2>2. demux = d /\ demux # None
    BY <1>2, <2>1, Kinds DEF Numbered, OnSocket
  <2>3. \A b \in Ops : call'[b].pc \in OnSocket => call'[b].demux = demux'
    BY <1>1, <1>2, <2>1, <2>2, Kinds DEF Numbered, OnSocket
  <2>4. \A p \in packets : p.num \in Nat /\ p.num < n
    BY <1>3, <2>1, <2>2 DEF Numbered, PacketSet
  <2>5. \A p \in packets : p.num < n + 1 /\ p.num # n
    BY <1>3, <2>4
  <2>6. \A p \in packets, w \in dmx'[d].pending : p.num = w.num => p.op = w.op
    <3>1. CASE dmx'[d].pending = {[num |-> n, op |-> o]}
      BY <2>5, <3>1
    <3>2. CASE dmx'[d].pending = dmx[d].pending
      BY <2>1, <2>2, <3>2 DEF Numbered
    <3> QED
      BY <1>2, <3>1, <3>2
  <2>7. ASSUME NEW b \in Ops, call'[b].pc = "writing" PROVE call'[b].num < n + 1
    <3>1. CASE b = o
      BY <1>2, <1>3, <2>7, <3>1
    <3>2. CASE b # o
      <4>1. call'[b] = call[b]
        BY <1>2, <3>2, Kinds
      <4>2. call[b].num < n /\ call[b].num \in Nat
        BY <1>3, <2>1, <2>2, <2>7, <4>1 DEF Numbered
      <4> QED
        BY <1>3, <4>1, <4>2
    <3> QED
      BY <3>1, <3>2
  <2> QED
    BY <1>1, <1>2, <2>1, <2>2, <2>3, <2>5, <2>6, <2>7 DEF Numbered
<1> QED
  BY <1>1, <1>4, <1>5 DEF Given, GivenInv

\* A packet that goes out is that of the operation whose waiter is there, if any
\* is, and the connection is not marked dead.
LEMMA GivenWritten ==
    ASSUME GivenInv, ~redial, NEW o \in Ops, Written(o)
    PROVE  Given' /\ ~connectionError
<1>0. BaseInv /\ Alone /\ (sock[1] = "open" => Numbered) /\ o \in Calls
  BY Kinds DEF GivenInv, Given
<1> DEFINE d == call[o].demux
<1> DEFINE p == [socket |-> call[o].socket, num |-> call[o].num, op |-> o]
<1>1. UNCHANGED <<redial, socket, demux, connectionError, sock, readers, answer>>
  BY DEF Written
<1>2. /\ call[o].pc = "writing" /\ d \in Demuxes
      /\ \A c \in Calls : c # o => call'[c] = call[c]
      /\ \A e \in Demuxes : /\ dmx'[e].packetNum = dmx[e].packetNum
                            /\ dmx'[e].pending \subseteq dmx[e].pending
      /\ call'[o].demux = d /\ call'[o].socket = call[o].socket
      /\ sock[call[o].socket] = "open" /\ packets' = packets \cup {p}
      /\ \A w \in dmx[d].pending : w.op = o
      /\ call'[o].pc \in {"waiting", "failing", "done"}
  BY <1>0, WrittenMoves
<1>3. call[o].socket = 1 /\ Numbered
  BY <1>0, <1>2 DEF Alone, OnSocket
<1>4. Alone'
  BY <1>0, <1>1, <1>2, <1>3, AloneKept DEF Falls, OnSocket
<1>5. Numbered'
  <2>1. demux = d /\ demux # None
    BY <1>2, <1>3, Kinds DEF Numbered, OnSocket
  <2>2. \A b \in Ops : call'[b].pc \in OnSocket => call'[b].demux = demux'
    BY <1>1, <1>2, <1>3, <2>1, Kinds DEF Numbered, OnSocket
  <2>3. p.num < dmx[d].packetNum /\ p.op = o
    BY <1>2, <1>3, <2>1 DEF Numbered
  <2> HIDE DEF p
  <2>4. \A q \in packets' : /\ q.num < dmx'[d].packetNum
                            /\ \A w \in dmx'[d].pending : q.num = w.num => q.op = w.op
    <3> SUFFICES ASSUME NEW q \in packets'
                 PROVE  /\ q.num < dmx'[d].packetNum
                        /\ \A w \in dmx'[d].pending : q.num = w.num => q.op = w.op
      OBVIOUS
    <3>1. CASE q = p
      BY <1>2, <2>3, <3>1
    <3>2. CASE q \in packets
      BY <1>2, <1>3, <2>1, <3>2 DEF Numbered
    <3> QED
      BY <1>2, <3>1, <3>2
  <2>5. \A b \in Ops : call'[b].pc = "writing" => call'[b].num < dmx'[d].packetNum
    BY <1>2, <1>3, <2>1, Kinds DEF Numbered
  <2> QED
    BY <1>1, <1>3, <2>1, <2>2, <2>4, <2>5 DEF Numbered
<1> QED
  BY <1>1, <1>3, <1>4, <1>5 DEF Given, GivenInv, Numbered

LEMMA GivenReply ==
    ASSUME GivenInv, ~redial, NEW d \in Demuxes, NEW s \in Sockets, NEW p \in packets, Reply(d, s, p)
    PROVE  Given'
<1>0. BaseInv /\ Alone /\ (sock[1] = "open" => Numbered)
  BY DEF GivenInv, Given
<1>1. /\ UNCHANGED <<redial, socket, demux, connectionError, sock>>
      /\ sock[s] = "open" /\ packets' \subseteq packets
  BY DEF Reply
<1>2. s = 1 /\ Numbered
  BY <1>0, <1>1 DEF Alone
<1>3. /\ \A c \in Calls : Falls(c)
      /\ \A e \in Demuxes : /\ dmx'[e].packetNum = dmx[e].packetNum
                            /\ dmx'[e].pending \subseteq dmx[e].pending
      /\ \A o \in Ops : \/ answer'[o] = answer[o]
                        \/ \E w \in dmx[d].pending :
                             w.num = p.num /\ w.op = o /\ answer'[o] = p.op
  BY <1>0, ReplyMoves DEF Abandons
<1>4. Numbered'
  BY <1>0, <1>1, <1>2, <1>3, NumberedKept
<1>5. Alone'
  <2>1. None \in Calls =>
           call'[None] = call[None] \/ call'[None].pc \in {"done", "failing"}
    BY <1>3 DEF Falls
  <2> QED
    BY <1>0, <1>1, <1>3, <2>1, AloneKept
<1>6. \A w \in dmx[d].pending : w.num = p.num => p.op = w.op
  <2> SUFFICES ASSUME NEW w \in dmx[d].pending, w.num = p.num PROVE p.op = w.op
    OBVIOUS
  <2>1. w.op \in Ops /\ call[w.op].pc \in Sent /\ call[w.op].demux = d
    BY <1>0, QueueMembers DEF BaseInv
  <2>2. d = demux /\ demux # None
    BY <1>2, <2>1, Kinds DEF Numbered, OnSocket
  <2> QED
    BY <1>2, <2>2 DEF Numbered
<1> QED
  BY <1>1, <1>3, <1>4, <1>5, <1>6 DEF Given, GivenInv

\* A step that serves or rejects opens no socket.
LEMMA AloneFalls ==
    ASSUME BaseInv, Alone, \A c \in Calls : Falls(c),
           socket' \in {socket, None},
           \A t \in Sockets : sock'[t] = sock[t] \/ sock[t] \in Started
    PROVE  Alone'
<1>1. None \in Calls => call'[None] = call[None] \/ call'[None].pc \in {"done", "failing"}
  BY DEF Falls
<1> QED
  BY <1>1, AloneKept

\* What ends the connection: nothing is left to number.
LEMMA GivenEnds ==
    ASSUME GivenInv, ~redial, Alone', sock'[1] # "open", UNCHANGED answer
    PROVE  Given'
  BY DEF Given, GivenInv, Alone

\* An operation refused, or told of its error: it does nothing to a connection
\* that lives but mark it dead.
LEMMA GivenQuiet ==
    ASSUME GivenInv, ~redial, NEW o \in Ops, Refused(o) \/ Catch(o)
    PROVE  Given'
<1>0. BaseInv /\ Alone /\ (sock[1] = "open" => Numbered) /\ o \in Calls /\ 1 \in Sockets
  BY Kinds, Counts DEF GivenInv, Given
<1>1. /\ call'[o].pc = "done" /\ \A c \in Calls : c # o => call'[c] = call[c]
      /\ call[o].pc \in {"idle", "failing", "connecting"}
      /\ socket' \in {socket, None}
      /\ \A t \in Sockets :
           \/ sock'[t] = sock[t]
           \/ /\ sock'[t] = "destroyed"
              /\ t = socket \/ (t = call[o].socket /\ call[o].pc = "connecting")
  BY <1>0, QuietMoves
<1>2. \A t \in Sockets : sock'[t] = sock[t] \/ sock[t] \in Started
  BY <1>0, <1>1, SocketFacts, Kinds DEF Alone
<1>3. Alone'
  BY <1>0, <1>1, <1>2, AloneKept DEF Falls
<1>4. UNCHANGED <<redial, answer>>
  BY DEF Refused, Catch
<1>5. sock'[1] # "open"
  <2>1. CASE Refused(o)
    <3>1. connectionError /\ sock' = sock
      BY <2>1 DEF Refused
    <3> QED
      BY <1>0, <3>1 DEF Numbered
  <2>2. CASE Catch(o)
    <3>1. _markConnectionDead(sock)
      BY <2>2 DEF Catch
    <3>2. \A t \in Sockets : IF t = socket /\ ~connectionError THEN sock'[t] = "destroyed"
                             ELSE sock'[t] = sock[t]
      BY <1>0, <3>1, SocketFacts, DeadMoves
    <3>3. CASE sock[1] = "open"
      BY <1>0, <3>2, <3>3 DEF Numbered
    <3>4. CASE sock[1] # "open"
      BY <1>0, <3>2, <3>4
    <3> QED
      BY <3>3, <3>4
  <2> QED
    BY <2>1, <2>2
<1> QED
  BY <1>3, <1>4, <1>5, GivenEnds

LEMMA GivenTimeout ==
    ASSUME GivenInv, ~redial, NEW o \in Ops, Timeout(o) \/ WriteFails(o)
    PROVE  Given'
<1>0. BaseInv /\ Alone /\ (sock[1] = "open" => Numbered)
  BY DEF GivenInv, Given
<1>1. UNCHANGED <<redial, socket, demux, connectionError, sock, readers, packets, answer>>
  BY DEF Timeout, WriteFails
<1>2. /\ \A c \in Calls : Falls(c)
      /\ \A d \in Demuxes : /\ dmx'[d].packetNum = dmx[d].packetNum
                            /\ dmx'[d].pending \subseteq dmx[d].pending
  BY <1>0, TimeoutMoves DEF Abandons
<1>3. Alone'
  BY <1>0, <1>1, <1>2, AloneFalls
<1>4. sock[1] = "open" => Numbered'
  BY <1>0, <1>1, <1>2, NumberedKept
<1> QED
  BY <1>1, <1>3, <1>4 DEF Given, GivenInv

LEMMA GivenReaderFails ==
    ASSUME GivenInv, ~redial, NEW d \in Demuxes, NEW s \in Sockets, ReaderFails(d, s)
    PROVE  Given'
<1>0. BaseInv /\ Alone
  BY DEF GivenInv, Given
<1>1. <<d, s>> \in readers /\ UNCHANGED <<redial, answer>>
  BY DEF ReaderFails
<1>2. sock[s] \in Started /\ "unused" \notin Started
  BY <1>0, <1>1, SocketFacts
<1>3. s = 1
  BY <1>0, <1>2 DEF Alone
<1>4. /\ \A c \in Calls : Falls(c)
      /\ sock'[s] = "destroyed"
      /\ \A t \in Sockets : sock'[t] = sock[t] \/ (t \in {s, socket} /\ sock'[t] = "destroyed")
      /\ socket' = socket \/ socket' = None
  BY <1>0, ReaderFailsMoves
<1>5. \A t \in Sockets : sock'[t] = sock[t] \/ sock[t] \in Started
  BY <1>0, <1>2, <1>4, SocketFacts, Kinds
<1>6. Alone'
  BY <1>0, <1>4, <1>5, AloneFalls
<1> QED
  BY <1>1, <1>3, <1>4, <1>6, GivenEnds

LEMMA GivenPeerCloses ==
    ASSUME GivenInv, ~redial, NEW s \in Sockets, PeerCloses(s)
    PROVE  Given'
<1>0. BaseInv /\ Alone
  BY DEF GivenInv, Given
<1>1. /\ sock[s] = "open" /\ sock' = Destroy(s)
      /\ UNCHANGED <<redial, socket, demux, connectionError, dmx, readers, call, packets, answer>>
  BY DEF PeerCloses
<1>2. s = 1
  BY <1>0, <1>1 DEF Alone
<1>3. \A t \in Sockets : sock'[t] = IF t = s THEN "destroyed" ELSE sock[t]
  BY <1>0, <1>1, SocketFacts DEF Destroy
<1>4. Alone'
  BY <1>0, <1>1, <1>3, SocketFacts, AloneFalls DEF Falls
<1> QED
  BY <1>1, <1>2, <1>3, <1>4, GivenEnds

LEMMA GivenStops ==
    ASSUME GivenInv, ~redial, NEW x \in Closes \cup Reconnects, close(x) \/ reconnect(x),
           x \in Closes => close(x), x \in Reconnects => reconnect(x)
    PROVE  Given'
<1>0. BaseInv /\ Alone /\ (sock[1] = "open" => Numbered) /\ 1 \in Sockets
  BY Counts DEF GivenInv, Given
<1>1. /\ socket' = None
      /\ \A c \in Calls : c # x => Falls(c)
      /\ call'[x].pc = "done" /\ sock' = SocketClosed
  BY <1>0, StopMoves
<1>2. \A t \in Sockets : SocketClosed[t] = IF t = socket THEN "destroyed" ELSE sock[t]
  BY <1>0, StopIs
<1>3. UNCHANGED <<redial, answer>>
  BY DEF close, reconnect
<1>4. \A t \in Sockets : sock'[t] = sock[t] \/ sock[t] \in Started
  BY <1>0, <1>1, <1>2, SocketFacts, Kinds
<1>5. Alone'
  BY <1>0, <1>1, <1>4, AloneKept
<1>6. sock'[1] # "open"
  BY <1>0, <1>1, <1>2 DEF Numbered
<1> QED
  BY <1>3, <1>5, <1>6, GivenEnds

LEMMA RedialKept == [Next]_vars => redial' = redial
  BY DEF Next, vars, OpStep, Connecting, Refused, BeginOnSocket, BeginDial, ConnectDone,
         ConnectFails, Send, Written, WriteFails, Timeout, Catch, Reply, ReaderFails, PeerCloses, close, reconnect

LEMMA GivenStep == GivenInv /\ [Next]_vars => GivenInv'
<1> SUFFICES ASSUME GivenInv, [Next]_vars PROVE Given'
  BY BaseStep DEF GivenInv
<1>0. redial' = redial
  BY RedialKept
<1>1. CASE redial
  BY <1>0, <1>1 DEF Given
<1>2. CASE ~redial
  <2>1. ASSUME NEW o \in Ops, OpStep(o) PROVE Given'
    BY <1>2, <2>1, GivenQuiet, GivenBegins, GivenSend, GivenWritten, GivenTimeout DEF OpStep
  <2>2. ASSUME NEW c \in Ops \cup Reconnects, Connecting(c) PROVE Given'
    <3>1. call[c].pc = "connecting" /\ c \in Calls
      BY <2>2, Kinds DEF Connecting, ConnectDone, ConnectFails, At
    <3> QED
      BY <1>2, <3>1 DEF GivenInv, Given, Alone
  <2>3. ASSUME NEW d \in Demuxes, NEW s \in Sockets, ReaderFails(d, s) PROVE Given'
    BY <1>2, <2>3, GivenReaderFails
  <2>4. ASSUME NEW d \in Demuxes, NEW s \in Sockets, NEW p \in packets, Reply(d, s, p)
        PROVE  Given'
    BY <1>2, <2>4, GivenReply
  <2>5. ASSUME NEW s \in Sockets, PeerCloses(s) PROVE Given'
    BY <1>2, <2>5, GivenPeerCloses
  <2>6. ASSUME NEW x \in Closes, close(x) PROVE Given'
    BY <1>2, <2>6, Kinds, GivenStops
  <2>7. ASSUME NEW r \in Reconnects, reconnect(r) PROVE Given'
    BY <1>2, <2>7, Kinds, GivenStops
  <2>8. CASE UNCHANGED vars
    BY <2>8 DEF vars, GivenInv, Given, Alone, Numbered
  <2> QED
    BY <2>1, <2>2, <2>3, <2>4, <2>5, <2>6, <2>7, <2>8 DEF Next
<1> QED
  BY <1>1, <1>2

LEMMA GivenInvariant == Spec => []GivenInv
<1>1. Init => GivenInv
  BY BaseInit, GivenInit DEF GivenInv
<1> QED
  BY <1>1, GivenStep, PTL DEF Spec

\* An operation of a service made from a socket is given the reply to the packet
\* it sent, though replies of operations that timed out still arrive.
THEOREM OwnReplyOnSocketSafe == Spec => []OwnReplyOnSocket
<1>1. GivenInv => OwnReplyOnSocket
  BY DEF GivenInv, Given, OwnReplyOnSocket
<1> QED
  BY <1>1, GivenInvariant, PTL

\* Once the connection of a service made from a socket is marked dead, no
\* operation that was queued or writing gets another packet to the device.
THEOREM QuietAfterDeathSafe == Spec => QuietAfterDeath
<1>1. ASSUME GivenInv, [Next]_vars, ~redial, connectionError
      PROVE  packets' \subseteq packets
  <2>1. ASSUME NEW o \in Ops, OpStep(o) PROVE packets' \subseteq packets
    <3>1. CASE Written(o)
      BY <1>1, <3>1, GivenWritten
    <3> QED
      BY <2>1, <3>1 DEF OpStep, Refused, BeginOnSocket, BeginDial, Send, WriteFails, Timeout, Catch
  <2>2. ASSUME NEW c \in Ops \cup Reconnects, Connecting(c) PROVE packets' \subseteq packets
    BY <2>2 DEF Connecting, ConnectDone, ConnectFails
  <2>3. ASSUME NEW d \in Demuxes, NEW s \in Sockets,
               ReaderFails(d, s) \/ \E p \in packets : Reply(d, s, p)
        PROVE  packets' \subseteq packets
    BY <2>3 DEF ReaderFails, Reply
  <2>4. ASSUME NEW s \in Sockets, PeerCloses(s) PROVE packets' \subseteq packets
    BY <2>4 DEF PeerCloses
  <2>5. ASSUME NEW x \in Closes \cup Reconnects, close(x) \/ reconnect(x)
        PROVE  packets' \subseteq packets
    BY <2>5 DEF close, reconnect
  <2>6. CASE UNCHANGED vars
    BY <2>6 DEF vars
  <2> QED
    BY <1>1, <2>1, <2>2, <2>3, <2>4, <2>5, <2>6 DEF Next
<1>2. GivenInv /\ [Next]_vars => [~redial /\ connectionError => packets' \subseteq packets]_vars
  BY <1>1
<1> QED
  BY <1>2, GivenInvariant, PTL DEF Spec, QuietAfterDeath
-----------------------------------------------------------------------------
(* A service made from a socket answers each operation once *)

\* An operation sends one packet and settles when it is answered.
Once ==
    /\ \A p \in packets : call[p.op].pc \in {"waiting", "failing", "done"}
    /\ \A p, q \in packets : p.op = q.op => p = q
    /\ \A o \in Ops : answer[o] # None => call[o].pc = "done"
OnceInv == GivenInv /\ (~redial => Once)

\* What a step does to the operations: one begins to send, ...
NotSent == {"idle", "connecting", "queued"}
Others(o) == \A u \in Ops : u # o => call'[u] = call[u]
Asks(o) ==
    /\ call[o].pc = "queued" /\ call'[o].pc = "writing" /\ Others(o)
    /\ UNCHANGED <<packets, answer>>
\* ... one is answered, ...
Served(o) ==
    /\ call[o].pc = "waiting" /\ call'[o].pc = "done" /\ Others(o)
    /\ answer' = [answer EXCEPT ![o] = o]
    /\ \E p \in packets : p.op = o /\ packets' = packets \ {p}
\* ... or each goes on to its turn or its wait or is over, and no packet goes out
\* but that of one that ceases to send.
GoesOn(o) ==
    \/ call'[o].pc = call[o].pc \/ (call[o].pc \in NotSent /\ call'[o].pc \in NotSent)
    \/ call[o].pc = "writing" /\ call'[o].pc = "waiting"
    \/ call[o].pc # "done" /\ call'[o].pc \in {"failing", "done"}
Outgoing(p) ==
    /\ call[p.op].pc = "writing" /\ call'[p.op].pc # "writing"
    /\ packets' = packets \cup {p}
Unanswered ==
    /\ answer' = answer /\ \A o \in Ops : GoesOn(o)
    /\ packets' \subseteq packets \/ \E p \in PacketSet : Outgoing(p)

GivenUp == {o \in Ops : call[o].pc \notin {"failing", "done"} /\ call'[o].pc \in {"failing", "done"}}

LEMMA FallsGoesOn == ASSUME NEW o \in Ops, Falls(o) PROVE GoesOn(o)
  BY DEF Falls, GoesOn

LEMMA ReplyServes ==
    ASSUME GivenInv, Once, ~redial, NEW d \in Demuxes, NEW s \in Sockets, NEW p \in packets,
           Reply(d, s, p)
    PROVE  Unanswered \/ \E o \in Ops : Served(o)
<1> DEFINE W == Matching(d, p)
<1>0. BaseInv /\ TypeOK /\ Locks /\ Alone /\ (sock[1] = "open" => Numbered)
  BY DEF GivenInv, Given, BaseInv
<1>1. /\ packets' = packets \ {p} /\ call' = Goto(call, Awaiting(W), "done")
      /\ answer' = [o \in Ops |-> IF \E w \in W : w.op = o THEN p.op ELSE answer[o]]
      /\ sock[s] = "open"
  BY DEF Reply
<1>2. call \in [Calls -> CallStates] /\ answer \in [Ops -> Ops \cup {None}] /\ Ops \subseteq Calls
  BY <1>0, Types, Kinds
<1>3. Numbered
  BY <1>0, <1>1 DEF Alone
<1>4. \A c \in Calls : /\ c \in Awaiting(W) => call'[c].pc = "done"
                       /\ c \notin Awaiting(W) => call'[c] = call[c]
  BY <1>1, <1>2, GotoMoves DEF Stages
<1>5. CASE W = {}
  <2>1. Awaiting(W) = {}
    BY <1>5 DEF Awaiting
  <2>2. \A o \in Ops : call'[o] = call[o]
    BY <1>2, <1>4, <2>1
  <2>3. answer' = answer
    BY <1>1, <1>2, <1>5
  <2> QED
    BY <1>1, <2>2, <2>3 DEF Unanswered, GoesOn
<1>6. ASSUME NEW w \in W PROVE Served(w.op) /\ w.op \in Ops
  <2>1. w \in dmx[d].pending /\ w.num = p.num
    BY DEF Matching
  <2>2. w.op \in Ops /\ call[w.op].pc \in Sent /\ call[w.op].demux = d
    BY <1>0, <2>1, QueueMembers
  <2>3. W = {w}
    BY <1>0, <2>1 DEF Matching, Locks, Queue
  <2>4. d = demux /\ demux # None
    BY <1>3, <2>2, Kinds DEF Numbered, OnSocket
  <2>5. p.op = w.op
    BY <1>3, <2>1, <2>4 DEF Numbered
  <2>6. call[w.op].pc = "waiting"
    BY <2>2, <2>5 DEF Once
  <2>7. Awaiting(W) = {w.op}
    BY <2>3, <2>6 DEF Awaiting, At
  <2>8. call'[w.op].pc = "done" /\ Others(w.op)
    BY <1>2, <1>4, <2>2, <2>7 DEF Others
  <2>9. answer' = [answer EXCEPT ![w.op] = w.op]
    <3>1. \A o \in Ops : (\E v \in W : v.op = o) <=> o = w.op
      BY <2>3
    <3> QED
      BY <1>1, <1>2, <2>2, <2>5, <3>1
  <2> QED
    BY <1>1, <2>2, <2>5, <2>6, <2>8, <2>9 DEF Served
<1> QED
  BY <1>5, <1>6

LEMMA OperationSteps ==
    ASSUME GivenInv, Once, ~redial, [Next]_vars
    PROVE  Unanswered \/ \E o \in Ops : Asks(o) \/ Served(o)
<1>0. BaseInv /\ Alone /\ Ops \subseteq Calls /\ packets \subseteq PacketSet
  BY Types, Kinds DEF GivenInv, Given, BaseInv
<1>1. ASSUME NEW o \in Ops, OpStep(o) PROVE Unanswered \/ Asks(o)
  <2>1. CASE Refused(o) \/ Catch(o)
    <3>1. /\ call'[o].pc = "done" /\ call[o].pc # "done"
          /\ \A c \in Calls : c # o => call'[c] = call[c]
      BY <1>0, <2>1, QuietMoves DEF Refused, Catch, At
    <3>2. UNCHANGED <<packets, answer>>
      BY <2>1 DEF Refused, Catch
    <3> QED
      BY <1>0, <3>1, <3>2 DEF Unanswered, GoesOn
  <2>2. CASE BeginOnSocket(o)
    <3>1. call[o].pc = "idle" /\ UNCHANGED <<packets, answer>>
      BY <2>2 DEF BeginOnSocket, At
    <3>2. call'[o].pc = "queued" /\ \A c \in Calls : c # o => call'[c] = call[c]
      BY <1>0, <2>2, BeginOnSocketMoves
    <3> QED
      BY <1>0, <3>1, <3>2 DEF Unanswered, GoesOn, NotSent
  <2>3. CASE BeginDial(o)
    <3>1. call[o].pc = "idle" /\ UNCHANGED <<packets, answer>>
      BY <2>3 DEF BeginDial, At
    <3>2. call'[o].pc = "failing" /\ \A c \in Calls : c # o => Falls(c)
      BY <1>0, <2>3, BeginDialMoves
    <3>3. \A u \in Ops : GoesOn(u)
      BY <1>0, <3>1, <3>2, FallsGoesOn DEF GoesOn
    <3> QED
      BY <3>1, <3>3 DEF Unanswered
  <2>4. CASE Send(o)
    <3>1. /\ call[o].pc = "queued" /\ Others(o) /\ UNCHANGED <<packets, answer>>
          /\ call'[o].pc \in {"writing", "failing"}
      BY <1>0, <2>4, SendMoves DEF Others, Send
    <3>2. CASE call'[o].pc = "writing"
      BY <3>1, <3>2 DEF Asks
    <3>3. CASE call'[o].pc = "failing"
      BY <3>1, <3>3 DEF Unanswered, GoesOn, Others
    <3> QED
      BY <3>1, <3>2, <3>3
  <2>5. CASE Written(o)
    <3> DEFINE p == [socket |-> call[o].socket, num |-> call[o].num, op |-> o]
    <3>1. /\ call[o].pc = "writing" /\ Others(o) /\ packets' = packets \cup {p}
          /\ call'[o].pc \in {"waiting", "failing", "done"}
          /\ call[o].socket \in Sockets /\ call[o].num \in Nat
      BY <1>0, <2>5, WrittenMoves DEF Others
    <3>2. p \in PacketSet /\ p.op = o
      BY <3>1 DEF PacketSet
    <3> HIDE DEF p
    <3>3. Outgoing(p)
      BY <3>1, <3>2 DEF Outgoing
    <3>4. \A u \in Ops : GoesOn(u)
      BY <3>1 DEF GoesOn, Others
    <3>5. answer' = answer
      BY <2>5 DEF Written
    <3> QED
      BY <3>2, <3>3, <3>4, <3>5 DEF Unanswered
  <2>6. CASE Timeout(o) \/ WriteFails(o)
    <3>1. \A c \in Calls : Falls(c)
      BY <1>0, <2>6, TimeoutMoves DEF Abandons
    <3> QED
      BY <1>0, <2>6, <3>1, FallsGoesOn DEF Timeout, WriteFails, Unanswered
  <2> QED
    BY <1>1, <2>1, <2>2, <2>3, <2>4, <2>5, <2>6 DEF OpStep
<1>2. ASSUME NEW c \in Ops \cup Reconnects, Connecting(c) PROVE FALSE
  BY <1>0, <1>2, Kinds DEF Connecting, ConnectDone, ConnectFails, At, Alone
<1>3. ASSUME NEW d \in Demuxes, NEW s \in Sockets, ReaderFails(d, s) PROVE Unanswered
  <2>1. \A c \in Calls : Falls(c)
    BY <1>0, <1>3, ReaderFailsMoves
  <2> QED
    BY <1>0, <1>3, <2>1, FallsGoesOn DEF ReaderFails, Unanswered
<1>4. ASSUME NEW d \in Demuxes, NEW s \in Sockets, NEW p \in packets, Reply(d, s, p)
      PROVE  Unanswered \/ \E o \in Ops : Served(o)
  BY <1>4, ReplyServes
<1>5. ASSUME NEW s \in Sockets, PeerCloses(s) PROVE Unanswered
  BY <1>5 DEF PeerCloses, Unanswered, GoesOn
<1>6. ASSUME NEW x \in Closes \cup Reconnects, close(x) \/ reconnect(x),
             x \in Closes => close(x), x \in Reconnects => reconnect(x)
      PROVE  Unanswered
  <2>1. \A c \in Calls : c # x => Falls(c)
    BY <1>0, <1>6, StopMoves
  <2>2. \A o \in Ops : Falls(o)
    BY <1>0, <2>1, Kinds
  <2> QED
    BY <1>6, <2>2, FallsGoesOn DEF close, reconnect, Unanswered
<1>7. CASE UNCHANGED vars
  BY <1>7 DEF vars, Unanswered, GoesOn
<1>8. ASSUME NEW x \in Closes, close(x) PROVE Unanswered
  BY <1>6, <1>8, Kinds
<1>9. ASSUME NEW r \in Reconnects, reconnect(r) PROVE Unanswered
  BY <1>6, <1>9, Kinds
<1> QED
  BY <1>1, <1>2, <1>3, <1>4, <1>5, <1>7, <1>8, <1>9 DEF Next

LEMMA OnceStep == OnceInv /\ [Next]_vars => OnceInv'
<1> SUFFICES ASSUME OnceInv, [Next]_vars, ~redial PROVE Once'
  BY GivenStep, RedialKept DEF OnceInv
<1>0. GivenInv /\ Once /\ packets \subseteq PacketSet /\ answer \in [Ops -> Ops \cup {None}]
  BY Types DEF OnceInv, GivenInv, BaseInv
<1>a. \A p \in packets : p.op \in Ops
  BY <1>0 DEF PacketSet
<1>1. CASE Unanswered
  <2>1. \A p \in packets : call'[p.op].pc \in {"waiting", "failing", "done"}
    BY <1>0, <1>1, <1>a DEF Unanswered, GoesOn, NotSent, Once
  <2>2. \A o \in Ops : answer'[o] # None => call'[o].pc = "done"
    BY <1>0, <1>1 DEF Unanswered, GoesOn, NotSent, Once
  <2>3. CASE packets' \subseteq packets
    BY <1>0, <1>1, <2>1, <2>2, <2>3 DEF Unanswered, Once
  <2>4. ASSUME NEW p \in PacketSet, Outgoing(p) PROVE Once'
    <3>1. /\ p.op \in Ops /\ call[p.op].pc = "writing" /\ call'[p.op].pc # "writing"
          /\ packets' = packets \cup {p}
      BY <2>4 DEF Outgoing, PacketSet
    <3>2. call'[p.op].pc \in {"waiting", "failing", "done"}
      BY <1>1, <3>1 DEF Unanswered, GoesOn, NotSent
    <3>3. \A q \in packets : q.op # p.op
      BY <1>0, <3>1 DEF Once
    <3>4. \A q, r \in packets' : q.op = r.op => q = r
      BY <1>0, <3>1, <3>3 DEF Once
    <3> QED
      BY <2>1, <2>2, <3>1, <3>2, <3>4 DEF Once
  <2> QED
    BY <1>1, <2>3, <2>4 DEF Unanswered
<1>2. ASSUME NEW o \in Ops, Asks(o) PROVE Once'
  <2>1. \A q \in packets : q.op # o
    BY <1>0, <1>2 DEF Asks, Once
  <2>2. \A q \in packets : call'[q.op].pc \in {"waiting", "failing", "done"}
    BY <1>0, <1>2, <1>a, <2>1 DEF Asks, Others, Once
  <2>3. \A u \in Ops : answer[u] # None => call'[u].pc = "done"
    BY <1>0, <1>2 DEF Asks, Others, Once
  <2> QED
    BY <1>0, <1>2, <2>2, <2>3 DEF Asks, Once
<1>3. ASSUME NEW o \in Ops, Served(o) PROVE Once'
  <2>1. packets' \subseteq packets
    BY <1>3 DEF Served
  <2>2. \A q \in packets' : call'[q.op].pc \in {"waiting", "failing", "done"}
    BY <1>0, <1>3, <1>a, <2>1 DEF Served, Others, Once
  <2>3. \A u \in Ops : u # o => answer'[u] = answer[u]
    BY <1>0, <1>3 DEF Served
  <2>4. \A u \in Ops : answer'[u] # None => call'[u].pc = "done"
    BY <1>0, <1>3, <2>3 DEF Served, Others, Once
  <2> QED
    BY <1>0, <2>1, <2>2, <2>4 DEF Once
<1> QED
  BY <1>0, <1>1, <1>2, <1>3, OperationSteps

LEMMA OnceInvariant == Spec => []OnceInv
<1>1. Init => OnceInv
  BY BaseInit, GivenInit DEF Init, GivenInv, OnceInv, Once
<1> QED
  BY <1>1, OnceStep, PTL DEF Spec

\* The operations of a service made from a socket are answered once each, with their own
\* reply or not at all: for any operations, closes, reconnects and sockets a packet goes
\* out once per operation, and no late reply, timeout or lost connection settles an
\* operation twice or with what belongs to another.
THEOREM Refinement == Spec => ImplementsOnSocket
<1> DEFINE Requests == <<redial, Promise!requestVars>>
<1>1. Init => Promise!Init
  <2> SUFFICES ASSUME Init PROVE Promise!Init
    OBVIOUS
  <2>1. Ops \subseteq Calls
    BY Kinds
  <2>2. \A o \in Ops : Stage(o) = "new"
    BY <2>1 DEF Init, Stage, At
  <2>3. /\ answer = [o \in Ops |-> None]
        /\ {p.op : p \in packets} \cup {o \in Ops : At(o, "writing")} = {}
    BY <2>1 DEF Init, At
  <2> QED
    BY <2>2, <2>3 DEF Promise!Init
<1>2. ASSUME OnceInv, OnceInv', [Next]_vars, ~redial PROVE Promise!Next
  <2>0. /\ Once /\ Once' /\ GivenInv /\ Ops \subseteq Calls
        /\ packets \subseteq PacketSet /\ answer \in [Ops -> Ops \cup {None}]
    BY <1>2, RedialKept, Types, Kinds DEF OnceInv, GivenInv, BaseInv
  <2>s. \A o \in Ops :
          /\ Stage(o) = CASE call[o].pc \in Sent -> "asked" [] call[o].pc = "failing" -> "failed"
                          [] call[o].pc = "done" -> (IF answer[o] = None THEN "failed" ELSE "replied")
                          [] OTHER -> "new"
          /\ Stage(o)' = CASE call'[o].pc \in Sent -> "asked" [] call'[o].pc = "failing" -> "failed"
                          [] call'[o].pc = "done" -> (IF answer'[o] = None THEN "failed" ELSE "replied")
                          [] OTHER -> "new"
    BY DEF Stage, At
  <2> DEFINE Out == {p.op : p \in packets} \cup {o \in Ops : At(o, "writing")}
  <2>o. /\ Out = {p.op : p \in packets} \cup {o \in Ops : call[o].pc = "writing"}
        /\ Out' = {p.op : p \in packets'} \cup {o \in Ops : call'[o].pc = "writing"}
    BY DEF At
  <2>1. CASE Unanswered
    <3>1. ASSUME NEW o \in Ops
          PROVE  /\ Stage(o)' = IF o \in GivenUp THEN "failed" ELSE Stage(o)
                 /\ o \in GivenUp => Stage(o) \in {"new", "asked"}
      <4>1. answer'[o] = answer[o] /\ GoesOn(o) /\ (answer[o] # None => call[o].pc = "done")
        BY <2>0, <2>1 DEF Unanswered, Once
      <4>2. CASE call'[o].pc = call[o].pc
        BY <2>s, <4>1, <4>2 DEF GivenUp
      <4>3. CASE call[o].pc \in NotSent /\ call'[o].pc \in NotSent
        BY <2>s, <4>3 DEF NotSent, GivenUp
      <4>w. CASE call[o].pc = "writing" /\ call'[o].pc = "waiting"
        BY <2>s, <4>w DEF GivenUp
      <4>4. CASE call[o].pc # "done" /\ call'[o].pc \in {"failing", "done"}
        <5>1. Stage(o)' = "failed"
          BY <2>s, <4>1, <4>4
        <5>2. CASE call[o].pc = "failing"
          BY <2>s, <5>1, <5>2 DEF GivenUp
        <5>3. CASE call[o].pc # "failing"
          BY <2>s, <4>4, <5>1, <5>3 DEF GivenUp
        <5> QED
          BY <5>2, <5>3
      <4> QED
        BY <4>1, <4>2, <4>3, <4>4, <4>w DEF GoesOn
    <3>2. Out' \subseteq Out /\ answer' = answer
      <4>1. \A o \in Ops : call'[o].pc = "writing" => call[o].pc = "writing"
        BY <2>1 DEF Unanswered, GoesOn, NotSent
      <4>2. \A p \in packets' : p \in packets \/ (p.op \in Ops /\ call[p.op].pc = "writing")
        BY <2>1 DEF Unanswered, Outgoing, PacketSet
      <4> QED
        BY <2>1, <2>o, <4>1, <4>2 DEF Unanswered
    <3>3. GivenUp \in SUBSET Ops
      BY DEF GivenUp
    <3>4. Promise!GiveUp(GivenUp)
      BY <3>1, <3>2, <3>3 DEF Promise!GiveUp
    <3> QED
      BY <3>3, <3>4 DEF Promise!Next, Promise!GiveUp
  <2>2. ASSUME NEW o \in Ops, Asks(o) PROVE Promise!Next
    <3>1. answer' = answer /\ answer[o] = None
      BY <2>0, <2>2 DEF Asks, Once
    <3>2. Stage(o) = "new" /\ Stage(o)' = "asked"
      BY <2>2, <2>s DEF Asks
    <3>3. \A u \in Ops : u # o => Stage(u)' = Stage(u)
      BY <2>2, <2>s, <3>1 DEF Asks, Others
    <3>4. Out' \subseteq Out \cup {o}
      BY <2>2, <2>o DEF Asks, Others
    <3>5. Promise!Ask(o)
      BY <3>1, <3>2, <3>3, <3>4 DEF Promise!Ask
    <3> QED
      BY <3>5 DEF Promise!Next
  <2>3. ASSUME NEW o \in Ops, Served(o) PROVE Promise!Next
    <3>1. answer' = [answer EXCEPT ![o] = o] /\ o # None
      BY <2>3, SocketsAssumption, Kinds DEF Served, SocketsAssumption
    <3>2. Stage(o) = "asked" /\ Stage(o)' = "replied"
      BY <2>0, <2>3, <2>s, <3>1 DEF Served
    <3>3. \A u \in Ops : u # o => Stage(u)' = Stage(u)
      BY <2>0, <2>3, <2>s, <3>1 DEF Served, Others
    <3>4. PICK p \in packets : p.op = o /\ packets' = packets \ {p}
      BY <2>3 DEF Served
    <3>5. \A q \in packets' : q \in packets /\ q.op # o
      BY <2>0, <3>4 DEF Once
    <3>6. o \in Out
      BY <2>o, <3>4
    <3>7. Out' \subseteq Out \ {o}
      <4>1. \A u \in Ops : call'[u].pc = "writing" => u # o /\ call[u].pc = "writing"
        BY <2>3 DEF Served, Others
      <4> QED
        BY <2>o, <3>5, <4>1
    <3>8. Promise!Answer(o)
      BY <3>1, <3>2, <3>3, <3>6, <3>7 DEF Promise!Answer
    <3> QED
      BY <3>8 DEF Promise!Next
  <2> QED
    BY <1>2, <2>0, <2>1, <2>2, <2>3, OperationSteps
<1>3. OnceInv /\ OnceInv' /\ [Next]_vars => [~redial => Promise!Next]_Requests
  BY <1>2
<1> QED
  BY <1>1, <1>3, OnceInvariant, PTL DEF Spec, ImplementsOnSocket
=============================================================================
