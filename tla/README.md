# Verification of appium-ios in TLA+

This directory models, checks and proves properties of the concurrent core of
appium-ios: the parts of `packages/remotexpc` through which everything else
talks to an iOS device, and the targets of the remote debugger's RPC client.
Paths below are relative to `src/packages/remotexpc/src` unless they start with
`src/` or `packages/`.

| module | what it is |
|---|---|
| `XpcFlowControl` | sending half of the RemoteXPC transport: queue, HTTP/2 windows, handshake, reconnect |
| `OrderedByteStream` | what that half promises; `XpcFlowControl` implements it |
| `XpcFlowControlProofs` | machine-checked proofs about `XpcFlowControl` |
| `FileServiceSession`, `FileServiceProofs` | the CoreDevice file service: sessions, requests, transfers, `close()` on a shared connection |
| `CoreDeviceInvoke`, `CoreDeviceInvokeProofs` | CoreDevice services that open a connection per invocation |
| `AfcConnection`, `AfcProofs` | the AFC client: socket, packet demux, reader loops, send lock, `close()`, `reconnect()` |
| `TunnelRegistry`, `TunnelRegistryProofs` | the tunnel of a watched device: watcher, reconnects, lifecycle watch, registry entry, long polls |
| `DvtChannels`, `DvtChannelsProofs` | the DTX connection of the DVT service: channels, reply matching, waiters, the read pump |
| `XctestRun`, `XctestProofs` | a run of `XCTestRunner`: launch, callback listener, plan, timeout, `close()` |
| `RequestReply` | what a connection promises the calls that share it; `CoreDeviceInvoke`, `DvtChannels` and, on one socket, `AfcConnection` implement it |
| `RpcTargets`, `RpcTargetsProofs` | the remote debugger's `RpcClient`: page selection, targets and provisional targets |
| `MC*` | the instances of these modules that TLC checks, one `.cfg` per run |

`PROJECT.json` maps every definition to the lines it models and lists components,
runs, mutants, findings, hazards and theorems.

## 1. Inventory

appium-ios is a monorepo. Its logic is in TypeScript, single-threaded and
asynchronous: nothing is preempted inside a synchronous segment, and everything
may happen between two of them. What is hard is therefore never a data race but
state read before an `await` and used after it, events of a socket that was
replaced meanwhile, and calls that wait for each other.

### Modelled

**RemoteXPC transport** (`lib/remote-xpc/remote-xpc-framed-transport.ts`,
`handshake.ts`). *State*: the socket and whether it is connected or closing; the
device's frame size and initial window; the send window of the connection and of
each stream; the queue of payloads; buffers of partial frames and messages.
*Operations*: `connect()`, `close()`, `sendDataFrame()`, and one handler per
HTTP/2 frame received. *Hard*: the handshake writes DATA past the queue and
debits it afterwards; SETTINGS change windows retroactively, also below zero;
several events may unblock the queue and none of them may be missed. *Correct
when* the windows are exact, the queue never exceeds them, nothing is lost or
reordered and no payload stays queued without a reason.

**CoreDevice services** (`services/ios/core-device/core-device-service.ts`).
*State*: the connection in use, the one being opened, the next message id, the
promise chain `invokeQueue` that serialises exchanges. *Operations*: `invoke()`,
`sendReceive()`, `sendReceiveOnConnection()`, `getTransport()`, `dropTransport()`,
`close()`. *Hard*: callers inside and outside the queue replace the connection
under each other; a reply may come after its timer. *Correct when* a caller gets
its own reply or an error, turns are released whatever fails, and `close()` leaves
nothing open.

**CoreDevice file service** (`services/ios/file-service/index.ts`). *State*: the
cached session with the connection it was created on, the running transfers with
their abort signals. *Operations*: one-request calls (list, remove, rename, make
a directory), `pullFile()`, `pushFile()`, `close()`. *Hard*: a session dies with
its connection; a push is three requests and a data channel, and any of them may
fail while others' failures take the connection away. *Correct when* a request
carries the session of its own connection and a failed push tidies up.

**AFC client** (`services/ios/afc/index.ts`, `demux.ts`). *State*: the socket, the
demux with its packet number, waiters, lock and reader, and the error that marks
the connection dead. *Operations*: some thirty file operations, all through
`_sendAndWait()`; `close()`, `reconnect()`. *Hard*: every first operation opens a
socket; readers outlive the socket in use; rejections reach their callers after
others have run. *Correct when* replies reach the operation that asked, a dead
connection stays quiet, and operations settle.

**Tunnels** (`lib/tunnel`, `packages/remotexpc/scripts/tunnel-creation.mjs`). *State*:
which usbmux entries of a device are attached, the established tunnel, the lifecycle
watch, the registry entry with its catalog, the waiters of long polls, the discovery
shared by udid. *Operations*: attach, detach and resubscribe of the usbmux watcher,
reconnect attempts with pauses, the death of a tunnel, and the HTTP requests (GET with
`waitMs`, PUT, refresh). *Hard*: two jobs may come to create a tunnel, a replaced
tunnel's watch or discovery ends late, entries are written from three places. *Correct
when* the device has one tunnel, it is watched, its death takes its entry away, and no
poll misses an announced entry.

**DVT service** (`services/ios/dvt/index.ts`, `channel.ts`, `channel-fragmenter.ts`).
*State*: the connection, the channel cache and counters, the queue of each channel, the
waiters, whether the pump runs. *Operations*: `connect()`, `makeChannel()`,
`Channel.call()`, `receiveReply()`, `receivePlist()`, aborts, `close()`. *Hard*: one pump
reads for all and only while somebody waits; replies, stream elements and broadcasts
share a channel. *Correct when* whoever waits is served or rejected and a correlated call
gets the reply to its own request.

**XCTest runner** (`services/ios/testmanagerd`). *State*: the stage of the run, the
pid, the background listener with its deferred promises and its abort. *Operations*:
`run()`, `close()`, the callbacks. *Hard*: `close()` comes at any moment, the listener
fails while `run()` waits on what it resolves, two `close()` calls share the fields, and
any of launch, authorization and kill may fail. *Correct when* a plan starts with its
configuration, `passed` is true, and no process is left that the code could know of.

**RPC targets** (`src/packages/remote-debugger/lib/rpc/rpc-client.ts`). *State*: pages
selected last, one target per page, one provisional slot per application, two locks
per page. *Operations*: `selectPage()` and the events of created, committed and
destroyed targets. *Hard*: initialization is slow, targets go meanwhile, a paused target
hangs its page if it is not resumed. *Correct when* the map keeps no target that is gone
and a handled target was resumed, whatever its initialization came to.

These interact as follows. A CoreDevice service owns at most one
`RemoteXpcConnection` on a framed transport; the file service is a CoreDevice
service that keeps its connection instead of replacing it. What
`FileServiceSession` and `CoreDeviceInvoke` assume of a connection — messages are
written whole and in order, a closed one reports `close` to its waiters — is what
`XpcFlowControl` and the transport's teardown provide. The addresses all of them dial
are those of the tunnel that `TunnelRegistry` keeps. `XctestRun` launches and kills
through a DVT channel, and its listener reads a DTX connection of its own. The AFC
client uses raw sockets; the remote debugger goes through Web Inspector's service.

### Not modelled, and why

| component | state and hard behaviour | plan |
|---|---|---|
| transport: lifecycle and reception | superseded sockets, the `closing` flag, messages reassembled per stream, desynchronisation | module `XpcTransport` |
| RSD catalog client (`lib/remote-xpc/rsd-service-catalog-client.ts`) | connect session with three timers, single flight | module `RsdCatalogClient` |
| port forwarding (`lib/port-forwarding`) | `stop()` while upstream sockets open | module `PortForwarder` |
| usbmux (`lib/usbmux`) | tags, timeouts, a Connect that hands the socket over | module `Usbmux` |
| codecs, plists, TSS, discovery | byte formats, single calls | reassembly as an algorithm; the rest is data |
| lockdown, pair records, Apple TV pairing | cryptographic exchanges, one request at a time | none |
| syslog, webinspector, display, other services | thin protocols on the connections above | none |
| tuntap, media proxy | native packet and video pipelines | none: bound by throughput, state outside TypeScript |
| simulator, coresim, devicectl, xcode | wrappers of command-line tools and private frameworks | none: the state is Apple's |
| WebDriverAgent, UICatalog | Objective-C test runner, sample application | none: driven by XCTest |

By lines most of the repository is in the lower half of this table: type
declarations, atoms and protocol tables, wrappers of tools, Objective-C. The modules
cover the files in which actors share state; what remains of those files is parsing,
formatting and operations that are one call each.

`PROJECT.json` lists the hazards at their lines. Those no property covers carry the
module that is to cover them, or say that they happen on the model: there the code does
what the hazard fears and no document says otherwise.

## 2. The modules

### Granularity and abstraction

An action is what the code does from one wait (an `await` on the network, a timer,
a lock, another call) to the next; between two actions every other call, timer,
socket event and device message may act. Where a rejection passes through several
`catch` blocks that only continue synchronously the chain is one action; where
other code can run in between — microtasks of other calls — it is two. This is at
least as fine as what Node can do. The exception is the loop of
`flushPendingSends()`, a synchronous loop whose iterations are steps because each
writes a frame; while it runs (`flushing`) no other action is enabled.

Data is abstracted to what the properties tell apart: a payload is a sequence of
tagged bytes, a request is who sent it, on which connection, with which id and
session; replies are success or failure. Sockets and connections are numbered in
the order they are opened, so that "an earlier connection" is a value that can be
remembered. The device answers each request at most once, at any time or never,
and may end a connection at any moment.

### XpcFlowControl

`phase` is the progress of `connect()` on the current socket; the windows, the
queue and `dataBytesSent` are the fields of the class and of its `Handshake`.
`streamSendWindows` is the `Map` of the code: a function on the streams it has, so
that "not recorded yet" can be told from a value. `sent`, `credit`, `wire` and
`accepted` record what the other end of the socket saw and granted; nothing reads
them but the properties.

| action | code |
|---|---|
| `Connect`, `SocketConnected` | `connect()`, `waitForSocketConnect()`, `resetConnectionState()` |
| `HandshakeStep`, `HandshakeDone` | each `await` of `Handshake.perform()`, then `consumeSendWindow()` for its streams |
| `sendDataFrame`, `FlushStep`, `FlushReturn` | `sendDataFrame()`, the iterations and the exits of `flushPendingSends()` |
| `applyPeerSettings`, `WindowUpdate` | `handleData()` on SETTINGS and WINDOW_UPDATE, each followed by a flush |
| `Close` | `close()`, RST_STREAM, GOAWAY, a lost socket |

Properties: `WindowAccounting` (each send window equals what the device granted
less what was written, up to handshake bytes not debited yet), `FlushWithinGrant`
(no frame of the queue exceeds the grant), `WorkConserving` (no lost wake-up),
`Drains` (liveness) and `ImplementsStream` (refinement of `OrderedByteStream` with
`delivered` the bytes on the wire: nothing is lost, reordered, or left over from an
earlier connection).

### FileServiceSession

One module for two classes, since the hazard is between them: the session belongs
to the subclass, the connection and the queue to the base class. A call's `pc` says
where it is suspended; `call[c].conn` is the connection in its local variable, which
need not be the one in use any more.

| action | code |
|---|---|
| `BeginRequest`, `BeginTransfer`, `BeginClose` | the public methods up to their first wait |
| `getTransport`, `TransportConnected`, `TransportFailed` | `getTransport()` and the continuations of `pendingTransport` |
| `ensureSessionOn`, `exchange` | `ensureSessionOn()`, `createSessionOn()`, `exchange()` inside the turn |
| `Reply`, `Timeout`, `PeerEnds`, `SocketClosed` | the listeners and the timer of `waitForResponse()` |
| `CatchFailure`, `Dropped` | the `catch` of `sendReceiveOnConnection()`, the `finally` of `enqueueInvocation()` |
| `openDataChannel`, `DataDone`, `DataFailed`, `CutShort`, `removeIncompleteUpload` | `pullFile()`, `pushFile()` |
| `TakeSession`, `EndSession`, `AwaitPending`, `CloseTransport`, `CloseReturns` | `close()` of the subclass, then of the base class |
| `Apply` | the device carries out a request about a push's temporary file (external) |

`Apply` is apart from `Reply` so that a request may be carried out and its reply
lost. A push of an empty file has no data channel; `DataDone` at once covers it.
The messages a listing sends before its reply restart its timer and change nothing
else; they are left out.

### CoreDeviceInvoke

The same base class as its other subclasses use it: each invocation closes the
connection in use and opens its own (`refreshTransport`, `newTransport`,
`FreshConnected`), while `send()` and `getTunnelLocalAddress()` take the shared one
outside the queue (`getTransport`, `PendingSettles`). Replies are not matched by id
there, so ids are left out: an invocation takes the first message on its connection.
`ImplementsRequestReply` is the refinement of `RequestReply`, below.

### AfcConnection

`socket`, `demux` and `connectionError` are fields of `AfcService`, `dmx[d]` those of
the d-th `AfcPacketDemux` (close() discards it), `readers` the reader loops that run,
one per demux and socket. `redial` is whether the service has a `udid` and can open a
socket; a service made from a given socket cannot. The function that runs under the
send lock returns the promise of the reply, so an async function holds the lock until
the reply (`demux.ts:66`): `dmx[d].lock` is the queue of the lock and its head holds it.

| action | code |
|---|---|
| `Refused`, `BeginOnSocket`, `BeginDial` | `_sendAndWait()`, `_assertConnectionAlive()`, `_connect()` up to its wait |
| `ConnectDone`, `ConnectFails` | the rest of `_connect()`, for an operation or a `reconnect()` |
| `Send`, `Written`, `WriteFails` | `sendAndWait()` with the lock: the number and the waiter, then the writes of `sendAfcPacket()` with their waits for `drain` |
| `Timeout` | the timer of `_registerPending()`, which runs from the moment the writes begin |
| `Reply`, `ReaderFails`, `PeerCloses` | `_readerLoop()`, `_runReaderLoop()`, the socket |
| `Catch` | the `catch` of `_withAfcConnection()`, `_markConnectionDead()` |
| `close`, `reconnect` | the methods of that name |

The three writes of a packet are one stretch, `writing`, that goes on until the socket has
taken them in or is gone; the device can answer when it is over. The deadline of the
operation runs meanwhile and settles its waiter, but the operation finds out, and gives up
the lock, only when the writes are over. Left out: the file operations themselves; that a
waiter rejected before the operation awaits it is an unhandled rejection, at which Node ends
the process by default (the host is taken to survive it); and that `_clearPending()` after
a failed write leaves the timer running (`demux.ts:71`, 122), which can remove the waiter of
another operation if the numbering restarted before the timer fires.

### TunnelRegistry

One device under `tunnel-creation --watch-devices`. `job` says what the usbmux watcher
and the reconnect await; tunnels are numbered as they come up and stand for their
addresses. `state` is what is really there, `active` and `established` what
`TunnelManager` and `establishedTunnelsByUdid` believe, `armed` the tunnels whose death
will run `finalize()`, `discovery` the one in flight for the udid and the tunnel it asks.

| action | code |
|---|---|
| `TunnelUp`, `UnpublishableUp`, `CreateFails` | `createTunnelForDevice()` returns, with the registration, the closing of what it replaces, the new watch and the start of the discovery |
| `Retry`, `reconnectTunnelByUdid` | `runReconnectAttempts()`, `createReconnectTunnelByUdid()` |
| `Die` | the native forwarder exits: `watchTunnelRegistryOnDead()`, `onTunnelDead`, `closeTunnelByAddress()` |
| `handleAttach`, `handleDetach`, `Subscribe` | `DeviceWatcher` |
| `Discovered`, `DiscoveryFails` | `discoverServices()` settles for all who joined it: publishers, refreshes |
| `refreshTunnelServices`, `getTunnelByUdid`, `PollTimeout`, `updateTunnel` | `TunnelRegistryServer`, `TunnelReadinessCoordinator` |

Closers settle within their microtasks, so a chain of awaits on them is one step.
Tunnels of several udids share only the HTTP server; a tunnel that comes up under the
address of another, the shutdown of the process, the watch of registry sockets and the
Apple TV script are left out.

### DvtChannels

`task[t]` is where each call is; `channelWaiters` the waiters of all channels in the
order they registered; `pump` is `ending` between the end of `runPump()` and its
`finally`, where a new waiter still sees a running pump. A message is its channel,
identifier, conversation index and whether it is an NSError.

| action | code |
|---|---|
| `Connect`, `Close`, `Closed`, `Die` | `connect()` with its handshake, `close()` before and after its message, the socket |
| `MakeChannel`, `Written`, `MadeChannel` | `makeChannel()` up to its request, `sendMessage()`, the reply |
| `Call`, `Read`, `Abort` | `Channel.call()` and `receiveReply()`, `receivePlist()`, an AbortSignal |
| `PumpReads`, `PumpStops`, `PumpFails`, `PumpFinally` | `runPump()`, `deliverQueuedMessages()`, `ensurePumpRunning()` |
| `Answer`, `Event` | the device (external) |

### RequestReply

What three of these promise their callers, although two match replies by a number and one by
the connection they come on: a request goes out at most once and is answered at most once,
and a call settles once, with the reply to its own request or with an error; the reply to a
call that gave up reaches nobody. `stage` is how far a call is, `reply` whose request the
reply answers that it settled with, `pending` the calls whose request may still be answered.
A step asks for one call, answers one call or gives up some; what any other actor does — a
reader, the pump, a borrower, an abort, `close()`, the loss of the connection — maps to a
stutter or to giving up.

| module | calls | pending |
|---|---|---|
| `CoreDeviceInvoke` | invocations | the device has the request |
| `DvtChannels` | correlated calls | the call waits, and its reply is asked for or on the wire |
| `AfcConnection` | operations, `~redial` | the device has the packet, also after its operation timed out |

A service that can open sockets does not keep the promise in the model: two calls may
dial at once, the numbering restarts with a socket, and a demux reads both. The refinement
of `AfcConnection` (`ImplementsOnSocket`) therefore speaks of the service made from a socket.

### XctestRun

`run` is the stage of `run()`, `closer` where each `close()` is: that of `run()`'s
`finally` and one by the user. `plan`, `process` and `verdict` are the device's, `early`
records that it was told to start a plan it had no configuration for. `left` records what
may have left a process behind: a launch that was asked for and failed, a kill that failed
or that the process survived, a user's `close()` before the launch was answered. In each the
code ends without the pid, or without the service to kill it by. Only properties read it. A listener that is `reading` waits for a header, with
the signal and the second of its poll; with a header it reads the `payload`, without either.

| action | code |
|---|---|
| `Launched`, `LaunchFails`, `Authorized`, `StageFails`, `Configured`, `PlanSent`, `PlanNotSent` | `setupAndLaunch()` |
| `Completed`, `TimedOut` | `executeAndWait()`, `waitForCompletionWithin()` |
| `Header`, `Callback`, `OtherChannel`, `Acknowledged`, `Replied`, `PollTimeout`, `ConnectionLost` | `startExecCallbackListener()`, `handleCallback()`, the replies |
| `Close`, `Killed`, `ListenerStopped`, `ConnectionsClosed`, `CloseDone` | `XCTestRunner.close()`, `XCUITestService.stop()` |

The model begins with the services set up; a second `startExecCallbackListener()` while
the first listener runs, which the runner never makes, is left out.

### RpcTargets

A key is an application and a page. `select[s]` is a `selectPage()` call, `job[t]` the
handling of target t's creation; `selectionLock` and `targetLock` are the queues of the
two locks. `shown`, `next` and `dying` are Web Inspector's: the target of a page, the
provisional one, the one it replaced. `pauseOnStart` are the pages that were asked to pause
new targets, by this session or an earlier one (`AskedBefore`): only their targets, first
or provisional, may come paused. `resumeFailed` are the paused targets whose own
`Target.resume` failed, which the code logs and passes over.

| action | code |
|---|---|
| `SelectPage`, `BeginSelect`, `SetupDone`, `SetupFails`, `SelectTimeout` | `selectPage()` |
| `TargetCreated`, `PauseOnStartSet`, `BeginJob`, `PageInitialized`, `resumeTarget`, `PageReady` | `addTarget()`, each of its awaits |
| `OccupationExpires` | the lock is held too long |
| `TargetCommitted`, `TargetDestroyed` | `updateTarget()`, `removeTarget()` |
| `Show`, `Navigate`, `Commit`, `Destroy` | Web Inspector (external) |

What is said of one page comes in order. The page is not a key of the map in the code
but found by its target; both agree as a target is in the map once. `asyncbox`'s lock is
outside the repository: it is taken to count the occupation time from the grant and to
keep the lock for a function that goes on. An application that disconnects is left out
(`onAppDisconnect` clears no targets). For an application without an entry `removeTarget()`
throws in a handler nobody awaits (`rpc-client.ts:720`); by Node's default that ends the host.
The model takes a step that changes nothing: without fairness the behaviours in which
nothing follows it are among those checked, and so are those of a host told to go on.

## 3. Runs

Deadlock checking is off everywhere: each call is made once, and when all have
settled and the bounds are used up the system stops as it should.

| run | instance | shows |
|---|---|---|
| `flow` | 2 streams, 2 payloads of 3 bytes, one SETTINGS (1 or 6), credit 8, 2 connections (669,965 states) | accounting, grants, no lost wake-up, the refinement, `Drains` |
| `session` | a request, a push (three requests, a data channel), `close()` (1,878,211) | sessions, exchanges, connections, clean-up of the push |
| `session_settles` | a request, a pull, `close()` (58,532) | every call settles |
| `invoke` | 2 invocations, a borrower, `close()` (9,745) | the refinement of `RequestReply`, every call settles |
| `afc` | 2 operations, `reconnect()`, `close()`, both kinds of service (284,550) | the refinement of `RequestReply` on one socket, readers, silence after death, every operation settles |
| `tunnels` | 2 usbmux entries, 3 tunnels, reconnects off, once and unlimited, a refresh, a poll, a PUT (555,067) | one tunnel, one creator, the watch, deaths, polls |
| `dvt` | 2 `makeChannel()`, a request, an abortable reader, an event, 2 connections (844,559) | the pump, replies not lost to readers, the refinement of `RequestReply`, every request settles |
| `xctest` | 2 callbacks besides those of the plan (189,060) | configuration, verdict, clean-up, everybody released |
| `targets` | 2 applications with 2 pages, 2 selections, 3 targets (1,214,811, up to symmetry) | no dead target, paused ones are resumed |
| `tunnels_blocked`, `xctest_silent`, `afc_reconnect` | | one statement each that the code does not keep, see below |

Why the bounds are enough. *flow*: windows of 1 to 6 bytes and payloads of 3 make
every payload span frames and stall; two streams are what it takes for one to block
the other, a SETTINGS either shrinks the windows below what was written or lets a
stalled head go on, two connections are for leftovers. The proofs lift the bounds for
the properties they cover. *session*, *invoke*: the interesting cases are two
exchanges in the queue, one that failed before, and a `close()` anywhere; `MaxConns` is
one connection per request that can be made, so numbering never cuts a behaviour off
(`ConnsAssumption`). *afc*: two operations overlap on one socket or open one each;
`MaxSockets` exceeds what can be opened (`SocketsAssumption`). *tunnels*: three tunnels
are one that is replaced, its replacement, and one after a death; two entries of one
device are USB and network. *dvt*: one identifier makes both channels compete for the
cache and the broadcasts; the event carries an identifier the host uses too. One correlated
call meets the other actors there, two on one connection only in the proof. *targets*:
three targets are a page's first, its provisional one and another page's, or one page's in
a row, the later ones paused; `AskedBefore` is empty, so that a page's first target is not,
and any set of pages in the proof; one event is on
its way at a time (`MaxWire`), which orders them as the socket does.

### Fairness

* `flow`: weak fairness of `FlushStep` and `FlushReturn` (a synchronous loop),
  of the end of a connection attempt (the socket connects, or `connect()` times out and
  closes it) and of `Replenish`: the device grants credit for a window that stalls the queue, as
  HTTP/2 obliges a receiver that consumes what it gets. `MaxCredit` suffices for all
  payloads.
* `session_settles`, `invoke`: weak fairness of each call's own progress, its timers
  included, of the connection attempt (bounded by a connect timeout) and of the
  `close` event of a socket that is shut down (the transport destroys it after a
  timeout). Nothing is assumed of the device's replies; messages of a listing, each of
  which restarts the timer, are assumed finite, and the caller of a pull to read.
* `afc`: weak fairness of what goes on by itself: sends with the lock, deadlines,
  rejections, connection attempts (`Progress`). Nothing of the device's answers or the readers. One
  assumption is not of the host: no timer bounds a write, so the device must keep
  reading what it is sent, or the connection be lost (`DeviceReads`); a device that stops
  reading and keeps the connection holds the lock and everybody behind it.
* `dvt`: weak fairness of the pump, of a request's write, of the rest of `close()` and of
  the device's answers: a DVT receive has no timer of its own, so without them it waits
  until the socket dies.
* `xctest`: weak fairness of what the host does by itself (`HostFairness`): what is there
  is read, timers fire, `run()` goes on when what it awaits in the host is there, and so does
  `close()`, that of the `finally` included. The code waits without a timer in
  two more places, and there the device is assumed to do its part or lose the connection
  (`DeviceReads`): it completes a message it began, and it reads what it is sent (replies, the
  plan, the kill, the farewells). Launch and authorization also wait without a timer, and
  nothing is assumed of them: `Settles` speaks of runs that are past them.
* `xctest_silent` assumes them answered as well (`SilentSpec`), so that what its
  counterexample lacks is the timer of the configuration.
* `tunnels` and `targets` check safety only.

### Where the code differs from what is written about it

Three runs check a statement of the repository that the code does not keep; TLC gives the
interleaving. `PROJECT.json` quotes the statements.

* `afc_reconnect`: `reconnect()` with an operation in flight succeeds and leaves the
  service marked dead by the operation's rejection.
* `tunnels_blocked`: a tunnel that dies while its services are discovered has no entry
  yet; `finalize()` returns early, nobody forgets the tunnel, and every later attach of
  the device is ignored.
* `xctest_silent`: a runner that is launched and says nothing leaves `run()` waiting for
  the delivery of the configuration; the timer of `timeoutMs` is only armed behind it.

Further disagreements were met while modelling and are listed as hazards without a
property: END_SESSION with the id of a lost session (`file-service/index.ts:351`), the file
of a push whose announcement was carried out but not answered (521), a `close()` during
`refreshTransport()` (`core-device-service.ts:294`), a device that begins a message and never
completes it (`testmanagerd/index.ts:539`), which `stop()` waits for.

## 4. Proofs

Each proof is laid out as usual: initial state, one step per action with one step per
conjunct below it where the action can disturb it, then the temporal step by PTL.

`XpcFlowControlProofs` proves, for all streams, sizes, increments and bounds that meet
`StreamsAssumption`, `SizesAssumption` and `BoundsAssumption`:

* `TypeCorrect`: `Spec => []TypeOK`.
* `AccountingCorrect`: `Spec => []WindowAccounting`, and
* `FlushSafe`: `Spec => FlushWithinGrant`, both if no payload is empty.
  The equation of the windows is not inductive by itself. A frame of the queue debits
  `size`, the minimum of four numbers of which the windows may be negative; what is
  written is that long only if `size` is not negative, which the test for a blocked head
  ensures unless the payload is empty. And `HandshakeDone` debits two streams, so no other
  may owe handshake bytes. `AccountingInv` therefore adds `NonEmptySends` (every queued
  payload has bytes left) and `OnlyHandshakeStreams`. The hypothesis is needed: with an
  empty payload and a negative window the code writes an extra frame and credits the
  windows (`remote-xpc-framed-transport.ts:132-144`). No caller sends one: `encodeMessage()`
  always writes a header.
* `NoLostWakeup`: `Spec => []WorkConserving`: `flushing` is cleared only with the head
  blocked, and whatever enlarges a window or fills the queue sets it. It is inductive
  once the types are known.
* `Refinement`: `Spec => ImplementsStream`, empty payloads included. That the bytes on the
  wire are a prefix of the accepted ones is not inductive: the next round writes from the
  queue. `StreamInv` says where the queue lies. Some `cut` marks in the accepted bytes
  where each queued payload begins, the first where the wire ends, each where the one
  before it ends, the last with the last byte accepted (`Laid`); and what was written is
  what was accepted first (`Written`). A round moves the first mark or drops it, a new
  payload adds one, `Connect` begins again with none. The marks take the place of a
  flattened queue, which would need induction over its length.
* `FlushEnds`: each `FlushStep` lowers `RoundsLeft`, a natural number: the bytes not yet
  written, twice the queued payloads, and one if the round writes nothing and keeps its
  payload (`Idles`: an empty payload and a window below zero, which that round lifts to
  zero). So the loop of `flushPendingSends()`, which gives no other code a turn, ends, for
  all sizes and windows; the fairness of `FlushStep` rests on it.

`TunnelRegistryProofs`, for any entries, refreshes, polls, retry limits and numbers of
tunnels and PUTs: `TypeCorrect`, `OneTunnelSafe`, `CreatesAloneSafe`, `WatchArmedSafe`,
`NoMissedReadySafe` and, as a property of steps, `DeathUnlistsSafe`. The first four rest on
each other: a job creates only while nothing is up, because an attach is refused while a
tunnel is established, and every tunnel that is up is established; a reconnect only
starts from a death, after which nothing is up.

`DvtChannelsProofs`, for any calls, identifiers and connections: `TypeCorrect`,
`PumpServesSafe`, `OwnReplySafe`, `ReplyOnItsWaySafe`, `Refinement` and `CodesDistinctSafe`
(two channels never share a code, over `close()` and reconnects too, as the counter is kept;
this one is proved and not run). Every action moves a task in one of a few ways; the lemma `TaskSteps`
states them once, and `Sound`, `Identified` and `Speakers` (a waiter has an identifier of its
own, what it waits for was sent on its channel, what it received fits) are proved from it.
`ReplyOnItsWay` needs all of them and `PumpServes`: a reply the pump reads is claimed by its
caller and by nobody who comes before it (`ReplyIsServed`); the device refuses no request of
a channel; and a connection only comes up when the pump is off, so that nobody waits for
what an earlier one was asked.

`Refinement`: `Spec => ImplementsRequestReply`. `RequesterSteps` says what a step does to the
correlated calls: it fails some or starts some, or it puts one among the waiters or answers
one and leaves the others alone; an answer is the head of the wire, and the call's own by
`Identified`. It needs `Sent` (what is asked, on the wire or queued never belongs to a
request still to be written), or a call could find a message queued earlier and be answered
before it asked. `PendingShrinks`: for a call that waited before the step, no step makes a
reply possible that was not.

`XctestProofs`, for any number of callbacks: `TypeCorrect`, `CleanedUpSafe`,
`PassedIsTrueSafe` and `ConfigBeforePlanSafe`, each with its strengthening: `Tidy`, `Told` (what is on the
wire is what became of the plan, and a failed suite precedes the end of the plan on it or
was read), `Delivered` (the field of the promise is empty, or the promise resolved, only
with the configuration delivered or somebody let go). `Tidy` is about two `close()` calls
that share the fields. `Killing`: a process that lives has its pid known or a reason in
`left`, and a `close()` past its kill leaves none without one, although it may have
been the other that read the pid; the user's `close()` during the launch is itself a
reason. `Unlinking`: the service is let go of only after its connections were closed,
so the `close()` that finds none has nothing to do. The rest says that `run()` ends by its own
`close()`, and that this one waits for the listener while the user keeps out.

`CoreDeviceInvokeProofs`, for any invocations, borrows, closes and connections:
`TypeCorrect`, `OwnReplySafe` and `Refinement` (`Spec => ImplementsRequestReply`). An
invocation takes the first message on its connection, so that it is its own reply is a fact
about connections: `OwnConns` (no two invocations have one) and `OwnRequests` (a request not
answered went out on the connection of the only invocation that may have it). Both need
`Holders`, that a connection an invocation has was opened before, so that the next one
opened differs from it. The refinement adds to them `Asked` (each invocation has at most one
request with the device, and has one only if it waits for the reply or is over) and
`Answered` (only an invocation that is over has a reply): so the reply that is read settles
an invocation that asked, and after it nothing can.

`FileServiceProofs`, for any requests, transfers, closes and connections that meet
`CallsAssumption` (the kinds of calls are disjoint) and `ConnsAssumption`: `TypeCorrect`,
`OneConnectionSafe`, `RequestsOnOwnSessionSafe`, `OneOutstandingRequestSafe`,
`FailedPushTidiesSafe` and, as a property of steps, `CloseCoversSafe`. `Connections`: an
open connection is the one in use and one being opened is the pending one; it is inductive
once the types are known, `Turns` among them (only the head of the queue is past the
queue). The next two are proved together. `Outstanding`: a request that was not answered
is the only one, is on the open connection in use, and its call waits for it or has just
given up; `Sessions`: a session being created, or about to be used, is that of the
connection of its call. Each needs the other: a session becomes ready when the answer to
its creation is read, and a request carries the session its call is about to use.
`Uploads` says of each `pc` of a push whether its temporary file may be there. `Covered`
follows `close()`: after each of its stages what is left of the connections it saw is what
its remaining stages close.

`NobodyStuckSafe` is what `Settles` asks of a state: whoever is not done can step, or waits
for a connection being opened or shut down, or, by its turn, a transfer it aborted or a
session being created, for a call of which that is true. So the waits of `close()` for
transfers, of transfers for their turn and of turns for connections never close a circle.
`CanStep` spells out when `Progress(c)` is enabled; TLC agrees that it does, and with each
part of the invariant, on both instances of section 3. The invariant adds `Lined` (the
queue is the calls that wait for their turn or have it, each once), `Ordered` and `Held`
(what a call waits for exists: it was opened, or is being opened or given up), `Created` (a
session marked as being created has its creator) and `Room`: a connection can always be
opened for the head of the queue, since the turns still to be taken are at most the unused
connections. That is a count over finite sets, from `ConnsAssumption`; the bound is the
model's, so this part only shows that the bound never decides who is served.

`AfcProofs`, for any operations, reconnects, closes and sockets that meet
`CallsAssumption` (a call is of one kind, and there are finitely many) and
`SocketsAssumption`: `TypeCorrect`, `ReplyIsReadSafe`, `OwnReplyOnSocketSafe`, as a property
of steps `QuietAfterDeathSafe`, and `Refinement` (`Spec => ImplementsOnSocket`). That whoever waits has the lock, the last part of
`TypeOK`, needs `BaseInv`: the queue of a lock has each operation once and only its head
writes or waits (`Locks`), two calls never open one socket (`Holders`), the only demux that is in use
and not stopped is the service's (`InUse`), and one is left for every `close()` and
`reconnect()` to come, by counting (`Room`). `Reads` adds that the reader a demux counts on
runs while its socket lives and that each operation that sends or waits has one. `Given` is
about a service made from a socket: it has no other socket (`Alone`), and while that one
lives a single demux has all the operations, no packet has the number of a waiter of
another operation, and neither will one that is being written (`Numbered`), so what was
numbered before is never taken for a later request. It says nothing of a service that can redial, where two sockets can share one
demux and numbering restarts. The refinement adds `Once`: an operation has at most one packet
with the device, none before it is written, and is over if it has an answer;
`OperationSteps` sorts every step into one that asks for an operation (its writes begin),
answers one, or lets some go on or end unanswered; in the last at most one packet goes out,
that of an operation that ceases to write and was asked for before (`Unanswered`).

`RpcTargetsProofs`, for any applications, pages and selections and any numbers of targets
and of events on their way (`BoundsAssumption`): `TypeCorrect`, `ResumedSafe` and
`NoDeadTargetSafe`; the last lifts the run's bound of one event on the wire. `Base` says
that each lock is queued for by those it serves, once, with only its holder past the queue
(`SelectInv`, `JobInv`), and that a target is announced once, before anything is done for
it (`Announced`). `Resumption`: a target that is paused was announced as paused, the
handling of its creation knows, by whichever of the two ways it takes, and it is past
`resumeTarget` only if that failed. `Mapped` is what makes the
map safe while events are read late: whatever the map names is on the device or its end is
on the wire (`AliveAfter`), and of a provisional target and the one it replaces the old
one's end precedes the new one's (`Pair`), or reading the commit would put a dead target
in. It is kept for the events on the wire too, each about those behind it. `Owned` (a
target belongs to one application, so an event of one does not touch another's map),
`Bounded` (targets are numbered in the order they were made) and `Navigating` make it
inductive.

Only model-checked: liveness (`Drains`, `Settles`), out of the prover's reach beyond
`FlushEnds` and `NobodyStuckSafe`. Every other property of a passing run is a theorem.

## 5. Plan

What is next, in this order.

1. `XpcTransport`: lifecycle of superseded sockets; reassembly as a function checked
   against a reference definition. It composes with `XpcFlowControl` through `phase`.
2. `PortForwarder`, `RsdCatalogClient`, `Usbmux`: one small state machine each, with its
   liveness (`stop()` and waiters settle).
3. `RequestReply` implemented by the exchanges of the file service.

Runs of new modules take the place of runs whose property a theorem covers.
