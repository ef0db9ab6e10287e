--------------------------- MODULE TunnelRegistry ---------------------------
(***************************************************************************)
(* The tunnel of one device as `tunnel-creation --watch-devices' keeps it: *)
(* the usbmux watcher, the reconnects of a dropped tunnel, the lifecycle   *)
(* watch that hears of a death, the TunnelManager, and the HTTP registry   *)
(* with its catalog refreshes and long polls.                              *)
(*                                                                         *)
(* A tunnel's closer settles within its microtasks, so a chain of awaits   *)
(* on closers is one step; creating a tunnel and discovering its services  *)
(* are not.  Tunnels are numbered as they come up and stand for their      *)
(* addresses, which the device makes up anew for each.                     *)
(***************************************************************************)
EXTENDS Integers, FiniteSets

CONSTANTS
    DeviceIds,      \* usbmux entries of the device (USB, Network)
    Refreshers,     \* POST refresh-services requests
    Polls,          \* GET requests with waitMs > 0
    RetryLimits,    \* values of --reconnect-retries to choose from
    MaxTunnels,     \* bound: tunnels that come up
    MaxPuts         \* bound: PUT requests

NoReconnect == -1   \* --reconnect-retries not given; 0 is "unlimited"
Tunnels == 1 .. MaxTunnels
TunnelOrNone == 0 .. MaxTunnels
NoEntry == [tunnel |-> 0, catalog |-> 0, announced |-> FALSE]
NoDiscovery == [tunnel |-> 0, live |-> FALSE]

ASSUME BoundsAssumption == MaxTunnels \in Nat \ {0} /\ MaxPuts \in Nat
ASSUME RetriesAssumption == RetryLimits \subseteq Nat \cup {NoReconnect}

VARIABLES
    limit,          \* reconnectRetries
    attached,       \* attachedByDeviceId
    watched,        \* the udid is in watchedUdids and devicesByUdid
    booting,        \* main() has not come to the watcher yet
    job,            \* what the watcher and the reconnect of the udid await
    attempt,        \* attempts made, if they are limited
    state,          \* of each tunnel: unused, up or down
    active,         \* entries of TunnelManager that are isActive
    established,    \* establishedTunnelsByUdid
    watch,          \* lifecycleWatchStopByUdid: the tunnel it watches
    armed,          \* tunnels whose death will run finalize()
    entry,          \* registry.tunnels[udid]
    discovery,      \* inFlightByUdid: the tunnel asked, and was it up
    refresh,        \* the entry each running refresh was called with
    poll,           \* of each long poll: new, waiting, served or rejected
    puts

deviceVars == <<limit, attached, watched, booting>>
tunnelVars == <<state, active, established, watch, armed>>
requestVars == <<refresh, poll, puts>>
vars == <<deviceVars, job, attempt, tunnelVars, entry, discovery, requestVars>>

Jobs == {"watcher", "reconnect"}
At(where, t) == [at |-> where, tunnel |-> t]
JobStates == [at : {"creating", "publishing", "sleeping", "subscribing", "idle", "none",
                    "exited"}, tunnel : TunnelOrNone]

\* The device has at most one entry; announced tells whether waiters were
\* resolved with it, which upsertReadyEntry() does and a PUT does not.
Entries == [tunnel : TunnelOrNone, catalog : TunnelOrNone, announced : BOOLEAN]

\* A non-empty catalog of services.
isTunnelEntryReady(e) == e.catalog # 0

Up(t) == t \in Tunnels /\ state[t] = "up"
Waiting == {p \in Polls : poll[p] = "waiting"}
Refreshing == {r \in Refreshers : refresh[r] # NoEntry}
Publishers == {j \in Jobs : job[j].at = "publishing"}
WatcherIdle == job["watcher"].at = "idle"
Running == job["watcher"].at # "exited"

Init ==
    /\ limit \in RetryLimits
    /\ attached = {} /\ watched \in BOOLEAN /\ booting = watched
    /\ job = [watcher |-> At(IF watched THEN "creating" ELSE "subscribing", 0),
              reconnect |-> At("none", 0)]
    /\ attempt = 0
    /\ state = [t \in Tunnels |-> "unused"] /\ active = {}
    /\ established = 0 /\ watch = 0 /\ armed = {}
    /\ entry = NoEntry /\ discovery = NoDiscovery
    /\ refresh = [r \in Refreshers |-> NoEntry]
    /\ poll = [p \in Polls |-> "new"] /\ puts = 0

-----------------------------------------------------------------------------
\* TunnelReadinessCoordinator rejects all waiters of the udid or resolves all.
markPending == poll' = [p \in Polls |-> IF poll[p] = "waiting" THEN "rejected" ELSE poll[p]]
resolveReady == poll' = [p \in Polls |-> IF poll[p] = "waiting" THEN "served" ELSE poll[p]]

\* The tunnels once the closers of those in ts ran.
Closed(ts) == [t \in Tunnels |-> IF t \in ts /\ state[t] = "up" THEN "down" ELSE state[t]]

\* discoverServices(): joins what is in flight for the udid, else asks tunnel t.
discoverServices(t) ==
    discovery' = IF discovery # NoDiscovery THEN discovery
                 ELSE [tunnel |-> t, live |-> t \in Tunnels /\ state'[t] = "up"]

\* Mutant: its closer is not run.
removeDetachedDevice_KeepTunnel ==
    /\ armed' = armed \ {watch} /\ watch' = 0
    /\ entry' = NoEntry /\ markPending
    /\ established' = 0
    /\ UNCHANGED <<state, active>>

\* removeDetachedDevice().
removeDetachedDevice ==
    /\ armed' = armed \ {watch} /\ watch' = 0
    /\ entry' = NoEntry /\ markPending
    /\ state' = Closed({established}) /\ established' = 0
    /\ UNCHANGED active

\* The job j ends; the start goes on to the watcher.
Rest(j) == At(IF j = "reconnect" THEN "none" ELSE IF booting THEN "subscribing" ELSE "idle", 0)
Ends(j) ==
    /\ job' = [job EXCEPT ![j] = Rest(j)]
    /\ booting' = (booting /\ j # "watcher")

-----------------------------------------------------------------------------
(* Creating a tunnel: createTunnelForDevice(), and what its callers do.    *)

NextTunnel(t) == state[t] = "unused" /\ \A u \in 1 .. t - 1 : state[u] # "unused"

\* Mutant: the old watch is stopped after the new one is set.
TunnelUp_StopLast(j, t) ==
    /\ job[j].at = "creating" /\ NextTunnel(t)
    /\ state' = [Closed({established}) EXCEPT ![t] = "up"]
    /\ active' = active \cup {t} /\ established' = t
    /\ armed' = (armed \cup {t}) \ {watch, t} /\ watch' = t
    /\ markPending /\ discoverServices(t)
    /\ job' = [job EXCEPT ![j] = At("publishing", t)]
    /\ UNCHANGED <<deviceVars, attempt, entry, refresh, puts>>

\* getTunnel() and registerEstablishedTunnel() close what was established; the
\* lifecycle watch is attached and the discovery for the entry starts.
TunnelUp(j, t) ==
    /\ job[j].at = "creating" /\ NextTunnel(t)
    /\ state' = [Closed({established}) EXCEPT ![t] = "up"]
    /\ active' = active \cup {t} /\ established' = t
    /\ armed' = (armed \ {watch}) \cup {t} /\ watch' = t
    /\ markPending /\ discoverServices(t)
    /\ job' = [job EXCEPT ![j] = At("publishing", t)]
    /\ UNCHANGED <<deviceVars, attempt, entry, refresh, puts>>

\* A tunnel without an RSD port is not published: the handler of an attach
\* tears it down again, the others leave it.
UnpublishableUp(j, t) ==
    /\ job[j].at = "creating" /\ NextTunnel(t)
    /\ active' = active \cup {t}
    /\ IF j = "watcher" /\ ~booting
       THEN /\ state' = [Closed({established}) EXCEPT ![t] = "down"] /\ established' = 0
            /\ armed' = armed \ {watch} /\ watch' = 0
            /\ entry' = NoEntry /\ markPending
       ELSE /\ state' = [Closed({established}) EXCEPT ![t] = "up"] /\ established' = t
            /\ armed' = (armed \ {watch}) \cup {t} /\ watch' = t
            /\ UNCHANGED <<entry, poll>>
    /\ Ends(j)
    /\ UNCHANGED <<limit, attached, watched, attempt, discovery, refresh, puts>>

\* The attempt fails; a reconnect pauses.
CreateFails(j) ==
    /\ job[j].at = "creating"
    /\ IF j = "reconnect"
       THEN job' = [job EXCEPT ![j].at = "sleeping"] /\ UNCHANGED booting
       ELSE Ends(j)
    /\ UNCHANGED <<limit, attached, watched, attempt, tunnelVars, entry, discovery, requestVars>>

\* The head of the loop of runReconnectAttempts().
Retry ==
    /\ job["reconnect"].at = "sleeping"
    /\ IF watched /\ (limit = 0 \/ attempt < limit)
       THEN /\ job' = [job EXCEPT !["reconnect"].at = "creating"]
            /\ attempt' = IF limit = 0 THEN 0 ELSE attempt + 1
            /\ markPending
            /\ UNCHANGED booting
       ELSE Ends("reconnect") /\ UNCHANGED <<attempt, poll>>
    /\ UNCHANGED <<limit, attached, watched, tunnelVars, entry, discovery, refresh, puts>>

\* Mutant: reconnects without the option, with as many attempts as it says.
reconnectTunnelByUdid_Always ==
    IF job["reconnect"].at = "none" /\ watched
    THEN job' = [job EXCEPT !["reconnect"] = At("creating", 0)] /\ attempt' = limit
    ELSE UNCHANGED <<job, attempt>>

\* reconnectTunnelByUdid(): one run at a time, while the device is known.
reconnectTunnelByUdid ==
    IF limit # NoReconnect /\ job["reconnect"].at = "none" /\ watched
    THEN /\ job' = [job EXCEPT !["reconnect"] = At("creating", 0)]
         /\ attempt' = IF limit = 0 THEN 0 ELSE 1
    ELSE UNCHANGED <<job, attempt>>

\* Mutant: a death during a reconnect is left to the reconnect.
Die_LeftToReconnect(t) ==
    /\ state[t] = "up"
    /\ armed' = armed \ {t}
    /\ IF t \in armed /\ entry # NoEntry /\ job["reconnect"].at = "none"
       THEN /\ entry' = NoEntry /\ markPending
            /\ state' = Closed({t} \cup (active \cap {entry.tunnel}))
            /\ active' = active \ {entry.tunnel}
            /\ established' = IF established = entry.tunnel THEN 0 ELSE established
            /\ reconnectTunnelByUdid
       ELSE /\ state' = Closed({t})
            /\ UNCHANGED <<entry, poll, active, established, job, attempt>>
    /\ UNCHANGED <<deviceVars, watch, discovery, refresh, puts>>

\* The native forwarder of t exits.  Its tunnel is stopped; finalize() runs if
\* it is registered, and tears down the tunnel that the entry names.
Die(t) ==
    /\ state[t] = "up"
    /\ armed' = armed \ {t}
    /\ IF t \in armed /\ entry # NoEntry
       THEN /\ entry' = NoEntry /\ markPending
            /\ state' = Closed({t} \cup (active \cap {entry.tunnel}))
            /\ active' = active \ {entry.tunnel}
            /\ established' = IF established = entry.tunnel THEN 0 ELSE established
            /\ reconnectTunnelByUdid
       ELSE /\ state' = Closed({t})
            /\ UNCHANGED <<entry, poll, active, established, job, attempt>>
    /\ UNCHANGED <<deviceVars, watch, discovery, refresh, puts>>

-----------------------------------------------------------------------------
(* The usbmux watcher handles one event at a time.                         *)

\* Mutant: an attach does not wait for the reconnect.
handleAttach_DuringReconnect(d) ==
    /\ WatcherIdle
    /\ attached' = attached \cup {d} /\ watched' = TRUE
    /\ job' = IF established # 0 THEN job ELSE [job EXCEPT !["watcher"].at = "creating"]
    /\ UNCHANGED <<limit, booting, attempt, tunnelVars, entry, discovery, requestVars>>

handleAttach(d) ==
    /\ WatcherIdle
    /\ attached' = attached \cup {d} /\ watched' = TRUE
    /\ job' = IF established # 0 \/ job["reconnect"].at # "none" THEN job
              ELSE [job EXCEPT !["watcher"].at = "creating"]
    /\ UNCHANGED <<limit, booting, attempt, tunnelVars, entry, discovery, requestVars>>

handleDetach(d) ==
    /\ WatcherIdle /\ d \in attached
    /\ attached' = attached \ {d}
    /\ IF attached # {d}
       THEN UNCHANGED <<watched, tunnelVars, entry, poll>>
       ELSE watched' = FALSE /\ removeDetachedDevice
    /\ UNCHANGED <<limit, booting, job, attempt, discovery, refresh, puts>>

\* A subscription begins or begins again: detachDevicesMissingFromUsbmux().
Subscribe(listed) ==
    /\ job["watcher"].at \in {"subscribing", "idle"}
    /\ job' = [job EXCEPT !["watcher"].at = "idle"] /\ attached' = {}
    /\ IF listed \/ ~watched
       THEN UNCHANGED <<watched, tunnelVars, entry, poll>>
       ELSE watched' = FALSE /\ removeDetachedDevice
    /\ UNCHANGED <<limit, booting, attempt, discovery, refresh, puts>>

-----------------------------------------------------------------------------
(* The end of a discovery reaches everyone who joined it: publishers write *)
(* the entries of their tunnels in the order they joined, then refreshes   *)
(* those they were called with, as they wait behind more promises.         *)

LastWritten ==
    IF Refreshing # {} THEN {refresh[r].tunnel : r \in Refreshing}
    ELSE {t \in {job[j].tunnel : j \in Publishers} : \A j \in Publishers : job[j].tunnel <= t}

\* Mutant: the entry is written and the waiters are forgotten.
Discovered_Silent ==
    /\ discovery.live
    /\ \E t \in LastWritten :
          entry' = [tunnel |-> t, catalog |-> discovery.tunnel, announced |-> TRUE]
    /\ job' = [j \in Jobs |-> IF j \in Publishers THEN Rest(j) ELSE job[j]]
    /\ booting' = (booting /\ "watcher" \notin Publishers)
    /\ discovery' = NoDiscovery /\ refresh' = [r \in Refreshers |-> NoEntry]
    /\ UNCHANGED <<limit, attached, watched, attempt, tunnelVars, poll, puts>>

Discovered ==
    /\ discovery.live
    /\ \E t \in LastWritten :
          entry' = [tunnel |-> t, catalog |-> discovery.tunnel, announced |-> TRUE]
    /\ resolveReady
    /\ job' = [j \in Jobs |-> IF j \in Publishers THEN Rest(j) ELSE job[j]]
    /\ booting' = (booting /\ "watcher" \notin Publishers)
    /\ discovery' = NoDiscovery /\ refresh' = [r \in Refreshers |-> NoEntry]
    /\ UNCHANGED <<limit, attached, watched, attempt, tunnelVars, puts>>

\* The rejected start ends the process and all it held.
ProcessExits ==
    /\ job' = [j \in Jobs |-> At("exited", 0)]
    /\ armed' = {} /\ watch' = 0
    /\ entry' = NoEntry /\ markPending
    /\ state' = Closed(Tunnels) /\ established' = 0 /\ active' = {}

\* A failure ends the process at its start, undoes an attach, and leaves the
\* tunnel of a reconnect as it is.
DiscoveryFails ==
    /\ discovery # NoDiscovery
    /\ IF "watcher" \in Publishers /\ booting
       THEN ProcessExits
       ELSE /\ job' = [j \in Jobs |-> IF j \in Publishers
                                      THEN At(IF j = "reconnect" THEN "none" ELSE "idle", 0)
                                      ELSE job[j]]
            /\ IF "watcher" \in Publishers
               THEN removeDetachedDevice
               ELSE UNCHANGED <<tunnelVars, entry, poll>>
    /\ discovery' = NoDiscovery /\ refresh' = [r \in Refreshers |-> NoEntry]
    /\ UNCHANGED <<deviceVars, attempt, puts>>

-----------------------------------------------------------------------------
(* Requests to the registry server.                                        *)

refreshTunnelServices(r) ==
    /\ refresh[r] = NoEntry /\ entry # NoEntry
    /\ refresh' = [refresh EXCEPT ![r] = entry]
    /\ discovery' = IF discovery # NoDiscovery THEN discovery
                    ELSE [tunnel |-> entry.tunnel, live |-> Up(entry.tunnel)]
    /\ UNCHANGED <<deviceVars, job, attempt, tunnelVars, entry, poll, puts>>

getTunnelByUdid(p) ==
    /\ Running /\ poll[p] = "new"
    /\ poll' = [poll EXCEPT ![p] = IF isTunnelEntryReady(entry) THEN "served" ELSE "waiting"]
    /\ UNCHANGED <<deviceVars, job, attempt, tunnelVars, entry, discovery, refresh, puts>>

PollTimeout(p) ==
    /\ poll[p] = "waiting"
    /\ poll' = [poll EXCEPT ![p] = "rejected"]
    /\ UNCHANGED <<deviceVars, job, attempt, tunnelVars, entry, discovery, refresh, puts>>

\* A client writes an entry of its own making; nobody is told.
updateTunnel(t, c) ==
    /\ Running /\ puts < MaxPuts /\ puts' = puts + 1
    /\ entry' = [tunnel |-> t, catalog |-> c, announced |-> FALSE]
    /\ UNCHANGED <<deviceVars, job, attempt, tunnelVars, discovery, refresh, poll>>

-----------------------------------------------------------------------------
Next ==
    \/ \E j \in Jobs, t \in Tunnels : TunnelUp(j, t) \/ UnpublishableUp(j, t)
    \/ \E j \in Jobs : CreateFails(j)
    \/ Retry \/ Discovered \/ DiscoveryFails
    \/ \E t \in Tunnels : Die(t)
    \/ \E d \in DeviceIds : handleAttach(d) \/ handleDetach(d)
    \/ \E listed \in BOOLEAN : Subscribe(listed)
    \/ \E r \in Refreshers : refreshTunnelServices(r)
    \/ \E p \in Polls : getTunnelByUdid(p) \/ PollTimeout(p)
    \/ \E t \in Tunnels, c \in TunnelOrNone : updateTunnel(t, c)

Spec == Init /\ [][Next]_vars

-----------------------------------------------------------------------------
(* Properties.                                                             *)

\* The types of the variables: one tunnel number per place that names one.
TypeOK ==
    /\ limit \in RetryLimits /\ attached \subseteq DeviceIds
    /\ watched \in BOOLEAN /\ booting \in BOOLEAN
    /\ job \in [Jobs -> JobStates]
    /\ attempt \in Nat
    /\ state \in [Tunnels -> {"unused", "up", "down"}] /\ active \subseteq Tunnels
    /\ established \in TunnelOrNone /\ watch \in TunnelOrNone
    /\ armed \subseteq Tunnels
    /\ entry \in Entries /\ refresh \in [Refreshers -> Entries]
    /\ discovery \in [tunnel : TunnelOrNone, live : BOOLEAN]
    /\ poll \in [Polls -> {"new", "waiting", "served", "rejected"}]
    /\ puts \in 0 .. MaxPuts

\* However attaches, detaches, deaths and reconnects overlap, the device has at
\* most one tunnel, the established one: what it replaces is closed
\* (registerEstablishedTunnel(), removeDetachedDevice()).
OneTunnel == \A t \in Tunnels : Up(t) => t = established

\* A tunnel is created only while the device has none, and by one job: an attach
\* is ignored while a tunnel exists or a reconnect runs, and a reconnect begins
\* with the death of the only tunnel.
CreatesAlone ==
    \A j \in Jobs : job[j].at \in {"creating", "sleeping"} =>
        /\ \A t \in Tunnels : ~Up(t)
        /\ \A k \in Jobs \ {j} : job[k].at # "creating"

\* The tunnel that is up is being watched: no stop() of an earlier tunnel's
\* watch and no finalize() took its handler away.
WatchArmed == Up(established) => watch = established /\ established \in armed

\* The death of a tunnel takes its entry off the registry, also when the entry
\* was written by a refresh, and whatever else is in flight.
DeathUnlists == [][\A t \in Tunnels : Up(t) /\ ~Up(t)' => entry'.tunnel # t]_vars

\* No long poll waits while a ready entry is there that the server announced;
\* an entry that a client PUT is not announced.
NoMissedReady == Waiting # {} /\ isTunnelEntryReady(entry) => ~entry.announced

\* A tunnel that died does not keep an attach from creating one, once all that
\* its death set off is over (tunnel-creation.mjs:217).
DeadDoesNotBlock ==
    (WatcherIdle /\ job["reconnect"].at = "none" /\ established # 0) => Up(established)
=============================================================================
