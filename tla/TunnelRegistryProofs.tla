------------------------ MODULE TunnelRegistryProofs ------------------------
(***************************************************************************)
(* Proofs about TunnelRegistry for all devices' entries, requests, limits  *)
(* of retries and bounds.                                                  *)
(***************************************************************************)
EXTENDS TunnelRegistry, TLAPS


\* The numbers of tunnels.
LEMMA TunnelNumbers == 0 \in TunnelOrNone /\ Tunnels \subseteq TunnelOrNone /\ 0 \notin Tunnels
  BY BoundsAssumption DEF Tunnels, TunnelOrNone

\* What a job may be set to.
LEMMA JobStateTypes ==
    /\ \A t \in Tunnels : At("publishing", t) \in JobStates
    /\ \A where \in {"creating", "subscribing", "idle", "none", "exited"} :
          At(where, 0) \in JobStates
    /\ \A j \in Jobs : Rest(j) \in JobStates
    /\ \A s \in JobStates, where \in {"creating", "sleeping", "idle"} :
          [s EXCEPT !.at = where] \in JobStates
  BY TunnelNumbers DEF At, JobStates, Rest

\* The entries that are written.
LEMMA EntryTypes ==
    /\ NoEntry \in Entries
    /\ \A t, c \in TunnelOrNone, b \in BOOLEAN :
          [tunnel |-> t, catalog |-> c, announced |-> b] \in Entries
    /\ \A e \in Entries : e.tunnel \in TunnelOrNone
  BY TunnelNumbers DEF Entries, NoEntry

\* What the parts of an action leave behind.
LEMMA PollTypes ==
    ASSUME TypeOK, markPending \/ resolveReady
    PROVE  poll' \in [Polls -> {"new", "waiting", "served", "rejected"}]
  BY DEF TypeOK, markPending, resolveReady

LEMMA ClosedType ==
    ASSUME TypeOK, NEW ts
    PROVE  Closed(ts) \in [Tunnels -> {"unused", "up", "down"}]
  BY DEF TypeOK, Closed

LEMMA EndsType ==
    ASSUME TypeOK, NEW j \in Jobs, Ends(j)
    PROVE  job' \in [Jobs -> JobStates] /\ booting' \in BOOLEAN
  BY JobStateTypes DEF TypeOK, Ends

LEMMA DetachedTypes ==
    ASSUME TypeOK, removeDetachedDevice
    PROVE  /\ armed' \subseteq Tunnels /\ watch' = 0 /\ established' = 0
           /\ entry' \in Entries /\ active' = active
           /\ state' \in [Tunnels -> {"unused", "up", "down"}]
           /\ poll' \in [Polls -> {"new", "waiting", "served", "rejected"}]
  BY PollTypes, ClosedType, EntryTypes DEF TypeOK, removeDetachedDevice

LEMMA JobNames == "watcher" \in Jobs /\ "reconnect" \in Jobs
  BY DEF Jobs

\* Every variable keeps its type.
THEOREM TypeCorrect == Spec => []TypeOK
<1> USE TunnelNumbers DEF NoDiscovery
<1>1. Init => TypeOK
  BY BoundsAssumption, JobStateTypes, EntryTypes DEF Init, TypeOK, Jobs
<1>2. TypeOK /\ [Next]_vars => TypeOK'
  <2> SUFFICES ASSUME TypeOK, [Next]_vars PROVE TypeOK'
    OBVIOUS
  <2>1. ASSUME NEW j \in Jobs, NEW t \in Tunnels, TunnelUp(j, t) PROVE TypeOK'
    <3>1. job' \in [Jobs -> JobStates]
      BY <2>1, JobStateTypes DEF TunnelUp, TypeOK
    <3>2. state' \in [Tunnels -> {"unused", "up", "down"}]
      BY <2>1, ClosedType DEF TunnelUp
    <3>3. poll' \in [Polls -> {"new", "waiting", "served", "rejected"}]
      BY <2>1, PollTypes DEF TunnelUp
    <3>4. discovery' \in [tunnel : TunnelOrNone, live : BOOLEAN]
      BY <2>1 DEF TunnelUp, discoverServices, TypeOK
    <3> QED
      BY <2>1, <3>1, <3>2, <3>3, <3>4 DEF TunnelUp, deviceVars, TypeOK
  <2>2. ASSUME NEW j \in Jobs, NEW t \in Tunnels, UnpublishableUp(j, t) PROVE TypeOK'
    <3>1. job' \in [Jobs -> JobStates] /\ booting' \in BOOLEAN
      BY <2>2, EndsType DEF UnpublishableUp
    <3>2. state' \in [Tunnels -> {"unused", "up", "down"}]
      BY <2>2, ClosedType DEF UnpublishableUp
    <3>3. poll' \in [Polls -> {"new", "waiting", "served", "rejected"}] /\ entry' \in Entries
      BY <2>2, PollTypes, EntryTypes DEF UnpublishableUp, TypeOK
    <3> QED
      BY <2>2, <3>1, <3>2, <3>3 DEF UnpublishableUp, TypeOK
  <2>3. ASSUME NEW j \in Jobs, CreateFails(j) PROVE TypeOK'
    <3>1. job' \in [Jobs -> JobStates] /\ booting' \in BOOLEAN
      <4>1. CASE j = "reconnect"
        <5>1. [job[j] EXCEPT !.at = "sleeping"] \in JobStates
          BY JobStateTypes DEF TypeOK
        <5> QED
          BY <2>3, <4>1, <5>1 DEF CreateFails, TypeOK
      <4>2. CASE j # "reconnect"
        BY <2>3, <4>2, EndsType DEF CreateFails
      <4> QED
        BY <4>1, <4>2
    <3> QED
      BY <2>3, <3>1 DEF CreateFails, tunnelVars, requestVars, TypeOK
  <2>4. CASE Retry
    <3>1. job' \in [Jobs -> JobStates] /\ booting' \in BOOLEAN
      <4>1. [job["reconnect"] EXCEPT !.at = "creating"] \in JobStates
        BY JobStateTypes, JobNames DEF TypeOK
      <4>2. CASE Ends("reconnect")
        BY <4>2, EndsType, JobNames
      <4>3. CASE /\ job' = [job EXCEPT !["reconnect"].at = "creating"]
                 /\ UNCHANGED booting
        BY <4>1, <4>3 DEF TypeOK
      <4> QED
        BY <2>4, <4>2, <4>3 DEF Retry
    <3>2. poll' \in [Polls -> {"new", "waiting", "served", "rejected"}]
      BY <2>4, PollTypes DEF Retry, TypeOK
    <3>3. attempt' \in Nat
      BY <2>4 DEF Retry, TypeOK
    <3> QED
      BY <2>4, <3>1, <3>2, <3>3 DEF Retry, tunnelVars, TypeOK
  <2>5. CASE Discovered
    <3>1. LastWritten \subseteq TunnelOrNone
      BY EntryTypes DEF LastWritten, Publishers, Refreshing, TypeOK, JobStates
    <3>2. entry' \in Entries
      <4>1. PICK t \in LastWritten :
               entry' = [tunnel |-> t, catalog |-> discovery.tunnel, announced |-> TRUE]
        BY <2>5 DEF Discovered
      <4>2. discovery.tunnel \in TunnelOrNone
        BY DEF TypeOK
      <4> QED
        BY <3>1, <4>1, <4>2, EntryTypes
    <3>3. poll' \in [Polls -> {"new", "waiting", "served", "rejected"}]
      BY <2>5, PollTypes DEF Discovered
    <3>4. job' \in [Jobs -> JobStates] /\ booting' \in BOOLEAN
      BY <2>5, JobStateTypes DEF Discovered, TypeOK
    <3> QED
      BY <2>5, <3>2, <3>3, <3>4, EntryTypes DEF Discovered, tunnelVars, TypeOK
  <2>6. CASE DiscoveryFails
    <3>1. job' \in [Jobs -> JobStates]
      BY <2>6, JobStateTypes DEF DiscoveryFails, ProcessExits, TypeOK
    <3>2. /\ entry' \in Entries /\ state' \in [Tunnels -> {"unused", "up", "down"}]
          /\ armed' \subseteq Tunnels /\ active' \subseteq Tunnels
          /\ watch' \in TunnelOrNone /\ established' \in TunnelOrNone
          /\ poll' \in [Polls -> {"new", "waiting", "served", "rejected"}]
      <4>1. CASE ProcessExits
        BY <4>1, ClosedType, PollTypes, EntryTypes DEF ProcessExits
      <4>2. CASE removeDetachedDevice
        BY <4>2, DetachedTypes DEF TypeOK
      <4>3. CASE UNCHANGED <<tunnelVars, entry, poll>>
        BY <4>3 DEF tunnelVars, TypeOK
      <4> QED
        BY <2>6, <4>1, <4>2, <4>3 DEF DiscoveryFails
    <3> QED
      BY <2>6, <3>1, <3>2, EntryTypes DEF DiscoveryFails, deviceVars, TypeOK
  <2>7. ASSUME NEW t \in Tunnels, Die(t) PROVE TypeOK'
    <3>1. /\ entry' \in Entries /\ state' \in [Tunnels -> {"unused", "up", "down"}]
          /\ poll' \in [Polls -> {"new", "waiting", "served", "rejected"}]
      BY <2>7, ClosedType, PollTypes, EntryTypes DEF Die, TypeOK
    <3>2. job' \in [Jobs -> JobStates] /\ attempt' \in Nat
      BY <2>7, JobStateTypes, JobNames DEF Die, reconnectTunnelByUdid, TypeOK
    <3> QED
      BY <2>7, <3>1, <3>2 DEF Die, deviceVars, TypeOK
  <2>8. ASSUME NEW d \in DeviceIds, handleAttach(d) PROVE TypeOK'
    <3>1. job' \in [Jobs -> JobStates]
      BY <2>8, JobStateTypes, JobNames DEF handleAttach, TypeOK
    <3> QED
      BY <2>8, <3>1 DEF handleAttach, tunnelVars, requestVars, TypeOK
  <2>9. ASSUME NEW d \in DeviceIds, handleDetach(d) PROVE TypeOK'
    BY <2>9, DetachedTypes DEF handleDetach, tunnelVars, TypeOK
  <2>10. ASSUME NEW listed \in BOOLEAN, Subscribe(listed) PROVE TypeOK'
    <3>1. job' \in [Jobs -> JobStates]
      BY <2>10, JobStateTypes, JobNames DEF Subscribe, TypeOK
    <3> QED
      BY <2>10, <3>1, DetachedTypes DEF Subscribe, tunnelVars, TypeOK
  <2>11. ASSUME NEW r \in Refreshers, refreshTunnelServices(r) PROVE TypeOK'
    BY <2>11, EntryTypes DEF refreshTunnelServices, deviceVars, tunnelVars, Up, TypeOK
  <2>12. ASSUME NEW p \in Polls, getTunnelByUdid(p) \/ PollTimeout(p) PROVE TypeOK'
    BY <2>12 DEF getTunnelByUdid, PollTimeout, deviceVars, tunnelVars, TypeOK
  <2>13. ASSUME NEW t \in Tunnels, NEW c \in TunnelOrNone, updateTunnel(t, c) PROVE TypeOK'
    <3>1. puts' \in 0 .. MaxPuts
      BY <2>13, BoundsAssumption DEF updateTunnel, TypeOK
    <3>2. entry' \in Entries
      BY <2>13, EntryTypes DEF updateTunnel
    <3> QED
      BY <2>13, <3>1, <3>2 DEF updateTunnel, deviceVars, tunnelVars, TypeOK
  <2>14. CASE UNCHANGED vars
    BY <2>14 DEF vars, deviceVars, tunnelVars, requestVars, TypeOK
  <2> QED
    BY <2>1, <2>2, <2>3, <2>4, <2>5, <2>6, <2>7, <2>8, <2>9, <2>10, <2>11, <2>12, <2>13,
       <2>14 DEF Next
<1> QED
  BY <1>1, <1>2, PTL DEF Spec

-----------------------------------------------------------------------------
(* The jobs and the tunnels. *)

\* OneTunnel, CreatesAlone and WatchArmed are inductive together: a reconnect
\* begins with the death of the only tunnel, so no other job creates one, and
\* the tunnel that comes up is alone and takes the watch.  Only a reconnect pauses.
TunnelInv == OneTunnel /\ CreatesAlone /\ WatchArmed /\ job["watcher"].at # "sleeping"

\* Closers bring no tunnel up.
LEMMA ClosedUp ==
    ASSUME TypeOK, NEW ts, NEW t \in Tunnels
    PROVE  Closed(ts)[t] = "up" <=> state[t] = "up" /\ t \notin ts
  BY DEF Closed

\* removeDetachedDevice() leaves no tunnel up: the only one is the established one.
LEMMA NoneUp ==
    ASSUME TypeOK, OneTunnel, removeDetachedDevice, NEW t \in Tunnels
    PROVE  state'[t] # "up"
  BY ClosedUp DEF removeDetachedDevice, OneTunnel, Up

LEMMA TunnelStep == TypeOK /\ TunnelInv /\ [Next]_vars => TunnelInv'
<1> SUFFICES ASSUME TypeOK, TunnelInv, [Next]_vars PROVE TunnelInv'
  OBVIOUS
<1> USE TunnelNumbers, JobNames DEF TunnelInv, OneTunnel, CreatesAlone, WatchArmed, Up
<1>1. ASSUME NEW j \in Jobs, NEW t \in Tunnels, TunnelUp(j, t) PROVE TunnelInv'
  <2>1. \A u \in Tunnels : state'[u] = "up" <=> u = t
    BY <1>1, ClosedUp DEF TunnelUp, Closed
  <2>2. \A k \in Jobs : job'[k].at \notin {"creating", "sleeping"}
    BY <1>1 DEF TunnelUp, At, TypeOK
  <2> QED
    BY <1>1, <2>1, <2>2 DEF TunnelUp
<1>2. ASSUME NEW j \in Jobs, NEW t \in Tunnels, UnpublishableUp(j, t) PROVE TunnelInv'
  <2>1. \A u \in Tunnels : state'[u] = "up" => u = t
    BY <1>2, ClosedUp DEF UnpublishableUp, Closed
  <2>2. \A k \in Jobs : job'[k].at \notin {"creating", "sleeping"}
    BY <1>2 DEF UnpublishableUp, Ends, Rest, At, TypeOK
  <2>3. \/ state'[t] = "down"
        \/ established' = t /\ watch' = t /\ t \in armed'
    BY <1>2 DEF UnpublishableUp, Closed
  <2> QED
    BY <2>1, <2>2, <2>3
<1>3. ASSUME NEW j \in Jobs, CreateFails(j) PROVE TunnelInv'
  <2>1. \A k \in Jobs : k # j => job'[k] = job[k]
    BY <1>3 DEF CreateFails, Ends, TypeOK
  <2>2. job[j].at = "creating"
    BY <1>3 DEF CreateFails
  <2>3. job'[j].at # "creating" /\ (j = "watcher" => job'[j].at # "sleeping")
    <3>1. CASE j = "reconnect"
      <4>1. job' = [job EXCEPT ![j].at = "sleeping"]
        BY <1>3, <3>1 DEF CreateFails
      <4>2. job'[j] = [job[j] EXCEPT !.at = "sleeping"]
        BY <4>1 DEF TypeOK
      <4> QED
        BY <4>2, <3>1, JobStateTypes DEF TypeOK
    <3>2. CASE j # "reconnect"
      BY <1>3, <3>2 DEF CreateFails, Ends, Rest, At, TypeOK
    <3> QED
      BY <3>1, <3>2
  <2>4. UNCHANGED tunnelVars
    BY <1>3 DEF CreateFails
  <2> QED
    BY <2>1, <2>2, <2>3, <2>4 DEF tunnelVars
<1>4. CASE Retry
  <2>1. \A k \in Jobs : k # "reconnect" => job'[k] = job[k]
    BY <1>4 DEF Retry, Ends, TypeOK
  <2>2. "reconnect" \in Jobs /\ job["reconnect"].at = "sleeping"
    BY <1>4 DEF Retry
  <2>3. /\ \A t \in Tunnels : state[t] # "up"
        /\ \A k \in Jobs : job[k].at # "creating"
    BY <2>2
  <2>4. UNCHANGED tunnelVars
    BY <1>4 DEF Retry
  <2>5. OneTunnel' /\ WatchArmed'
    BY <2>4 DEF tunnelVars
  <2>6. /\ \A t \in Tunnels : state'[t] # "up"
        /\ \A k \in Jobs : k # "reconnect" => job'[k].at # "creating"
    BY <2>1, <2>3, <2>4 DEF tunnelVars
  <2>7. \A k \in Jobs : k # "reconnect" => job'[k].at # "sleeping"
    BY <2>1, <2>2, JobNames DEF Jobs
  <2> QED
    BY <2>5, <2>6, <2>7
<1>5. CASE Discovered
  <2>1. \A k \in Jobs : job'[k] = job[k] \/ job'[k].at \notin {"creating", "sleeping"}
    BY <1>5 DEF Discovered, Rest, At
  <2> QED
    BY <1>5, <2>1 DEF Discovered, tunnelVars
<1>6. CASE DiscoveryFails
  <2>1. \A k \in Jobs : job'[k] = job[k] \/ job'[k].at \notin {"creating", "sleeping"}
    BY <1>6 DEF DiscoveryFails, ProcessExits, At
  <2>2. CASE ProcessExits
    BY <2>1, <2>2, ClosedUp DEF ProcessExits
  <2>3. CASE removeDetachedDevice
    BY <2>1, <2>3, NoneUp
  <2>4. CASE UNCHANGED <<tunnelVars, entry, poll>>
    BY <2>1, <2>4 DEF tunnelVars
  <2> QED
    BY <1>6, <2>2, <2>3, <2>4 DEF DiscoveryFails
<1>7. ASSUME NEW t \in Tunnels, Die(t) PROVE TunnelInv'
  <2>1. state[t] = "up" /\ t = established
    BY <1>7 DEF Die
  <2>2. \A u \in Tunnels : state'[u] # "up"
    BY <1>7, <2>1, ClosedUp DEF Die
  <2>3. \A k \in Jobs : job[k].at \notin {"creating", "sleeping"}
    BY <2>1
  <2>4. \A k \in Jobs : k # "reconnect" => job'[k] = job[k]
    BY <1>7 DEF Die, reconnectTunnelByUdid, TypeOK
  <2> QED
    BY <2>2, <2>3, <2>4
<1>8. ASSUME NEW d \in DeviceIds, handleAttach(d) PROVE TunnelInv'
  <2>1. CASE job' = job
    BY <1>8, <2>1 DEF handleAttach, tunnelVars
  <2>2. CASE job' # job
    <3>1. established = 0 /\ job["reconnect"].at = "none"
      BY <1>8, <2>2 DEF handleAttach
    <3>2. \A k \in Jobs : k # "watcher" => job'[k] = job[k] /\ k = "reconnect"
      BY <1>8 DEF handleAttach, TypeOK, Jobs
    <3> QED
      BY <1>8, <3>1, <3>2 DEF handleAttach, tunnelVars
  <2> QED
    BY <2>1, <2>2
<1>9. ASSUME NEW d \in DeviceIds, handleDetach(d) PROVE TunnelInv'
  <2>1. CASE removeDetachedDevice
    BY <1>9, <2>1, NoneUp DEF handleDetach
  <2>2. CASE UNCHANGED tunnelVars
    BY <1>9, <2>2 DEF handleDetach, tunnelVars
  <2> QED
    BY <1>9, <2>1, <2>2 DEF handleDetach
<1>10. ASSUME NEW listed \in BOOLEAN, Subscribe(listed) PROVE TunnelInv'
  <2>1. \A k \in Jobs : job'[k] = job[k] \/ job'[k].at = "idle"
    BY <1>10 DEF Subscribe, TypeOK, JobStates
  <2>2. CASE removeDetachedDevice
    BY <2>1, <2>2, NoneUp
  <2>3. CASE UNCHANGED tunnelVars
    BY <2>1, <2>3 DEF tunnelVars
  <2> QED
    BY <1>10, <2>2, <2>3 DEF Subscribe
<1>11. CASE UNCHANGED <<job, tunnelVars>>
  BY <1>11 DEF tunnelVars
<1> QED
  <2>1. ASSUME NEW r \in Refreshers, refreshTunnelServices(r) PROVE UNCHANGED <<job, tunnelVars>>
    BY <2>1 DEF refreshTunnelServices
  <2>2. ASSUME NEW p \in Polls, getTunnelByUdid(p) \/ PollTimeout(p)
        PROVE  UNCHANGED <<job, tunnelVars>>
    BY <2>2 DEF getTunnelByUdid, PollTimeout
  <2>3. ASSUME NEW t \in Tunnels, NEW c \in TunnelOrNone, updateTunnel(t, c)
        PROVE  UNCHANGED <<job, tunnelVars>>
    BY <2>3 DEF updateTunnel
  <2>4. UNCHANGED vars => UNCHANGED <<job, tunnelVars>>
    BY DEF vars
  <2> QED
    BY <1>1, <1>2, <1>3, <1>4, <1>5, <1>6, <1>7, <1>8, <1>9, <1>10, <1>11, <2>1, <2>2, <2>3,
       <2>4 DEF Next

LEMMA TunnelsInductive == Spec => [](TypeOK /\ TunnelInv)
<1>1. Init => TunnelInv
  BY TunnelNumbers DEF Init, TunnelInv, OneTunnel, CreatesAlone, WatchArmed, Up, Jobs, At
<1> QED
  BY <1>1, TunnelStep, TypeCorrect, PTL DEF Spec

\* The device never has two tunnels.
THEOREM OneTunnelSafe == Spec => []OneTunnel
  BY TunnelsInductive, PTL DEF TunnelInv

\* Nothing creates a tunnel beside another tunnel or another creation.
THEOREM CreatesAloneSafe == Spec => []CreatesAlone
  BY TunnelsInductive, PTL DEF TunnelInv

\* Whatever tunnel is up is watched.
THEOREM WatchArmedSafe == Spec => []WatchArmed
  BY TunnelsInductive, PTL DEF TunnelInv

-----------------------------------------------------------------------------
(* The registry. *)

\* No death leaves its tunnel listed: the tunnel was the established one, hence
\* armed, and finalize() removes whatever entry is there.
THEOREM DeathUnlistsSafe == Spec => DeathUnlists
<1>1. ASSUME TypeOK, TunnelInv, [Next]_vars, NEW t \in Tunnels, Up(t), ~Up(t)'
      PROVE  entry'.tunnel # t
  <2>1. t = established /\ t \in armed /\ \A j \in Jobs : job[j].at # "creating"
    BY <1>1 DEF TunnelInv, OneTunnel, WatchArmed, CreatesAlone
  <2>2. NoEntry.tunnel # t
    BY TunnelNumbers DEF NoEntry
  <2>3. state'[t] # state[t]
    BY <1>1 DEF Up
  <2>4. CASE removeDetachedDevice \/ ProcessExits
    BY <2>2, <2>4 DEF removeDetachedDevice, ProcessExits
  <2>5. ASSUME NEW u \in Tunnels, Die(u) PROVE entry'.tunnel # t
    <3>1. u = t
      BY <1>1, <2>5 DEF Die, TunnelInv, OneTunnel, Up
    <3> QED
      BY <2>1, <2>2, <2>5, <3>1 DEF Die
  <2> QED
    BY <1>1, <2>1, <2>3, <2>4, <2>5
       DEF Next, vars, tunnelVars, TunnelUp, UnpublishableUp, CreateFails, Retry, Discovered,
           DiscoveryFails, handleAttach, handleDetach, Subscribe, refreshTunnelServices,
           getTunnelByUdid, PollTimeout, updateTunnel
<1>2. TypeOK /\ TunnelInv /\ [Next]_vars => [\A t \in Tunnels : Up(t) /\ ~Up(t)' => entry'.tunnel # t]_vars
  BY <1>1
<1> QED
  BY <1>2, TunnelsInductive, PTL DEF Spec, DeathUnlists

\* Every announcement of a ready entry reaches all that wait for one.
THEOREM NoMissedReadySafe == Spec => []NoMissedReady
<1> USE DEF NoMissedReady, Waiting, isTunnelEntryReady
<1>1. Init => NoMissedReady
  BY DEF Init, NoEntry
<1>2. TypeOK /\ NoMissedReady /\ [Next]_vars => NoMissedReady'
  <2> SUFFICES ASSUME TypeOK, NoMissedReady, [Next]_vars PROVE NoMissedReady'
    OBVIOUS
  <2>1. CASE UNCHANGED <<entry, poll>>
    BY <2>1
  <2>2. CASE markPending \/ resolveReady
    <3>1. \A p \in Polls : poll'[p] # "waiting"
      BY <2>2 DEF markPending, resolveReady
    <3> QED
      BY <3>1
  <2>3. ASSUME NEW p \in Polls, getTunnelByUdid(p) \/ PollTimeout(p) PROVE NoMissedReady'
    BY <2>3 DEF getTunnelByUdid, PollTimeout, TypeOK
  <2>4. ASSUME NEW t \in Tunnels, NEW c \in TunnelOrNone, updateTunnel(t, c)
        PROVE  NoMissedReady'
    BY <2>4 DEF updateTunnel
  <2>5. \/ UNCHANGED <<entry, poll>>
        \/ markPending \/ resolveReady
        \/ \E p \in Polls : getTunnelByUdid(p) \/ PollTimeout(p)
        \/ \E t \in Tunnels, c \in TunnelOrNone : updateTunnel(t, c)
    BY DEF Next, vars, requestVars, TunnelUp, UnpublishableUp, CreateFails, Retry, Discovered,
           DiscoveryFails, ProcessExits, removeDetachedDevice, Die, handleAttach, handleDetach,
           Subscribe, refreshTunnelServices
  <2> QED
    BY <2>1, <2>2, <2>3, <2>4, <2>5
<1> QED
  BY <1>1, <1>2, TypeCorrect, PTL DEF Spec
=============================================================================
