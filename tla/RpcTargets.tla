----------------------------- MODULE RpcTargets -----------------------------
(***************************************************************************)
(* The targets of the remote debugger's RpcClient: selectPage() under its  *)
(* lock, the events about targets that Web Inspector sends for every page  *)
(* that was ever set up, the map from pages to targets they keep, and the  *)
(* initialization of a new target under the lock of its page.              *)
(*                                                                         *)
(* A page is known by its application and its number.  An event names the  *)
(* application only; that a target belongs to the page selected last is    *)
(* what the client assumes.  Events about frames, which it skips, and      *)
(* waitForPage() are left out.                                             *)
(***************************************************************************)
EXTENDS Integers, Sequences, SequencesExt

CONSTANTS
    Apps, Pages,
    Selects,        \* calls of selectPage()
    AskedBefore,    \* pages an earlier session asked to pause new targets
    MaxTargets,     \* bound: targets Web Inspector makes
    MaxWire         \* bound: events on their way

Keys == Apps \X Pages

ASSUME BoundsAssumption == MaxTargets \in Nat /\ MaxWire \in Nat
ASSUME AskedAssumption == AskedBefore \subseteq Keys

App(k) == k[1]
Page(k) == k[2]
Targets == 1 .. MaxTargets
NoTarget == 0

VARIABLES
    select,             \* what each selectPage() is doing, and for which page
    selectionLock,      \* _pageSelectionLock: who holds it and who waits, per page
    pending,            \* _pendingTargetNotification: no page or one
    provisionedPages,   \* _provisionedPages, numbers without their application
    known,              \* applications that have an entry in targets
    targets,            \* page -> its target
    provisional,        \* application -> its provisional target, from and to
    targetLock,         \* the lock of the application, per page
    job,                \* what addTarget() is doing for each target
    pauseOnStart,       \* pages whose new targets may start paused
    attached,           \* pages that were set up: Web Inspector reports on them
    shown,              \* page -> its target on the device
    next,               \* page -> the provisional one of a navigation
    dying,              \* page -> the one a navigation has replaced
    paused,             \* targets that wait to be resumed
    resumeFailed,       \* those of them whose Target.resume failed
    born,               \* targets made so far
    wire                \* events not handled yet

selectVars == <<select, selectionLock>>
mapVars == <<known, targets, provisional>>
jobVars == <<targetLock, job>>
pausedVars == <<paused, resumeFailed>>
deviceVars == <<attached, pauseOnStart, shown, next, dying, pausedVars, born>>
vars == <<selectVars, pending, provisionedPages, mapVars, jobVars, deviceVars, wire>>

NoProvisional == [old |-> NoTarget, new |-> NoTarget]
NoJob == [at |-> "none", key |-> << >>, prov |-> FALSE, isPaused |-> FALSE, ok |-> FALSE,
          expired |-> FALSE]

Init ==
    /\ select = [s \in Selects |-> [at |-> "new", key |-> << >>]]
    /\ selectionLock = [k \in Keys |-> << >>]
    /\ pending = {} /\ provisionedPages = {} /\ known = {}
    /\ targets = [k \in Keys |-> NoTarget]
    /\ provisional = [a \in Apps |-> NoProvisional]
    /\ targetLock = [k \in Keys |-> << >>] /\ job = [t \in Targets |-> NoJob]
    /\ attached = {} /\ pauseOnStart = AskedBefore /\ paused = {} /\ resumeFailed = {}
    /\ born = 0 /\ wire = << >>
    /\ shown = [k \in Keys |-> NoTarget]
    /\ next = [k \in Keys |-> NoTarget]
    /\ dying = [k \in Keys |-> NoTarget]

-----------------------------------------------------------------------------
(* selectPage().                                                           *)

KeyOf(s) == select[s].key
Holds(s) == Head(selectionLock[KeyOf(s)]) = s
\* The call is over, with or without an error, and the lock goes to the next.
Leave(s) ==
    /\ select' = [select EXCEPT ![s] = [at |-> "done", key |-> << >>]]
    /\ selectionLock' = [selectionLock EXCEPT ![KeyOf(s)] = Tail(@)]

SelectPage(s, k) ==
    /\ select[s].at = "new"
    /\ select' = [select EXCEPT ![s] = [at |-> "queued", key |-> k]]
    /\ selectionLock' = [selectionLock EXCEPT ![k] = Append(@, s)]
    /\ UNCHANGED <<pending, provisionedPages, mapVars, jobVars, deviceVars, wire>>

\* With the lock.  A page that has a target is selected already.
BeginSelect(s) ==
    /\ select[s].at = "queued" /\ Holds(s)
    /\ pending' = {KeyOf(s)} /\ provisionedPages' = {}
    /\ IF targets[KeyOf(s)] # NoTarget THEN Leave(s)
       ELSE select' = [select EXCEPT ![s].at = "setup"] /\ UNCHANGED selectionLock
    /\ UNCHANGED <<mapVars, jobVars, deviceVars, wire>>

\* setupWebview() reaches Web Inspector, which reports on the page from then
\* on, and the call waits for the page.
SetupDone(s) ==
    /\ select[s].at = "setup" /\ select' = [select EXCEPT ![s].at = "waiting"]
    /\ attached' = attached \cup {KeyOf(s)}
    /\ UNCHANGED <<selectionLock, pending, provisionedPages, mapVars, jobVars, pauseOnStart,
                   shown, next, dying, pausedVars, born, wire>>

\* It throws, or is not over in time, which does not stop it.
SetupFails(s) ==
    /\ select[s].at = "setup" /\ Leave(s)
    /\ attached' \in {attached, attached \cup {KeyOf(s)}}
    /\ UNCHANGED <<pending, provisionedPages, mapVars, jobVars, pauseOnStart, shown, next,
                   dying, pausedVars, born, wire>>

\* No event: the call goes on without.
SelectTimeout(s) ==
    /\ select[s].at = "waiting" /\ Leave(s)
    /\ UNCHANGED <<pending, provisionedPages, mapVars, jobVars, deviceVars, wire>>

\* ON_PAGE_INITIALIZED_EVENT: only the holder of the lock can be listening.
Emit(k) ==
    LET listens == {s \in Selects : select[s].at = "waiting" /\ KeyOf(s) = k}
    IN IF listens = {} THEN UNCHANGED selectVars
       ELSE \E s \in listens : Leave(s)

-----------------------------------------------------------------------------
(* The events.                                                             *)

\* addTarget() up to its first await.  The event is skipped when no page of the
\* application was selected last.
addTarget(e) ==
    \/ /\ \A k \in pending : App(k) # e.app
       /\ UNCHANGED <<provisionedPages, mapVars, jobVars>>
    \/ \E k \in pending :
       /\ App(k) = e.app /\ known' = known \cup {e.app}
       /\ job' = [job EXCEPT ![e.id] =
                    [at |-> IF e.prov THEN "queued" ELSE "setting", key |-> k, prov |-> e.prov,
                     isPaused |-> e.isPaused, ok |-> FALSE, expired |-> FALSE]]
       /\ IF e.prov
          THEN /\ provisionedPages' = provisionedPages \cup {Page(k)}
               /\ targetLock' = [targetLock EXCEPT ![k] = Append(@, e.id)]
               /\ UNCHANGED targets
          ELSE /\ targets' = [targets EXCEPT ![k] = e.id]
               /\ UNCHANGED <<provisionedPages, targetLock>>
       /\ UNCHANGED provisional

TargetCreated ==
    /\ wire # << >> /\ Head(wire).type = "created" /\ wire' = Tail(wire)
    /\ addTarget(Head(wire))
    /\ UNCHANGED <<selectVars, pending, deviceVars>>

\* updateTarget(), which keeps one provisional target per application.
TargetCommitted ==
    /\ wire # << >> /\ Head(wire).type = "committed" /\ wire' = Tail(wire)
    /\ LET e == Head(wire)
       IN provisional' = IF e.app \in known
                         THEN [provisional EXCEPT ![e.app] = [old |-> e.old, new |-> e.id]]
                         ELSE provisional
    /\ UNCHANGED <<selectVars, pending, provisionedPages, known, targets, jobVars,
                   deviceVars>>

\* Mutant: any provisional target of the application is taken for this one's.
Replaces_Any(e) == provisional[e.app].old # NoTarget
Replaces(e) == provisional[e.app].old = e.id

\* removeTarget(): the page of the target gets the one that replaces it, or
\* none.  A target is in the map once.
removeTarget(e) ==
    LET from == IF Replaces(e) THEN provisional[e.app].old ELSE e.id
        to == IF Replaces(e) THEN provisional[e.app].new ELSE NoTarget
    IN /\ targets' = [k \in Keys |-> IF App(k) = e.app /\ targets[k] = from THEN to
                                     ELSE targets[k]]
       /\ provisional' = IF Replaces(e) THEN [provisional EXCEPT ![e.app] = NoProvisional]
                         ELSE provisional

\* For an application without an entry the handler throws and has changed nothing.
\* Nobody awaits it: the host ends for that, and takes no step after this one, or
\* it was told to go on.
TargetDestroyed ==
    /\ wire # << >> /\ Head(wire).type = "destroyed" /\ wire' = Tail(wire)
    /\ IF Head(wire).app \in known THEN removeTarget(Head(wire))
       ELSE UNCHANGED <<targets, provisional>>
    /\ UNCHANGED <<selectVars, pending, provisionedPages, known, jobVars, deviceVars>>

-----------------------------------------------------------------------------
(* addTarget() after its first await.                                      *)

Queued(t) == job[t].at = "queued" /\ Head(targetLock[job[t].key]) = t

\* Target.setPauseOnStart is answered, or fails with or without effect.
AskToPause(t) ==
    /\ pauseOnStart' \in {pauseOnStart, pauseOnStart \cup {job[t].key}}
    /\ UNCHANGED <<selectVars, pending, provisionedPages, mapVars, attached, shown, next,
                   dying, pausedVars, born, wire>>

\* Mutant: the page is initialized without its lock.
PauseOnStartSet_Unlocked(t) ==
    /\ job[t].at = "setting" /\ AskToPause(t)
    /\ job' = [job EXCEPT ![t].at = "initializing"] /\ UNCHANGED targetLock

PauseOnStartSet(t) ==
    /\ job[t].at = "setting" /\ AskToPause(t)
    /\ job' = [job EXCEPT ![t].at = "queued"]
    /\ targetLock' = [targetLock EXCEPT ![job[t].key] = Append(@, t)]

\* The function run under the lock ends.  The lock is free for the next, and
\* the page of a target that is not provisional is reported initialized, once.
Over(t) ==
    /\ targetLock' = [targetLock EXCEPT ![job[t].key] = Tail(@)]
    /\ job' = [job EXCEPT ![t] = [NoJob EXCEPT !.at = "over"]]
    /\ IF job[t].prov \/ job[t].expired THEN UNCHANGED selectVars ELSE Emit(job[t].key)

Goes(t, place, ok) ==
    /\ job' = [job EXCEPT ![t].at = place, ![t].ok = ok]
    /\ UNCHANGED <<targetLock, selectVars>>

\* Mutant: a target of a page that needs no initialization is not resumed.
AfterInit_OnlyInitialized(t, ok) ==
    IF job[t].isPaused /\ (ok \/ job[t].prov) THEN Goes(t, "resuming", ok)
    ELSE IF ok THEN Goes(t, "readying", ok) ELSE Over(t)

\* What follows the initialization, that of a page provisioned before or that
\* met a target gone missing included.
AfterInit(t, ok) ==
    IF job[t].isPaused THEN Goes(t, "resuming", ok)
    ELSE IF ok THEN Goes(t, "readying", ok) ELSE Over(t)

BeginJob(t) ==
    /\ Queued(t)
    /\ IF ~job[t].prov /\ Page(job[t].key) \in provisionedPages
       THEN /\ provisionedPages' = provisionedPages \ {Page(job[t].key)}
            /\ AfterInit(t, FALSE)
       ELSE Goes(t, "initializing", FALSE) /\ UNCHANGED provisionedPages
    /\ UNCHANGED <<pending, mapVars, deviceVars, wire>>

\* _initializePage(): the commands are answered, or the target is missing.
PageInitialized(t, ok) ==
    /\ job[t].at = "initializing" /\ AfterInit(t, ok)
    /\ UNCHANGED <<pending, provisionedPages, mapVars, deviceVars, wire>>

\* _resumeTarget().  A Target.resume that fails is logged and passed over, and the
\* target stays paused.  (Where only its answer is lost, it is as if it had not
\* failed.)
resumeTarget(t) ==
    /\ job[t].at = "resuming"
    /\ \/ paused' = paused \ {t} /\ UNCHANGED resumeFailed
       \/ resumeFailed' = resumeFailed \cup ({t} \cap paused) /\ UNCHANGED paused
    /\ IF job[t].ok THEN Goes(t, "readying", TRUE) ELSE Over(t)
    /\ UNCHANGED <<pending, provisionedPages, mapVars, attached, pauseOnStart, shown, next,
                   dying, born, wire>>

\* _waitForPageReadiness() ends, by its own clock if need be.
PageReady(t) ==
    /\ job[t].at = "readying" /\ Over(t)
    /\ UNCHANGED <<pending, provisionedPages, mapVars, deviceVars, wire>>

\* The lock is held too long.  It is asyncbox's, taken to count from the moment
\* the lock is granted and to keep it for a function that goes on: addTarget() is
\* told and reports the page, and the function runs to its end.
OccupationExpires(t) ==
    /\ job[t].at \in {"initializing", "resuming", "readying"} /\ ~job[t].prov /\ ~job[t].expired
    /\ job' = [job EXCEPT ![t].expired = TRUE] /\ UNCHANGED targetLock
    /\ Emit(job[t].key)
    /\ UNCHANGED <<pending, provisionedPages, mapVars, deviceVars, wire>>

-----------------------------------------------------------------------------
(* Web Inspector.  What it says of one page is in order.                   *)

Event(type, a, id, old, prov, isPaused) ==
    Len(wire) < MaxWire /\ wire' = Append(wire, [type |-> type, app |-> a, id |-> id, old |-> old, prov |-> prov,
                          isPaused |-> isPaused])
DeviceOnly == UNCHANGED <<selectVars, pending, provisionedPages, mapVars, jobVars, attached,
                          pauseOnStart>>

NewTarget(k, prov, isPaused) ==
    /\ born < MaxTargets /\ born' = born + 1
    /\ isPaused => k \in pauseOnStart
    /\ paused' = IF isPaused THEN paused \cup {born + 1} ELSE paused
    /\ UNCHANGED resumeFailed
    /\ Event("created", App(k), born + 1, NoTarget, prov, isPaused)

\* A page that was set up gets a target; a navigation makes a provisional one,
Show(k, isPaused) ==
    /\ k \in attached /\ shown[k] = NoTarget /\ NewTarget(k, FALSE, isPaused)
    /\ shown' = [shown EXCEPT ![k] = born + 1]
    /\ UNCHANGED <<next, dying>> /\ DeviceOnly

Navigate(k, isPaused) ==
    /\ shown[k] # NoTarget /\ next[k] = NoTarget /\ dying[k] = NoTarget
    /\ NewTarget(k, TRUE, isPaused) /\ next' = [next EXCEPT ![k] = born + 1]
    /\ UNCHANGED <<shown, dying>> /\ DeviceOnly

\* which takes over once it runs, and then the other one goes.
Commit(k) ==
    /\ next[k] # NoTarget /\ next[k] \notin paused
    /\ Event("committed", App(k), next[k], shown[k], FALSE, FALSE)
    /\ dying' = [dying EXCEPT ![k] = shown[k]] /\ shown' = [shown EXCEPT ![k] = next[k]]
    /\ next' = [next EXCEPT ![k] = NoTarget]
    /\ UNCHANGED <<pausedVars, born>> /\ DeviceOnly

Destroy(k, t) ==
    /\ t # NoTarget /\ Event("destroyed", App(k), t, NoTarget, FALSE, FALSE)
    /\ \/ dying[k] = t /\ dying' = [dying EXCEPT ![k] = NoTarget] /\ UNCHANGED <<shown, next>>
       \/ next[k] = t /\ next' = [next EXCEPT ![k] = NoTarget] /\ UNCHANGED <<shown, dying>>
       \/ /\ shown[k] = t /\ next[k] = NoTarget /\ dying[k] = NoTarget
          /\ shown' = [shown EXCEPT ![k] = NoTarget] /\ UNCHANGED <<next, dying>>
    /\ paused' = paused \ {t} /\ resumeFailed' = resumeFailed \ {t}
    /\ UNCHANGED born /\ DeviceOnly

Handle == TargetCreated \/ TargetCommitted \/ TargetDestroyed
Select(s) == BeginSelect(s) \/ SetupDone(s) \/ SetupFails(s) \/ SelectTimeout(s)
Job(t) == \/ PauseOnStartSet(t) \/ BeginJob(t) \/ resumeTarget(t) \/ PageReady(t)
          \/ \E ok \in BOOLEAN : PageInitialized(t, ok)
Device(k) == \/ \E p \in BOOLEAN : Show(k, p) \/ Navigate(k, p)
             \/ Commit(k) \/ \E t \in Targets : Destroy(k, t)

Next == \/ Handle
        \/ \E s \in Selects : Select(s) \/ \E k \in Keys : SelectPage(s, k)
        \/ \E t \in Targets : Job(t) \/ OccupationExpires(t)
        \/ \E k \in Keys : Device(k)

Spec == Init /\ [][Next]_vars

-----------------------------------------------------------------------------
(* Properties.                                                             *)

Ids == Targets \cup {NoTarget}
Live == {shown[k] : k \in Keys} \cup {next[k] : k \in Keys} \cup {dying[k] : k \in Keys}
InSelection == {"queued", "setup", "waiting"}
UnderLock == {"queued", "initializing", "resuming", "readying"}

\* Every variable has its type, a lock is queued for by those it serves, once,
\* and only its holder is past the queue.
TypeOK ==
    /\ \A s \in Selects : select[s].at \in InSelection \cup {"new", "done"}
    /\ \A k \in Keys :
        /\ IsInjective(selectionLock[k]) /\ IsInjective(targetLock[k])
        /\ Range(selectionLock[k]) = {s \in Selects : KeyOf(s) = k /\ select[s].at \in InSelection}
        /\ Range(targetLock[k]) = {t \in Targets : job[t].key = k /\ job[t].at \in UnderLock}
        /\ \A i \in DOMAIN targetLock[k] : i > 1 => job[targetLock[k][i]].at = "queued"
        /\ \A i \in DOMAIN selectionLock[k] : i > 1 => select[selectionLock[k][i]].at = "queued"
    /\ \A t \in Targets : job[t].at \in UnderLock \cup {"none", "setting", "over"}
    /\ pending \subseteq Keys /\ provisionedPages \subseteq Pages /\ known \subseteq Apps
    /\ targets \in [Keys -> Ids] /\ provisional \in [Apps -> [old : Ids, new : Ids]]
    /\ attached \cup pauseOnStart \subseteq Keys /\ born \in Ids
    /\ paused \subseteq Targets /\ resumeFailed \subseteq Targets
    /\ shown \in [Keys -> Ids] /\ next \in [Keys -> Ids] /\ dying \in [Keys -> Ids]

\* The map never keeps a target that is gone: what getTarget() returns exists,
\* or the event of its end is on its way.
NoDeadTarget ==
    \A k \in Keys : targets[k] # NoTarget =>
        \/ targets[k] \in Live
        \/ \E i \in DOMAIN wire : wire[i].type = "destroyed" /\ wire[i].id = targets[k]

\* A target whose creation was handled to the end was resumed, or Target.resume
\* itself failed for it: no page hangs because its initialization failed or met a
\* target gone missing, took so long that addTarget() was told the lock had
\* expired, or was not needed because the page had been provisioned.
Resumed == \A t \in Targets : job[t].at = "over" /\ t \in paused => t \in resumeFailed
=============================================================================
