-------------------------- MODULE RpcTargetsProofs --------------------------
(***************************************************************************)
(* Proofs about RpcTargets, for any applications, pages and calls and any  *)
(* numbers of targets and of events on their way.                          *)
(***************************************************************************)
EXTENDS RpcTargets, SequenceTheorems, TLAPS

MaybeKeys == Keys \cup {<< >>}
SelectStages == InSelection \cup {"new", "done"}
JobStages == UnderLock \cup {"none", "setting", "over"}
SelectSet == [at : SelectStages, key : MaybeKeys]
JobSet == [at : JobStages, key : MaybeKeys, prov : BOOLEAN, isPaused : BOOLEAN, ok : BOOLEAN,
           expired : BOOLEAN]
EventSet == [type : {"created", "committed", "destroyed"}, app : Apps, id : Targets,
             old : Ids, prov : BOOLEAN, isPaused : BOOLEAN]

\* A queue q of those in In, each once, in which all but the first are in W.
Orderly(q, In, W) ==
    IsInjective(q) /\ Range(q) = In /\ \A i \in DOMAIN q : i > 1 => q[i] \in W

\* The lock of page selection is queued for by the calls that are selecting, and
\* only its holder is past the queue.
Selecting(k) == {s \in Selects : KeyOf(s) = k /\ select[s].at \in InSelection}
StillQueued == {s \in Selects : select[s].at = "queued"}
SelectInv ==
    /\ select \in [Selects -> SelectSet] /\ selectionLock \in [Keys -> Seq(Selects)]
    /\ \A s \in Selects : select[s].at \in InSelection => KeyOf(s) \in Keys
    /\ \A k \in Keys : Orderly(selectionLock[k], Selecting(k), StillQueued)

\* So is the lock of a page by the targets being initialized.
Initializing(k) == {t \in Targets : job[t].key = k /\ job[t].at \in UnderLock}
JobsQueued == {t \in Targets : job[t].at = "queued"}
JobInv ==
    /\ job \in [Targets -> JobSet] /\ targetLock \in [Keys -> Seq(Targets)]
    /\ \A t \in Targets : job[t].at \in UnderLock \cup {"setting"} => job[t].key \in Keys
    /\ \A k \in Keys : Orderly(targetLock[k], Initializing(k), JobsQueued)

MapTypes ==
    /\ pending \subseteq Keys /\ provisionedPages \subseteq Pages /\ known \subseteq Apps
    /\ targets \in [Keys -> Ids] /\ provisional \in [Apps -> [old : Ids, new : Ids]]
DeviceTypes ==
    /\ attached \subseteq Keys /\ pauseOnStart \subseteq Keys /\ born \in Ids
    /\ paused \subseteq Targets /\ resumeFailed \subseteq Targets
    /\ shown \in [Keys -> Ids] /\ next \in [Keys -> Ids] /\ dying \in [Keys -> Ids]
    /\ wire \in Seq(EventSet)

\* A target is announced once, before anything is done for it.
Announced ==
    /\ \A i \in DOMAIN wire : wire[i].type = "created" =>
         /\ wire[i].id <= born /\ job[wire[i].id].at = "none"
         /\ \A j \in DOMAIN wire : wire[j].type = "created" /\ wire[j].id = wire[i].id => j = i
    /\ \A t \in Targets : job[t].at # "none" => t <= born

Base == SelectInv /\ JobInv /\ MapTypes /\ DeviceTypes /\ Announced

LEMMA Numbers ==
    /\ MaxTargets \in Nat /\ Targets = 1 .. MaxTargets /\ NoTarget = 0
    /\ Ids = 0 .. MaxTargets /\ NoTarget \notin Targets
  BY BoundsAssumption DEF BoundsAssumption, Targets, NoTarget, Ids

LEMMA KeyParts == \A k \in Keys : App(k) \in Apps /\ Page(k) \in Pages
  BY DEF Keys, App, Page

-----------------------------------------------------------------------------
(* Queues                                                                  *)

LEMMA First ==
    ASSUME NEW S, NEW q \in Seq(S), NEW In, NEW W, NEW x \in In, Orderly(q, In, W),
           x \notin W \/ Head(q) = x
    PROVE  q # << >> /\ Head(q) = x
<1>1. PICK i \in DOMAIN q : q[i] = x
  BY DEF Orderly, Range
<1>2. DOMAIN q = 1 .. Len(q) /\ Len(q) \in Nat
  OBVIOUS
<1> QED
  BY <1>1, <1>2 DEF Orderly

LEMMA Appended ==
    ASSUME NEW S, NEW q \in Seq(S), NEW x \in S, NEW In, NEW W, NEW In2, NEW W2,
           Orderly(q, In, W), x \notin In, In2 = In \cup {x}, x \in W2,
           \A y \in In : y \in W => y \in W2
    PROVE  Append(q, x) \in Seq(S) /\ Orderly(Append(q, x), In2, W2)
<1> DEFINE r == Append(q, x)
<1>1. /\ r \in Seq(S) /\ Len(r) = Len(q) + 1 /\ DOMAIN r = 1 .. Len(q) + 1
      /\ DOMAIN q = 1 .. Len(q) /\ Len(q) \in Nat
      /\ r[Len(q) + 1] = x /\ \A i \in 1 .. Len(q) : r[i] = q[i]
  BY AppendProperties
<1> HIDE DEF r
<1>2. \A i \in DOMAIN q : q[i] \in In
  BY DEF Orderly, Range
<1>3. IsInjective(r)
  BY <1>1, <1>2 DEF Orderly, IsInjective
<1>4. Range(r) = In2
  <2>1. \A y \in In : \E i \in DOMAIN r : r[i] = y
    BY <1>1 DEF Orderly, Range
  <2>2. \A i \in DOMAIN r : r[i] \in In2
    BY <1>1, <1>2
  <2>3. \E i \in DOMAIN r : r[i] = x
    BY <1>1
  <2> QED
    BY <2>1, <2>2, <2>3 DEF Range
<1>5. \A i \in DOMAIN r : i > 1 => r[i] \in W2
  BY <1>1, <1>2 DEF Orderly
<1> QED
  BY <1>1, <1>3, <1>4, <1>5 DEF Orderly, r

LEMMA Removed ==
    ASSUME NEW S, NEW q \in Seq(S), q # << >>, NEW In, NEW W, NEW In2, NEW W2,
           Orderly(q, In, W), In2 = In \ {Head(q)},
           \A y \in In : y # Head(q) /\ y \in W => y \in W2
    PROVE  Tail(q) \in Seq(S) /\ Orderly(Tail(q), In2, W2)
<1> DEFINE r == Tail(q)
<1>1. /\ r \in Seq(S) /\ Len(r) = Len(q) - 1 /\ Len(q) \in Nat \ {0}
      /\ DOMAIN r = 1 .. Len(q) - 1 /\ DOMAIN q = 1 .. Len(q)
      /\ Head(q) = q[1] /\ \A i \in 1 .. Len(q) - 1 : r[i] = q[i + 1]
  BY HeadTailProperties, EmptySeq
<1> HIDE DEF r
<1>2. \A i \in DOMAIN q : q[i] \in In /\ (i # 1 => q[i] # Head(q))
  BY <1>1 DEF Orderly, Range, IsInjective
<1>3. IsInjective(r)
  <2> SUFFICES ASSUME NEW a \in DOMAIN r, NEW b \in DOMAIN r, r[a] = r[b] PROVE a = b
    BY DEF IsInjective
  <2>1. a + 1 \in DOMAIN q /\ b + 1 \in DOMAIN q /\ q[a + 1] = q[b + 1]
    BY <1>1
  <2>2. a + 1 = b + 1
    BY <2>1 DEF Orderly, IsInjective
  <2> QED
    BY <1>1, <2>2
<1>4. Range(r) = In2
  <2>1. ASSUME NEW y \in In2 PROVE \E i \in DOMAIN r : r[i] = y
    <3>1. PICK i \in DOMAIN q : q[i] = y
      BY DEF Orderly, Range
    <3>2. i - 1 \in DOMAIN r /\ r[i - 1] = y
      BY <1>1, <2>1, <3>1
    <3> QED
      BY <3>2
  <2>2. \A i \in DOMAIN r : r[i] \in In2
    BY <1>1, <1>2
  <2> QED
    BY <2>1, <2>2 DEF Range
<1>5. \A i \in DOMAIN r : i > 1 => r[i] \in W2
  <2> SUFFICES ASSUME NEW i \in DOMAIN r, i > 1 PROVE r[i] \in W2
    OBVIOUS
  <2>1. i + 1 \in DOMAIN q /\ i + 1 > 1 /\ i + 1 # 1 /\ r[i] = q[i + 1]
    BY <1>1
  <2>2. q[i + 1] \in W /\ q[i + 1] \in In /\ q[i + 1] # Head(q)
    BY <1>2, <2>1 DEF Orderly
  <2> QED
    BY <2>1, <2>2
<1> QED
  BY <1>1, <1>3, <1>4, <1>5 DEF Orderly, r

LEMMA Stayed ==
    ASSUME NEW S, NEW q \in Seq(S), NEW In, NEW W, NEW In2, NEW W2,
           Orderly(q, In, W), In2 = In,
           \A y \in In : (q # << >> => y # Head(q)) /\ y \in W => y \in W2
    PROVE  Orderly(q, In2, W2)
<1>1. ASSUME NEW i \in DOMAIN q, i > 1 PROVE q[i] \in W2
  <2>1. /\ DOMAIN q = 1 .. Len(q) /\ Len(q) \in Nat /\ 1 \in DOMAIN q
        /\ q # << >> /\ Head(q) = q[1]
    BY <1>1
  <2>2. q[i] # q[1] /\ q[i] \in In /\ q[i] \in W
    BY <1>1, <2>1 DEF Orderly, IsInjective, Range
  <2> QED
    BY <2>1, <2>2
<1> QED
  BY <1>1 DEF Orderly
-----------------------------------------------------------------------------
(* The lock of page selection                                              *)

\* A call that is not in the queue any more, or a step within its turn.
LEMMA SelectLeaves ==
    ASSUME SelectInv, NEW s \in Selects, select[s].at \in InSelection,
           select[s].at = "queued" => Holds(s),
           Leave(s)
    PROVE  SelectInv'
<1> DEFINE h == KeyOf(s)
<1>1. /\ h \in Keys /\ s \in Selecting(h) /\ (s \notin StillQueued \/ Head(selectionLock[h]) = s)
      /\ select' = [select EXCEPT ![s] = [at |-> "done", key |-> << >>]]
      /\ selectionLock' = [selectionLock EXCEPT ![h] = Tail(@)]
  BY DEF SelectInv, Selecting, StillQueued, Holds, Leave
<1>2. [at |-> "done", key |-> << >>] \in SelectSet /\ "done" \notin InSelection
  BY DEF SelectSet, MaybeKeys, SelectStages, InSelection
<1>3. select' \in [Selects -> SelectSet]
  BY <1>1, <1>2 DEF SelectInv
<1>4. /\ select'[s].at = "done" /\ \A u \in Selects : u # s => select'[u] = select[u]
  BY <1>1, <1>2 DEF SelectInv
<1>5. \A u \in Selects : select'[u].at \in InSelection => select'[u].key \in Keys
  BY <1>2, <1>4 DEF SelectInv, KeyOf
<1>6. selectionLock[h] # << >> /\ Head(selectionLock[h]) = s
  BY <1>1, First DEF SelectInv
<1>7. ASSUME NEW k \in Keys
      PROVE  selectionLock'[k] \in Seq(Selects)
             /\ Orderly(selectionLock'[k], Selecting(k)', StillQueued')
  <2>1. selectionLock[k] \in Seq(Selects) /\ Orderly(selectionLock[k], Selecting(k), StillQueued)
    BY DEF SelectInv
  <2>2. \A u \in Selecting(k) : u # s /\ u \in StillQueued => u \in StillQueued'
    BY <1>4 DEF StillQueued
  <2>3. CASE k = h
    <3>1. Selecting(k)' = Selecting(k) \ {s}
      BY <1>2, <1>4, <2>3 DEF Selecting, KeyOf
    <3>2. selectionLock'[k] = Tail(selectionLock[k])
      BY <1>1, <2>3 DEF SelectInv
    <3> QED
      BY <1>6, <2>1, <2>2, <2>3, <3>1, <3>2, Removed
  <2>4. CASE k # h
    <3>1. Selecting(k)' = Selecting(k) /\ s \notin Selecting(k)
      BY <1>2, <1>4, <2>4 DEF Selecting, KeyOf
    <3>2. selectionLock'[k] = selectionLock[k]
      BY <1>1, <2>4 DEF SelectInv
    <3>3. \A u \in Selecting(k) : u \in StillQueued => u \in StillQueued'
      BY <2>2, <3>1
    <3> QED
      BY <2>1, <3>1, <3>2, <3>3, Stayed
  <2> QED
    BY <2>3, <2>4
<1>8. selectionLock' \in [Keys -> Seq(Selects)]
  BY <1>1, <1>7 DEF SelectInv
<1> QED
  BY <1>3, <1>5, <1>7, <1>8 DEF SelectInv, KeyOf

LEMMA SelectGoes ==
    ASSUME SelectInv, NEW s \in Selects, select[s].at \in InSelection,
           select[s].at = "queued" => Holds(s),
           NEW place \in {"setup", "waiting"},
           select' = [select EXCEPT ![s].at = place], UNCHANGED selectionLock
    PROVE  SelectInv'
<1> DEFINE h == KeyOf(s)
<1>1. h \in Keys /\ s \in Selecting(h) /\ (s \notin StillQueued \/ Head(selectionLock[h]) = s)
  BY DEF SelectInv, Selecting, StillQueued, Holds
<1>2. place \in InSelection /\ place \in SelectStages
  BY DEF SelectStages, InSelection
<1>3. select[s] \in SelectSet
  BY DEF SelectInv
<1>4. /\ select' \in [Selects -> SelectSet]
      /\ select'[s].at = place /\ select'[s].key = select[s].key
      /\ \A u \in Selects : u # s => select'[u] = select[u]
  BY <1>2, <1>3 DEF SelectInv, SelectSet
<1>5. \A u \in Selects : select'[u].at \in InSelection => select'[u].key \in Keys
  BY <1>1, <1>2, <1>4 DEF SelectInv, KeyOf
<1>6. selectionLock[h] # << >> /\ Head(selectionLock[h]) = s
  BY <1>1, First DEF SelectInv
<1>7. ASSUME NEW k \in Keys
      PROVE  Orderly(selectionLock'[k], Selecting(k)', StillQueued')
  <2>1. selectionLock[k] \in Seq(Selects) /\ Orderly(selectionLock[k], Selecting(k), StillQueued)
    BY DEF SelectInv
  <2>2. \A u \in Selecting(k) : u # s /\ u \in StillQueued => u \in StillQueued'
    BY <1>4 DEF StillQueued
  <2>3. Selecting(k)' = Selecting(k)
    BY <1>1, <1>2, <1>4 DEF Selecting, KeyOf
  <2>4. \A u \in Selecting(k) : u = s => k = h
    BY DEF Selecting
  <2> QED
    BY <1>6, <2>1, <2>2, <2>3, <2>4, Stayed
<1> QED
  BY <1>4, <1>5, <1>7 DEF SelectInv, KeyOf

LEMMA SelectEnters ==
    ASSUME SelectInv, NEW s \in Selects, NEW k \in Keys, SelectPage(s, k)
    PROVE  SelectInv'
<1>1. /\ select[s].at = "new" /\ select' = [select EXCEPT ![s] = [at |-> "queued", key |-> k]]
      /\ selectionLock' = [selectionLock EXCEPT ![k] = Append(@, s)]
  BY DEF SelectPage
<1>2. [at |-> "queued", key |-> k] \in SelectSet /\ "queued" \in InSelection /\ "new" \notin InSelection
  BY DEF SelectSet, MaybeKeys, SelectStages, InSelection
<1>3. /\ select' \in [Selects -> SelectSet] /\ select'[s].at = "queued" /\ select'[s].key = k
      /\ \A u \in Selects : u # s => select'[u] = select[u]
  BY <1>1, <1>2 DEF SelectInv
<1>4. \A u \in Selects : select'[u].at \in InSelection => select'[u].key \in Keys
  BY <1>3 DEF SelectInv, KeyOf
<1>5. ASSUME NEW l \in Keys
      PROVE  selectionLock'[l] \in Seq(Selects)
             /\ Orderly(selectionLock'[l], Selecting(l)', StillQueued')
  <2>1. selectionLock[l] \in Seq(Selects) /\ Orderly(selectionLock[l], Selecting(l), StillQueued)
    BY DEF SelectInv
  <2>2. \A u \in Selecting(l) : u \in StillQueued => u \in StillQueued'
    BY <1>3 DEF StillQueued
  <2>3. s \in StillQueued' /\ s \notin Selecting(l)
    BY <1>1, <1>2, <1>3 DEF StillQueued, Selecting
  <2>4. CASE l = k
    <3>1. Selecting(l)' = Selecting(l) \cup {s}
      BY <1>2, <1>3, <2>4 DEF Selecting, KeyOf
    <3>2. selectionLock'[l] = Append(selectionLock[l], s)
      BY <1>1, <2>4 DEF SelectInv
    <3> QED
      BY <2>1, <2>2, <2>3, <3>1, <3>2, Appended
  <2>5. CASE l # k
    <3>1. Selecting(l)' = Selecting(l)
      BY <1>3, <2>3, <2>5 DEF Selecting, KeyOf
    <3>2. selectionLock'[l] = selectionLock[l]
      BY <1>1, <2>5 DEF SelectInv
    <3> QED
      BY <2>1, <2>2, <3>1, <3>2, Stayed
  <2> QED
    BY <2>4, <2>5
<1>6. selectionLock' \in [Keys -> Seq(Selects)]
  BY <1>1, <1>5 DEF SelectInv
<1> QED
  BY <1>3, <1>4, <1>5, <1>6 DEF SelectInv, KeyOf

LEMMA SelectKept ==
    ASSUME SelectInv, UNCHANGED selectVars
    PROVE  SelectInv'
  BY DEF SelectInv, selectVars, Selecting, StillQueued, KeyOf

LEMMA SelectEmits ==
    ASSUME SelectInv, NEW k, Emit(k)
    PROVE  SelectInv'
<1>1. CASE UNCHANGED selectVars
  BY <1>1, SelectKept
<1>2. CASE \E s \in Selects : select[s].at = "waiting" /\ Leave(s)
  BY <1>2, SelectLeaves DEF InSelection
<1> QED
  BY <1>1, <1>2 DEF Emit

LEMMA SelectSteps ==
    ASSUME SelectInv, NEW s \in Selects, Select(s)
    PROVE  SelectInv'
<1>1. CASE BeginSelect(s)
  <2>1. /\ select[s].at = "queued" /\ Holds(s) /\ select[s].at \in InSelection
        /\ \/ Leave(s)
           \/ select' = [select EXCEPT ![s].at = "setup"] /\ UNCHANGED selectionLock
    BY <1>1 DEF BeginSelect, InSelection
  <2> QED
    BY <2>1, SelectLeaves, SelectGoes
<1>2. CASE SetupDone(s)
  BY <1>2, SelectGoes DEF SetupDone, InSelection
<1>3. CASE SetupFails(s)
  BY <1>3, SelectLeaves DEF SetupFails, InSelection
<1>4. CASE SelectTimeout(s)
  BY <1>4, SelectLeaves DEF SelectTimeout, InSelection
<1> QED
  BY <1>1, <1>2, <1>3, <1>4 DEF Select
-----------------------------------------------------------------------------
(* The locks of the pages                                                  *)

\* Target t, with the lock of its page, goes on.
LEMMA JobGoes ==
    ASSUME JobInv, NEW t \in Targets, job[t].at \in UnderLock,
           job[t].at = "queued" => Queued(t),
           job' \in [Targets -> JobSet], UNCHANGED targetLock,
           job'[t].key = job[t].key, job'[t].at \in UnderLock,
           \A u \in Targets : u # t => job'[u] = job[u]
    PROVE  JobInv'
<1> DEFINE h == job[t].key
<1>1. h \in Keys /\ t \in Initializing(h) /\ (t \notin JobsQueued \/ Head(targetLock[h]) = t)
  BY DEF JobInv, Initializing, JobsQueued, Queued
<1>2. \A u \in Targets : job'[u].at \in UnderLock \cup {"setting"} => job'[u].key \in Keys
  BY <1>1 DEF JobInv
<1>3. targetLock[h] # << >> /\ Head(targetLock[h]) = t
  BY <1>1, First DEF JobInv
<1>4. ASSUME NEW k \in Keys PROVE Orderly(targetLock'[k], Initializing(k)', JobsQueued')
  <2>1. targetLock[k] \in Seq(Targets) /\ Orderly(targetLock[k], Initializing(k), JobsQueued)
    BY DEF JobInv
  <2>2. \A u \in Initializing(k) : u # t /\ u \in JobsQueued => u \in JobsQueued'
    BY DEF JobsQueued
  <2>3. Initializing(k)' = Initializing(k)
    BY <1>1 DEF Initializing
  <2>4. \A u \in Initializing(k) : u = t => k = h
    BY DEF Initializing
  <2> QED
    BY <1>3, <2>1, <2>2, <2>3, <2>4, Stayed
<1> QED
  BY <1>2, <1>4 DEF JobInv

\* It is over.
LEMMA JobLeaves ==
    ASSUME JobInv, NEW t \in Targets, job[t].at \in UnderLock,
           job[t].at = "queued" => Queued(t),
           targetLock' = [targetLock EXCEPT ![job[t].key] = Tail(@)],
           job' = [job EXCEPT ![t] = [NoJob EXCEPT !.at = "over"]]
    PROVE  JobInv' /\ job'[t].at = "over" /\ \A u \in Targets : u # t => job'[u] = job[u]
<1> DEFINE h == job[t].key
<1>1. h \in Keys /\ t \in Initializing(h) /\ (t \notin JobsQueued \/ Head(targetLock[h]) = t)
  BY DEF JobInv, Initializing, JobsQueued, Queued
<1>2. /\ [NoJob EXCEPT !.at = "over"] \in JobSet
      /\ [NoJob EXCEPT !.at = "over"].at = "over"
      /\ "over" \notin UnderLock /\ "over" # "setting"
  BY DEF NoJob, JobSet, JobStages, UnderLock, MaybeKeys
<1>3. /\ job' \in [Targets -> JobSet] /\ job'[t].at = "over"
      /\ \A u \in Targets : u # t => job'[u] = job[u]
  BY <1>2 DEF JobInv
<1>4. \A u \in Targets : job'[u].at \in UnderLock \cup {"setting"} => job'[u].key \in Keys
  BY <1>2, <1>3 DEF JobInv
<1>5. targetLock[h] # << >> /\ Head(targetLock[h]) = t
  BY <1>1, First DEF JobInv
<1>6. ASSUME NEW k \in Keys
      PROVE  targetLock'[k] \in Seq(Targets)
             /\ Orderly(targetLock'[k], Initializing(k)', JobsQueued')
  <2>1. targetLock[k] \in Seq(Targets) /\ Orderly(targetLock[k], Initializing(k), JobsQueued)
    BY DEF JobInv
  <2>2. \A u \in Initializing(k) : u # t /\ u \in JobsQueued => u \in JobsQueued'
    BY <1>3 DEF JobsQueued
  <2>3. CASE k = h
    <3>1. Initializing(k)' = Initializing(k) \ {t}
      BY <1>2, <1>3, <2>3 DEF Initializing
    <3>2. targetLock'[k] = Tail(targetLock[k])
      BY <2>3 DEF JobInv
    <3> QED
      BY <1>5, <2>1, <2>2, <2>3, <3>1, <3>2, Removed
  <2>4. CASE k # h
    <3>1. Initializing(k)' = Initializing(k) /\ t \notin Initializing(k)
      BY <1>2, <1>3, <2>4 DEF Initializing
    <3>2. targetLock'[k] = targetLock[k]
      BY <2>4 DEF JobInv
    <3>3. \A u \in Initializing(k) : u \in JobsQueued => u \in JobsQueued'
      BY <2>2, <3>1
    <3> QED
      BY <2>1, <3>1, <3>2, <3>3, Stayed
  <2> QED
    BY <2>3, <2>4
<1>7. targetLock' \in [Keys -> Seq(Targets)]
  BY <1>6 DEF JobInv
<1> QED
  BY <1>3, <1>4, <1>6, <1>7 DEF JobInv

\* It joins the queue.
LEMMA JobEnters ==
    ASSUME JobInv, NEW t \in Targets, job[t].at \in {"none", "setting"}, NEW k \in Keys,
           targetLock' = [targetLock EXCEPT ![k] = Append(@, t)],
           job' \in [Targets -> JobSet], job'[t].at = "queued", job'[t].key = k,
           \A u \in Targets : u # t => job'[u] = job[u]
    PROVE  JobInv'
<1>1. \A u \in Targets : job'[u].at \in UnderLock \cup {"setting"} => job'[u].key \in Keys
  BY DEF JobInv
<1>2. "queued" \in UnderLock /\ "none" \notin UnderLock /\ "setting" \notin UnderLock
  BY DEF UnderLock
<1>3. ASSUME NEW l \in Keys
      PROVE  targetLock'[l] \in Seq(Targets)
             /\ Orderly(targetLock'[l], Initializing(l)', JobsQueued')
  <2>1. targetLock[l] \in Seq(Targets) /\ Orderly(targetLock[l], Initializing(l), JobsQueued)
    BY DEF JobInv
  <2>2. \A u \in Initializing(l) : u \in JobsQueued => u \in JobsQueued'
    BY DEF JobsQueued
  <2>3. t \in JobsQueued' /\ t \notin Initializing(l)
    BY <1>2 DEF JobsQueued, Initializing
  <2>4. CASE l = k
    <3>1. Initializing(l)' = Initializing(l) \cup {t}
      BY <1>2, <2>4 DEF Initializing
    <3>2. targetLock'[l] = Append(targetLock[l], t)
      BY <2>4 DEF JobInv
    <3> QED
      BY <2>1, <2>2, <2>3, <3>1, <3>2, Appended
  <2>5. CASE l # k
    <3>1. Initializing(l)' = Initializing(l)
      BY <2>3, <2>5 DEF Initializing
    <3>2. targetLock'[l] = targetLock[l]
      BY <2>5 DEF JobInv
    <3> QED
      BY <2>1, <2>2, <3>1, <3>2, Stayed
  <2> QED
    BY <2>4, <2>5
<1>4. targetLock' \in [Keys -> Seq(Targets)]
  BY <1>3 DEF JobInv
<1> QED
  BY <1>1, <1>3, <1>4 DEF JobInv

\* It is announced and waits for the first answer.
LEMMA JobBegins ==
    ASSUME JobInv, NEW t \in Targets, job[t].at = "none", UNCHANGED targetLock,
           job' \in [Targets -> JobSet], job'[t].at = "setting", job'[t].key \in Keys,
           \A u \in Targets : u # t => job'[u] = job[u]
    PROVE  JobInv'
<1>1. \A u \in Targets : job'[u].at \in UnderLock \cup {"setting"} => job'[u].key \in Keys
  BY DEF JobInv
<1>2. "none" \notin UnderLock /\ "setting" \notin UnderLock
  BY DEF UnderLock
<1>3. ASSUME NEW k \in Keys PROVE Orderly(targetLock'[k], Initializing(k)', JobsQueued')
  <2>1. targetLock[k] \in Seq(Targets) /\ Orderly(targetLock[k], Initializing(k), JobsQueued)
    BY DEF JobInv
  <2>2. \A u \in Initializing(k) : u \in JobsQueued => u \in JobsQueued'
    BY <1>2 DEF JobsQueued, Initializing
  <2>3. Initializing(k)' = Initializing(k)
    BY <1>2 DEF Initializing
  <2> QED
    BY <2>1, <2>2, <2>3, Stayed
<1> QED
  BY <1>1, <1>3 DEF JobInv

LEMMA JobKept ==
    ASSUME JobInv, UNCHANGED jobVars
    PROVE  JobInv'
  BY DEF JobInv, jobVars, Initializing, JobsQueued

-----------------------------------------------------------------------------
(* Types of every step                                                     *)

\* What a step of a job does to the two locks.
JobMoves(t) ==
    /\ JobInv' /\ SelectInv' /\ job'[t].at \notin {"none", "setting"}
    /\ \A u \in Targets : u # t => job'[u] = job[u]
    /\ job'[t].at = "over" \/ job'[t].isPaused = job[t].isPaused

LEMMA OverMoves ==
    ASSUME SelectInv, JobInv, NEW t \in Targets, job[t].at \in UnderLock,
           job[t].at = "queued" => Queued(t), Over(t)
    PROVE  JobMoves(t) /\ job'[t].at = "over"
<1>1. JobInv' /\ job'[t].at = "over" /\ \A u \in Targets : u # t => job'[u] = job[u]
  BY JobLeaves DEF Over
<1>2. SelectInv'
  BY SelectKept, SelectEmits DEF Over
<1> QED
  BY <1>1, <1>2 DEF JobMoves

LEMMA GoesMoves ==
    ASSUME SelectInv, JobInv, NEW t \in Targets, job[t].at \in UnderLock,
           job[t].at = "queued" => Queued(t),
           NEW place \in {"initializing", "resuming", "readying"}, NEW ok \in BOOLEAN,
           Goes(t, place, ok)
    PROVE  JobMoves(t) /\ job'[t].at = place /\ job'[t].ok = ok
<1>1. /\ job' = [job EXCEPT ![t].at = place, ![t].ok = ok] /\ UNCHANGED <<targetLock, selectVars>>
      /\ place \in UnderLock /\ place \in JobStages /\ job[t] \in JobSet
  BY DEF Goes, UnderLock, JobStages, JobInv
<1>2. /\ job' \in [Targets -> JobSet] /\ job'[t].at = place /\ job'[t].ok = ok
      /\ job'[t].key = job[t].key /\ job'[t].isPaused = job[t].isPaused
      /\ \A u \in Targets : u # t => job'[u] = job[u]
  BY <1>1 DEF JobInv, JobSet
<1>3. JobInv'
  BY <1>1, <1>2, JobGoes
<1>4. SelectInv'
  BY <1>1, SelectKept
<1> QED
  BY <1>2, <1>3, <1>4 DEF JobMoves

\* What the functions run under a lock do to the rest.
LEMMA JobSteps ==
    ASSUME SelectInv, JobInv, NEW t \in Targets, Job(t) \/ OccupationExpires(t)
    PROVE  /\ JobInv' /\ SelectInv' /\ job[t].at \in UnderLock \cup {"setting"}
           /\ job'[t].at \notin {"none", "setting"}
           /\ \A u \in Targets : u # t => job'[u] = job[u]
           /\ job'[t].at = "over" \/ job'[t].isPaused = job[t].isPaused
           /\ provisionedPages' \subseteq provisionedPages
           /\ pauseOnStart' \subseteq pauseOnStart \cup {job[t].key}
           /\ paused' \subseteq paused /\ resumeFailed \subseteq resumeFailed'
           /\ resumeFailed' \subseteq resumeFailed \cup {t}
           /\ UNCHANGED <<pending, mapVars, attached, shown, next, dying, born, wire>>
           /\ \/ job'[t].at \notin {"readying", "over"}
              \/ t \in paused' => t \in resumeFailed'
              \/ job[t].at = "readying" \/ ~job[t].isPaused
<1>0. job[t] \in JobSet
  BY DEF JobInv
<1>1. CASE PauseOnStartSet(t)
  <2> DEFINE k == job[t].key
  <2>1. /\ job[t].at = "setting" /\ job' = [job EXCEPT ![t].at = "queued"]
        /\ targetLock' = [targetLock EXCEPT ![k] = Append(@, t)]
        /\ pauseOnStart' \subseteq pauseOnStart \cup {k}
        /\ UNCHANGED <<selectVars, pending, provisionedPages, mapVars, attached, shown, next,
                       dying, paused, resumeFailed, born, wire>>
    BY <1>1 DEF PauseOnStartSet, AskToPause, pausedVars
  <2>2. k \in Keys
    BY <2>1 DEF JobInv
  <2>3. /\ job' \in [Targets -> JobSet] /\ job'[t].at = "queued" /\ job'[t].key = k
        /\ job'[t].isPaused = job[t].isPaused
        /\ \A u \in Targets : u # t => job'[u] = job[u]
    BY <1>0, <2>1 DEF JobInv, JobSet, JobStages, UnderLock
  <2>4. JobInv' /\ SelectInv'
    <3> HIDE DEF k
    <3> QED
      BY <2>1, <2>2, <2>3, JobEnters, SelectKept
  <2> QED
    BY <2>1, <2>3, <2>4
<1>2. ASSUME NEW ok \in BOOLEAN, job[t].at \in UnderLock, job[t].at = "queued" => Queued(t),
             AfterInit(t, ok)
      PROVE  JobMoves(t) /\ (job'[t].at \in {"readying", "over"} => ~job[t].isPaused)
  BY <1>2, GoesMoves, OverMoves DEF AfterInit
<1>3. CASE BeginJob(t)
  <2>1. /\ job[t].at \in UnderLock /\ Queued(t) /\ provisionedPages' \subseteq provisionedPages
        /\ AfterInit(t, FALSE) \/ Goes(t, "initializing", FALSE)
        /\ UNCHANGED <<pending, mapVars, deviceVars, wire>>
    BY <1>3 DEF BeginJob, Queued, UnderLock
  <2>2. JobMoves(t) /\ (job'[t].at \in {"readying", "over"} => ~job[t].isPaused)
    BY <1>2, <2>1, GoesMoves
  <2> QED
    BY <2>1, <2>2 DEF JobMoves, deviceVars, pausedVars
<1>4. ASSUME NEW ok \in BOOLEAN, PageInitialized(t, ok)
      PROVE  /\ job[t].at \in UnderLock /\ JobMoves(t)
             /\ (job'[t].at \in {"readying", "over"} => ~job[t].isPaused)
             /\ UNCHANGED <<pending, provisionedPages, mapVars, deviceVars, wire>>
  <2>1. /\ job[t].at \in UnderLock /\ job[t].at # "queued" /\ AfterInit(t, ok)
        /\ UNCHANGED <<pending, provisionedPages, mapVars, deviceVars, wire>>
    BY <1>4 DEF PageInitialized, UnderLock
  <2> QED
    BY <1>2, <2>1
<1>5. CASE \E ok \in BOOLEAN : PageInitialized(t, ok)
  BY <1>4, <1>5 DEF JobMoves, deviceVars, pausedVars
<1>6. CASE resumeTarget(t)
  <2>1. /\ job[t].at \in UnderLock /\ job[t].at # "queued"
        /\ paused' \subseteq paused /\ (t \in paused' => t \in resumeFailed')
        /\ resumeFailed \subseteq resumeFailed' /\ resumeFailed' \subseteq resumeFailed \cup {t}
        /\ Goes(t, "readying", TRUE) \/ Over(t)
        /\ UNCHANGED <<pending, provisionedPages, mapVars, attached, pauseOnStart, shown, next,
                       dying, born, wire>>
    BY <1>6 DEF resumeTarget, UnderLock
  <2>2. JobMoves(t)
    BY <2>1, GoesMoves, OverMoves
  <2> QED
    BY <2>1, <2>2 DEF JobMoves
<1>7. CASE PageReady(t)
  <2>1. /\ job[t].at \in UnderLock /\ job[t].at = "readying" /\ job[t].at # "queued" /\ Over(t)
        /\ UNCHANGED <<pending, provisionedPages, mapVars, deviceVars, wire>>
    BY <1>7 DEF PageReady, UnderLock
  <2>2. JobMoves(t)
    BY <2>1, OverMoves
  <2> QED
    BY <2>1, <2>2 DEF JobMoves, deviceVars, pausedVars
<1>8. CASE OccupationExpires(t)
  <2>1. /\ job[t].at \in {"initializing", "resuming", "readying"}
        /\ job' = [job EXCEPT ![t].expired = TRUE] /\ UNCHANGED targetLock /\ Emit(job[t].key)
        /\ UNCHANGED <<pending, provisionedPages, mapVars, deviceVars, wire>>
    BY <1>8 DEF OccupationExpires
  <2>2. /\ job' \in [Targets -> JobSet] /\ job'[t].at = job[t].at /\ job'[t].key = job[t].key
        /\ job'[t].isPaused = job[t].isPaused
        /\ \A u \in Targets : u # t => job'[u] = job[u]
    BY <1>0, <2>1 DEF JobInv, JobSet
  <2>3. job[t].at \in UnderLock /\ job[t].at # "queued"
    BY <2>1 DEF UnderLock
  <2>4. JobInv'
    BY <2>1, <2>2, <2>3, JobGoes
  <2>5. SelectInv'
    BY <2>1, SelectEmits
  <2> QED
    BY <2>1, <2>2, <2>3, <2>4, <2>5 DEF deviceVars, pausedVars
<1> QED
  BY <1>1, <1>3, <1>5, <1>6, <1>7, <1>8 DEF Job

\* An event is handled, or sent.
LEMMA Wired ==
    ASSUME DeviceTypes
    PROVE  \A i \in DOMAIN wire : i \in Nat /\ i > 0 /\ wire[i] \in EventSet /\ wire[i].id \in Targets
<1>1. wire \in Seq(EventSet) /\ DOMAIN wire = 1 .. Len(wire) /\ Len(wire) \in Nat
  BY LenProperties DEF DeviceTypes
<1>2. \A i \in DOMAIN wire : wire[i] \in EventSet
  BY <1>1, ElementOfSeq
<1> QED
  BY <1>1, <1>2 DEF EventSet

LEMMA Handled ==
    ASSUME DeviceTypes, wire # << >>, wire' = Tail(wire)
    PROVE  /\ Head(wire) = wire[1] /\ Head(wire) \in EventSet /\ 1 \in DOMAIN wire
           /\ wire' \in Seq(EventSet)
           /\ \A i \in DOMAIN wire' : i \in Nat /\ i + 1 \in DOMAIN wire /\ wire'[i] = wire[i + 1]
           /\ \A i \in DOMAIN wire : i # 1 => i - 1 \in DOMAIN wire' /\ wire'[i - 1] = wire[i]
           /\ \A i \in DOMAIN wire : i \in Nat /\ i > 0 /\ wire[i] \in EventSet
<1>1. wire \in Seq(EventSet)
  BY DEF DeviceTypes
<1>2. /\ Len(wire) \in Nat \ {0} /\ DOMAIN wire = 1 .. Len(wire)
      /\ Tail(wire) \in Seq(EventSet) /\ Len(Tail(wire)) = Len(wire) - 1
      /\ DOMAIN Tail(wire) = 1 .. Len(wire) - 1
      /\ Head(wire) = wire[1] /\ \A i \in 1 .. Len(wire) - 1 : Tail(wire)[i] = wire[i + 1]
  BY <1>1, HeadTailProperties, EmptySeq
<1>3. \A i \in DOMAIN wire : wire[i] \in EventSet
  BY <1>1, <1>2, ElementOfSeq
<1>4. \A i \in DOMAIN wire : i # 1 => i - 1 \in 1 .. Len(wire) - 1 /\ (i - 1) + 1 = i
  BY <1>2
<1>5. \A i \in DOMAIN wire : i # 1 => i - 1 \in DOMAIN wire' /\ wire'[i - 1] = wire[i]
  BY <1>2, <1>4
<1> QED
  BY <1>2, <1>3, <1>5

LEMMA Sent ==
    ASSUME DeviceTypes, NEW type \in {"created", "committed", "destroyed"}, NEW a \in Apps,
           NEW id \in Targets, NEW old \in Ids, NEW prov \in BOOLEAN, NEW isPaused \in BOOLEAN,
           Event(type, a, id, old, prov, isPaused)
    PROVE  \E n \in DOMAIN wire' :
             /\ n \notin DOMAIN wire /\ wire' \in Seq(EventSet) /\ n \in Nat
             /\ \A i \in DOMAIN wire' : i \in Nat /\ (i = n \/ i \in DOMAIN wire)
             /\ \A i \in DOMAIN wire : i \in DOMAIN wire' /\ wire'[i] = wire[i] /\ i < n /\ i > 0
             /\ wire'[n].type = type /\ wire'[n].app = a /\ wire'[n].id = id
             /\ wire'[n].old = old /\ wire'[n].prov = prov /\ wire'[n].isPaused = isPaused
<1> DEFINE e == [type |-> type, app |-> a, id |-> id, old |-> old, prov |-> prov,
                 isPaused |-> isPaused]
<1>1. wire \in Seq(EventSet) /\ e \in EventSet /\ wire' = Append(wire, e)
  BY DEF DeviceTypes, EventSet, Event
<1>2. e.type = type /\ e.app = a /\ e.id = id /\ e.old = old /\ e.prov = prov /\ e.isPaused = isPaused
  OBVIOUS
<1> HIDE DEF e
<1>3. /\ wire' \in Seq(EventSet) /\ DOMAIN wire' = 1 .. Len(wire) + 1 /\ DOMAIN wire = 1 .. Len(wire)
      /\ Len(wire) \in Nat /\ wire'[Len(wire) + 1] = e
      /\ \A i \in 1 .. Len(wire) : wire'[i] = wire[i]
  BY <1>1, AppendProperties
<1>4. /\ Len(wire) + 1 \in DOMAIN wire' /\ Len(wire) + 1 \notin DOMAIN wire
      /\ \A i \in DOMAIN wire' : i \in Nat /\ (i = Len(wire) + 1 \/ i \in DOMAIN wire)
      /\ \A i \in DOMAIN wire : i \in DOMAIN wire' /\ wire'[i] = wire[i] /\ i < Len(wire) + 1 /\ i > 0
  BY <1>3
<1> QED
  BY <1>2, <1>3, <1>4

LEMMA Created ==
    ASSUME Base, TargetCreated
    PROVE  /\ wire # << >> /\ wire' = Tail(wire) /\ Head(wire).type = "created"
           /\ UNCHANGED <<selectVars, pending, provisional, deviceVars>>
           /\ JobInv' /\ MapTypes' /\ known \subseteq known'
           /\ job[Head(wire).id].at = "none"
           /\ \A u \in Targets : u # Head(wire).id => job'[u] = job[u]
           /\ \/ job'[Head(wire).id] = job[Head(wire).id]
              \/ /\ job'[Head(wire).id].at \in {"queued", "setting"}
                 /\ job'[Head(wire).id].isPaused = Head(wire).isPaused
           /\ \A k \in Keys : \/ targets'[k] = targets[k]
                              \/ /\ targets'[k] = Head(wire).id
                                 /\ App(k) = Head(wire).app /\ App(k) \in known'
<1> DEFINE e == Head(wire)
<1>1. /\ wire # << >> /\ wire' = Tail(wire) /\ e.type = "created" /\ addTarget(e)
      /\ UNCHANGED <<selectVars, pending, deviceVars>>
  BY DEF TargetCreated
<1>2. e \in EventSet /\ 1 \in DOMAIN wire /\ e = wire[1]
  BY <1>1, Handled DEF Base
<1>3. /\ e.id \in Targets /\ e.app \in Apps /\ e.prov \in BOOLEAN /\ e.isPaused \in BOOLEAN
      /\ job[e.id].at = "none"
  BY <1>1, <1>2 DEF EventSet, Base, Announced
<1> HIDE DEF e
<1>4. CASE UNCHANGED <<provisionedPages, mapVars, jobVars>>
  <2>1. JobInv'
    BY <1>4, JobKept DEF Base
  <2> QED
    BY <1>1, <1>3, <1>4, <2>1 DEF mapVars, jobVars, Base, MapTypes, e
<1>5. ASSUME NEW k \in pending,
             App(k) = e.app, known' = known \cup {e.app}, UNCHANGED provisional,
             job' = [job EXCEPT ![e.id] =
                [at |-> IF e.prov THEN "queued" ELSE "setting", key |-> k, prov |-> e.prov,
                 isPaused |-> e.isPaused, ok |-> FALSE, expired |-> FALSE]],
             IF e.prov
             THEN /\ provisionedPages' = provisionedPages \cup {Page(k)}
                  /\ targetLock' = [targetLock EXCEPT ![k] = Append(@, e.id)]
                  /\ UNCHANGED targets
             ELSE /\ targets' = [targets EXCEPT ![k] = e.id]
                  /\ UNCHANGED <<provisionedPages, targetLock>>
      PROVE  /\ JobInv' /\ MapTypes' /\ known \subseteq known'
             /\ \A u \in Targets : u # e.id => job'[u] = job[u]
             /\ job'[e.id].at \in {"queued", "setting"} /\ job'[e.id].isPaused = e.isPaused
             /\ \A l \in Keys : \/ targets'[l] = targets[l]
                                \/ targets'[l] = e.id /\ App(l) = e.app /\ App(l) \in known'
  <2> DEFINE j == [at |-> IF e.prov THEN "queued" ELSE "setting", key |-> k, prov |-> e.prov,
                   isPaused |-> e.isPaused, ok |-> FALSE, expired |-> FALSE]
  <2>1. k \in Keys /\ Page(k) \in Pages
    BY KeyParts DEF Base, MapTypes
  <2>2. /\ j \in JobSet /\ j.key = k /\ j.isPaused = e.isPaused
        /\ e.prov => j.at = "queued"
        /\ ~e.prov => j.at = "setting"
    BY <1>3, <2>1 DEF JobSet, JobStages, UnderLock, MaybeKeys
  <2>3. job' = [job EXCEPT ![e.id] = j]
    BY <1>5
  <2> HIDE DEF j
  <2>4. /\ job' \in [Targets -> JobSet] /\ job'[e.id] = j
        /\ \A u \in Targets : u # e.id => job'[u] = job[u]
    BY <1>3, <2>2, <2>3 DEF Base, JobInv
  <2>5. JobInv'
    BY <1>3, <1>5, <2>1, <2>2, <2>4, JobEnters, JobBegins DEF Base
  <2>6. MapTypes'
    <3>1. MapTypes /\ pending' = pending /\ e.id \in Ids
      BY <1>1, <1>3 DEF Base, Ids
    <3>2. targets' \in [Keys -> Ids] /\ provisionedPages' \subseteq Pages
      BY <1>5, <2>1, <3>1 DEF MapTypes
    <3> QED
      BY <1>3, <1>5, <3>1, <3>2 DEF MapTypes
  <2>7. \A l \in Keys : \/ targets'[l] = targets[l]
                        \/ targets'[l] = e.id /\ App(l) = e.app /\ App(l) \in known'
    BY <1>5, <2>1 DEF Base, MapTypes
  <2> QED
    BY <1>3, <1>5, <2>2, <2>4, <2>5, <2>6, <2>7
<1>6. \/ UNCHANGED <<provisionedPages, mapVars, jobVars>>
      \/ \E k \in pending :
           /\ App(k) = e.app /\ known' = known \cup {e.app} /\ UNCHANGED provisional
           /\ job' = [job EXCEPT ![e.id] =
                [at |-> IF e.prov THEN "queued" ELSE "setting", key |-> k, prov |-> e.prov,
                 isPaused |-> e.isPaused, ok |-> FALSE, expired |-> FALSE]]
           /\ IF e.prov
              THEN /\ provisionedPages' = provisionedPages \cup {Page(k)}
                   /\ targetLock' = [targetLock EXCEPT ![k] = Append(@, e.id)]
                   /\ UNCHANGED targets
              ELSE /\ targets' = [targets EXCEPT ![k] = e.id]
                   /\ UNCHANGED <<provisionedPages, targetLock>>
  BY <1>1 DEF addTarget
<1>7. CASE ~(UNCHANGED <<provisionedPages, mapVars, jobVars>>)
  <2>1. /\ JobInv' /\ MapTypes' /\ known \subseteq known' /\ UNCHANGED provisional
        /\ \A u \in Targets : u # e.id => job'[u] = job[u]
        /\ job'[e.id].at \in {"queued", "setting"} /\ job'[e.id].isPaused = e.isPaused
        /\ \A l \in Keys : \/ targets'[l] = targets[l]
                           \/ targets'[l] = e.id /\ App(l) = e.app /\ App(l) \in known'
    BY <1>5, <1>6, <1>7
  <2> QED
    BY <1>1, <1>3, <2>1 DEF e
<1> QED
  BY <1>4, <1>7

LEMMA Committed ==
    ASSUME Base, TargetCommitted
    PROVE  /\ wire # << >> /\ wire' = Tail(wire) /\ Head(wire).type = "committed"
           /\ UNCHANGED <<selectVars, pending, provisionedPages, known, targets, jobVars, deviceVars>>
           /\ MapTypes'
           /\ \A a \in Apps :
                \/ provisional'[a] = provisional[a]
                \/ /\ a = Head(wire).app /\ a \in known
                   /\ provisional'[a].old = Head(wire).old /\ provisional'[a].new = Head(wire).id
<1> DEFINE e == Head(wire)
<1>1. /\ wire # << >> /\ wire' = Tail(wire) /\ e.type = "committed"
      /\ provisional' = IF e.app \in known
                        THEN [provisional EXCEPT ![e.app] = [old |-> e.old, new |-> e.id]]
                        ELSE provisional
      /\ UNCHANGED <<selectVars, pending, provisionedPages, known, targets, jobVars, deviceVars>>
  BY DEF TargetCommitted
<1>2. e \in EventSet
  BY <1>1, Handled DEF Base
<1>3. e.app \in Apps /\ e.id \in Ids /\ e.old \in Ids
  BY <1>2 DEF EventSet, Ids
<1> HIDE DEF e
<1>4. [old |-> e.old, new |-> e.id] \in [old : Ids, new : Ids]
  BY <1>3
<1>5. /\ provisional' \in [Apps -> [old : Ids, new : Ids]]
      /\ \A a \in Apps :
                \/ provisional'[a] = provisional[a]
                \/ /\ a = e.app /\ a \in known
                   /\ provisional'[a].old = e.old /\ provisional'[a].new = e.id
  BY <1>1, <1>3, <1>4 DEF Base, MapTypes
<1>6. MapTypes'
  BY <1>1, <1>5 DEF Base, MapTypes
<1> QED
  BY <1>1, <1>5, <1>6 DEF e

\* removeTarget() puts the provisional target in the place of the one that is gone.
LEMMA Destroyed ==
    ASSUME Base, TargetDestroyed
    PROVE  /\ wire # << >> /\ wire' = Tail(wire) /\ Head(wire).type = "destroyed"
           /\ UNCHANGED <<selectVars, pending, provisionedPages, known, jobVars, deviceVars>>
           /\ MapTypes'
           /\ \A k \in Keys :
                \/ /\ targets'[k] = targets[k]
                   /\ ~(targets[k] = Head(wire).id /\ App(k) = Head(wire).app /\ App(k) \in known)
                \/ /\ targets[k] = Head(wire).id /\ App(k) = Head(wire).app
                   /\ \/ targets'[k] = NoTarget
                      \/ /\ provisional[App(k)].old = Head(wire).id
                         /\ targets'[k] = provisional[App(k)].new
           /\ \A a \in Apps :
                \/ /\ provisional'[a] = provisional[a]
                   /\ ~(provisional[a].old = Head(wire).id /\ a = Head(wire).app /\ a \in known)
                \/ provisional'[a] = NoProvisional
<1> DEFINE e == Head(wire)
<1>1. /\ wire # << >> /\ wire' = Tail(wire) /\ e.type = "destroyed"
      /\ IF e.app \in known THEN removeTarget(e) ELSE UNCHANGED <<targets, provisional>>
      /\ UNCHANGED <<selectVars, pending, provisionedPages, known, jobVars, deviceVars>>
  BY DEF TargetDestroyed
<1>2. e \in EventSet
  BY <1>1, Handled DEF Base
<1>3. e.app \in Apps /\ e.id \in Ids
  BY <1>2 DEF EventSet, Ids
<1> HIDE DEF e
<1>4. /\ targets \in [Keys -> Ids] /\ provisional \in [Apps -> [old : Ids, new : Ids]]
      /\ NoTarget \in Ids /\ NoProvisional \in [old : Ids, new : Ids]
  BY Numbers DEF Base, MapTypes, NoProvisional
<1>5. provisional[e.app].new \in Ids
  BY <1>3, <1>4
<1>6. CASE e.app \notin known
  BY <1>1, <1>4, <1>6 DEF Base, MapTypes, e
<1>7. CASE e.app \in known /\ ~Replaces(e)
  <2>1. /\ targets' = [k \in Keys |-> IF App(k) = e.app /\ targets[k] = e.id THEN NoTarget
                                     ELSE targets[k]]
        /\ provisional' = provisional
    BY <1>1, <1>7 DEF removeTarget
  <2>2. targets' \in [Keys -> Ids]
    BY <1>4, <2>1
  <2>3. MapTypes'
    BY <1>1, <2>1, <2>2 DEF Base, MapTypes
  <2>4. \A a \in Apps : ~(provisional[a].old = e.id /\ a = e.app /\ a \in known)
    BY <1>7 DEF Replaces
  <2> QED
    BY <1>1, <2>1, <2>3, <2>4 DEF e
<1>8. CASE e.app \in known /\ Replaces(e)
  <2>1. /\ targets' = [k \in Keys |-> IF App(k) = e.app /\ targets[k] = e.id
                                     THEN provisional[e.app].new ELSE targets[k]]
        /\ provisional' = [provisional EXCEPT ![e.app] = NoProvisional]
        /\ provisional[e.app].old = e.id
    BY <1>1, <1>8 DEF removeTarget, Replaces
  <2>2. targets' \in [Keys -> Ids] /\ provisional' \in [Apps -> [old : Ids, new : Ids]]
    BY <1>4, <1>5, <2>1
  <2>3. MapTypes'
    BY <1>1, <2>2 DEF Base, MapTypes
  <2>4. \A a \in Apps :
          \/ provisional'[a] = provisional[a] /\ a # e.app
          \/ provisional'[a] = NoProvisional
    BY <1>4, <2>1
  <2>5. \A k \in Keys :
          \/ targets'[k] = targets[k] /\ ~(targets[k] = e.id /\ App(k) = e.app)
          \/ /\ targets[k] = e.id /\ App(k) = e.app
             /\ provisional[App(k)].old = e.id /\ targets'[k] = provisional[App(k)].new
    BY <2>1
  <2> QED
    BY <1>1, <2>3, <2>4, <2>5 DEF e
<1> QED
  BY <1>6, <1>7, <1>8

Sends(type, a, id, old) ==
    \E prov, isPaused \in BOOLEAN : Event(type, a, id, old, prov, isPaused)
\* What Web Inspector does to the targets of page k, and the event it sends.
Makes(k) ==
    /\ born' = born + 1 /\ born + 1 \in Targets
    /\ \E prov, isPaused \in BOOLEAN :
         /\ Event("created", App(k), born + 1, NoTarget, prov, isPaused)
         /\ paused' = IF isPaused THEN paused \cup {born + 1} ELSE paused
         /\ UNCHANGED resumeFailed
         /\ \/ /\ shown[k] = NoTarget /\ shown' = [shown EXCEPT ![k] = born + 1]
               /\ UNCHANGED <<next, dying>>
            \/ /\ shown[k] # NoTarget /\ next[k] = NoTarget /\ dying[k] = NoTarget
               /\ next' = [next EXCEPT ![k] = born + 1] /\ UNCHANGED <<shown, dying>>
TakesOver(k) ==
    /\ next[k] # NoTarget /\ Sends("committed", App(k), next[k], shown[k])
    /\ dying' = [dying EXCEPT ![k] = shown[k]] /\ shown' = [shown EXCEPT ![k] = next[k]]
    /\ next' = [next EXCEPT ![k] = NoTarget] /\ UNCHANGED <<paused, resumeFailed, born>>
Ends(k, t) ==
    /\ t # NoTarget /\ Sends("destroyed", App(k), t, NoTarget)
    /\ \/ dying[k] = t /\ dying' = [dying EXCEPT ![k] = NoTarget] /\ UNCHANGED <<shown, next>>
       \/ next[k] = t /\ next' = [next EXCEPT ![k] = NoTarget] /\ UNCHANGED <<shown, dying>>
       \/ /\ shown[k] = t /\ next[k] = NoTarget /\ dying[k] = NoTarget
          /\ shown' = [shown EXCEPT ![k] = NoTarget] /\ UNCHANGED <<next, dying>>
    /\ paused' = paused \ {t} /\ resumeFailed' = resumeFailed \ {t} /\ UNCHANGED born

LEMMA DeviceMoves ==
    ASSUME DeviceTypes, NEW k \in Keys, Device(k)
    PROVE  /\ Makes(k) \/ TakesOver(k) \/ \E t \in Targets : Ends(k, t)
           /\ UNCHANGED <<selectVars, pending, provisionedPages, mapVars, jobVars, attached,
                          pauseOnStart>>
<1>1. born < MaxTargets => born + 1 \in Targets
  BY Numbers DEF DeviceTypes
<1>2. \A p \in BOOLEAN : Show(k, p) => Makes(k) /\ DeviceOnly
  BY <1>1 DEF Show, NewTarget, Makes
<1>3. \A p \in BOOLEAN : Navigate(k, p) => Makes(k) /\ DeviceOnly
  BY <1>1 DEF Navigate, NewTarget, Makes
<1>4. Commit(k) => TakesOver(k) /\ DeviceOnly
  <2>1. Event("committed", App(k), next[k], shown[k], FALSE, FALSE)
           => Sends("committed", App(k), next[k], shown[k])
    BY Zenon DEF Sends
  <2> QED
    BY <2>1 DEF Commit, TakesOver, pausedVars
<1>5. \A t \in Targets : Destroy(k, t) => Ends(k, t) /\ DeviceOnly
  <2>1. \A t \in Targets : Event("destroyed", App(k), t, NoTarget, FALSE, FALSE)
                             => Sends("destroyed", App(k), t, NoTarget)
    BY Zenon DEF Sends
  <2> QED
    BY <2>1 DEF Destroy, Ends
<1> QED
  BY <1>2, <1>3, <1>4, <1>5 DEF Device, DeviceOnly

LEMMA AnnouncedHandled ==
    ASSUME Base, wire # << >>, wire' = Tail(wire), UNCHANGED born,
           \A u \in Targets : job'[u] = job[u]
              \/ (Head(wire).type = "created" /\ u = Head(wire).id)
    PROVE  Announced'
<1>1. /\ Head(wire) = wire[1] /\ 1 \in DOMAIN wire
      /\ \A i \in DOMAIN wire' : i \in Nat /\ i + 1 \in DOMAIN wire /\ wire'[i] = wire[i + 1]
      /\ \A i \in DOMAIN wire : i \in Nat /\ i > 0 /\ wire[i] \in EventSet
  BY Handled DEF Base
<1>2. \A i \in DOMAIN wire : wire[i].id \in Targets
  BY <1>1 DEF EventSet
<1>3. ASSUME NEW i \in DOMAIN wire', wire'[i].type = "created"
      PROVE  /\ wire'[i].id <= born' /\ job'[wire'[i].id].at = "none"
             /\ \A j \in DOMAIN wire' :
                  wire'[j].type = "created" /\ wire'[j].id = wire'[i].id => j = i
  <2>1. /\ i \in Nat /\ i + 1 \in DOMAIN wire /\ i + 1 # 1 /\ wire'[i] = wire[i + 1]
        /\ wire[i + 1].type = "created" /\ wire[i + 1].id \in Targets
    BY <1>1, <1>2, <1>3
  <2>2. /\ wire[i + 1].id <= born /\ job[wire[i + 1].id].at = "none"
        /\ \A j \in DOMAIN wire :
             wire[j].type = "created" /\ wire[j].id = wire[i + 1].id => j = i + 1
    BY <2>1 DEF Base, Announced
  <2>3. ~(Head(wire).type = "created" /\ wire[i + 1].id = Head(wire).id)
    BY <1>1, <2>1, <2>2
  <2>4. \A j \in DOMAIN wire' :
          wire'[j].type = "created" /\ wire'[j].id = wire'[i].id => j = i
    <3> SUFFICES ASSUME NEW j \in DOMAIN wire', wire'[j].type = "created",
                        wire'[j].id = wire'[i].id
                 PROVE  j = i
      OBVIOUS
    <3>1. j \in Nat /\ j + 1 \in DOMAIN wire /\ wire'[j] = wire[j + 1]
      BY <1>1
    <3>2. j + 1 = i + 1
      BY <2>1, <2>2, <3>1
    <3> QED
      BY <2>1, <3>1, <3>2
  <2> QED
    BY <2>1, <2>2, <2>3, <2>4
<1>4. \A t \in Targets : job'[t].at # "none" => t <= born'
  <2>1. Head(wire).type = "created" => Head(wire).id <= born
    BY <1>1 DEF Base, Announced
  <2> QED
    BY <2>1 DEF Base, Announced
<1> QED
  BY <1>3, <1>4 DEF Announced

LEMMA DeviceBase ==
    ASSUME Base, NEW k \in Keys, Device(k)
    PROVE  Base'
<1>1. /\ Makes(k) \/ TakesOver(k) \/ \E t \in Targets : Ends(k, t)
      /\ UNCHANGED <<selectVars, pending, provisionedPages, mapVars, jobVars, attached,
                     pauseOnStart>>
  BY DeviceMoves DEF Base
<1>2. SelectInv' /\ JobInv' /\ MapTypes'
  BY <1>1, SelectKept, JobKept DEF Base, MapTypes, mapVars
<1>3. job' = job /\ App(k) \in Apps
  BY <1>1, KeyParts DEF jobVars
<1>4. DeviceTypes /\ Announced
  BY DEF Base
<1>5. \A i \in DOMAIN wire : wire[i] \in EventSet /\ wire[i].id \in Targets
  BY <1>4, Wired
<1>6. CASE Makes(k)
  <2>1. /\ born' = born + 1 /\ born + 1 \in Targets /\ born + 1 \in Ids
        /\ paused' \subseteq paused \cup {born + 1} /\ resumeFailed' = resumeFailed
        /\ shown' \in [Keys -> Ids] /\ next' \in [Keys -> Ids] /\ dying' \in [Keys -> Ids]
    BY <1>4, <1>6 DEF Makes, DeviceTypes, Ids
  <2>2. \E prov, isPaused \in BOOLEAN :
           Event("created", App(k), born + 1, NoTarget, prov, isPaused)
    BY <1>6 DEF Makes
  <2>3. PICK n \in DOMAIN wire' :
             /\ n \notin DOMAIN wire /\ wire' \in Seq(EventSet)
             /\ \A i \in DOMAIN wire' : i = n \/ i \in DOMAIN wire
             /\ \A i \in DOMAIN wire : wire'[i] = wire[i]
             /\ wire'[n].id = born + 1
    <3>1. PICK prov \in BOOLEAN, isPaused \in BOOLEAN :
               Event("created", App(k), born + 1, NoTarget, prov, isPaused)
      BY <2>2
    <3>2. NoTarget \in Ids /\ "created" \in {"created", "committed", "destroyed"}
      BY Numbers
    <3>3. \E n \in DOMAIN wire' :
             /\ n \notin DOMAIN wire /\ wire' \in Seq(EventSet) /\ n \in Nat
             /\ \A i \in DOMAIN wire' : i \in Nat /\ (i = n \/ i \in DOMAIN wire)
             /\ \A i \in DOMAIN wire : i \in DOMAIN wire' /\ wire'[i] = wire[i] /\ i < n /\ i > 0
             /\ wire'[n].type = "created" /\ wire'[n].app = App(k) /\ wire'[n].id = born + 1
             /\ wire'[n].old = NoTarget /\ wire'[n].prov = prov /\ wire'[n].isPaused = isPaused
      BY <1>3, <1>4, <2>1, <3>1, <3>2, Sent
    <3> QED
      BY <3>3
  <2>4. DeviceTypes'
    BY <1>1, <1>4, <2>1, <2>3 DEF DeviceTypes
  <2>5. born \in Nat /\ \A t \in Targets : t \in Nat
    BY <1>4, Numbers DEF DeviceTypes
  <2>6. job[born + 1].at = "none"
    BY <1>4, <2>1, <2>5 DEF Announced
  <2>7. \A i \in DOMAIN wire : wire[i].type = "created" => wire[i].id # born + 1
    BY <1>4, <1>5, <2>5 DEF Announced
  <2>8. Announced'
    <3>1. ASSUME NEW i \in DOMAIN wire', wire'[i].type = "created"
          PROVE  /\ wire'[i].id <= born' /\ job'[wire'[i].id].at = "none"
                 /\ \A j \in DOMAIN wire' :
                      wire'[j].type = "created" /\ wire'[j].id = wire'[i].id => j = i
      <4>1. CASE i = n
        BY <1>3, <2>1, <2>3, <2>5, <2>6, <2>7, <4>1
      <4>2. CASE i # n
        <5>1. /\ i \in DOMAIN wire /\ wire'[i] = wire[i] /\ wire[i].id <= born
              /\ wire[i].id \in Nat /\ job[wire[i].id].at = "none"
          BY <1>4, <1>5, <2>3, <2>5, <3>1, <4>2 DEF Announced
        <5>2. \A j \in DOMAIN wire : wire[j].type = "created" /\ wire[j].id = wire[i].id => j = i
          BY <1>4, <3>1, <5>1 DEF Announced
        <5> QED
          BY <1>3, <2>1, <2>3, <2>5, <2>7, <3>1, <5>1, <5>2
      <4> QED
        BY <4>1, <4>2
    <3>2. \A t \in Targets : job'[t].at # "none" => t <= born'
      BY <1>3, <1>4, <2>1, <2>5 DEF Announced
    <3> QED
      BY <3>1, <3>2 DEF Announced
  <2> QED
    BY <1>2, <2>4, <2>8 DEF Base
<1>7. ASSUME NEW type \in {"committed", "destroyed"}, NEW t \in Targets, NEW old \in Ids,
             Sends(type, App(k), t, old),
             shown' \in [Keys -> Ids], next' \in [Keys -> Ids], dying' \in [Keys -> Ids],
             paused' \subseteq paused, resumeFailed' \subseteq resumeFailed, born' = born
      PROVE  Base'
  <2>1. PICK n \in DOMAIN wire' :
             /\ n \notin DOMAIN wire /\ wire' \in Seq(EventSet)
             /\ \A i \in DOMAIN wire' : i = n \/ i \in DOMAIN wire
             /\ \A i \in DOMAIN wire : wire'[i] = wire[i]
             /\ wire'[n].type = type
    <3>1. PICK prov \in BOOLEAN, isPaused \in BOOLEAN : Event(type, App(k), t, old, prov, isPaused)
      BY <1>7 DEF Sends
    <3>2. type \in {"created", "committed", "destroyed"}
      OBVIOUS
    <3> QED
      BY <1>3, <1>4, <3>1, <3>2, Sent
  <2>2. DeviceTypes'
    BY <1>1, <1>4, <1>7, <2>1 DEF DeviceTypes
  <2>3. \A i \in DOMAIN wire' : wire'[i].type = "created" => i \in DOMAIN wire /\ wire'[i] = wire[i]
    BY <2>1
  <2>4. Announced'
    BY <1>3, <1>4, <1>7, <2>3 DEF Announced
  <2> QED
    BY <1>2, <2>2, <2>4 DEF Base
<1>8. CASE TakesOver(k)
  <2>1. next[k] \in Targets /\ shown[k] \in Ids /\ NoTarget \in Ids
    BY <1>4, <1>8, Numbers DEF DeviceTypes, TakesOver
  <2>2. /\ shown' \in [Keys -> Ids] /\ next' \in [Keys -> Ids] /\ dying' \in [Keys -> Ids]
        /\ paused' \subseteq paused /\ resumeFailed' \subseteq resumeFailed /\ born' = born
        /\ Sends("committed", App(k), next[k], shown[k])
    BY <1>4, <1>8, <2>1 DEF DeviceTypes, TakesOver, Ids
  <2> QED
    BY <1>7, <2>1, <2>2
<1>9. ASSUME NEW t \in Targets, Ends(k, t) PROVE Base'
  <2>1. NoTarget \in Ids
    BY Numbers
  <2>2. /\ shown' \in [Keys -> Ids] /\ next' \in [Keys -> Ids] /\ dying' \in [Keys -> Ids]
        /\ paused' \subseteq paused /\ resumeFailed' \subseteq resumeFailed /\ born' = born
        /\ Sends("destroyed", App(k), t, NoTarget)
    BY <1>4, <1>9, <2>1 DEF DeviceTypes, Ends
  <2> QED
    BY <1>7, <2>1, <2>2
<1> QED
  BY <1>1, <1>6, <1>8, <1>9

LEMMA BaseInit == Init => Base
<1> SUFFICES ASSUME Init PROVE Base
  OBVIOUS
<1>1. /\ [at |-> "new", key |-> << >>] \in SelectSet /\ "new" \notin InSelection
      /\ NoJob \in JobSet /\ NoJob.at = "none" /\ "none" \notin UnderLock \cup {"setting"}
      /\ NoTarget \in Ids /\ NoProvisional \in [old : Ids, new : Ids] /\ 0 \in Ids
  BY Numbers DEF SelectSet, SelectStages, InSelection, MaybeKeys, JobSet, JobStages, UnderLock,
                 NoJob, NoProvisional
<1>2. << >> \in Seq(Selects) /\ << >> \in Seq(Targets) /\ << >> \in Seq(EventSet)
  OBVIOUS
<1>3. \A W : Orderly(<< >>, {}, W)
  BY EmptySeq DEF Orderly, IsInjective, Range
<1>4. SelectInv
  <2>1. \A k \in Keys : Selecting(k) = {}
    BY <1>1 DEF Init, Selecting
  <2> QED
    BY <1>1, <1>2, <1>3, <2>1 DEF Init, SelectInv, KeyOf
<1>5. JobInv
  <2>1. \A k \in Keys : Initializing(k) = {}
    BY <1>1 DEF Init, Initializing
  <2> QED
    BY <1>1, <1>2, <1>3, <2>1 DEF Init, JobInv
<1>6. MapTypes /\ DeviceTypes
  BY <1>1, <1>2, AskedAssumption DEF AskedAssumption, Init, MapTypes, DeviceTypes
<1>7. Announced
  <2>1. DOMAIN wire = {}
    BY EmptySeq DEF Init
  <2>2. \A t \in Targets : job[t].at = "none"
    BY <1>1 DEF Init
  <2> QED
    BY <2>1, <2>2 DEF Announced
<1> QED
  BY <1>4, <1>5, <1>6, <1>7 DEF Base

LEMMA BaseStep == Base /\ [Next]_vars => Base'
<1> SUFFICES ASSUME Base, [Next]_vars PROVE Base'
  OBVIOUS
<1>0. SelectInv /\ JobInv /\ MapTypes /\ DeviceTypes /\ Announced
  BY DEF Base
<1>1. CASE TargetCreated
  <2>1. /\ wire # << >> /\ wire' = Tail(wire) /\ Head(wire).type = "created"
        /\ UNCHANGED <<selectVars, deviceVars>> /\ JobInv' /\ MapTypes'
        /\ \A u \in Targets : u # Head(wire).id => job'[u] = job[u]
    BY <1>1, Created
  <2>2. Announced'
    BY <2>1, AnnouncedHandled DEF deviceVars
  <2>3. DeviceTypes'
    BY <1>0, <2>1, Handled DEF DeviceTypes, deviceVars, pausedVars
  <2> QED
    BY <1>0, <2>1, <2>2, <2>3, SelectKept DEF Base
<1>2. CASE TargetCommitted \/ TargetDestroyed
  <2>1. /\ wire # << >> /\ wire' = Tail(wire)
        /\ UNCHANGED <<selectVars, jobVars, deviceVars>> /\ MapTypes'
    BY <1>2, Committed, Destroyed
  <2>2. Announced'
    BY <2>1, AnnouncedHandled DEF deviceVars, jobVars
  <2>3. DeviceTypes'
    BY <1>0, <2>1, Handled DEF DeviceTypes, deviceVars, pausedVars
  <2> QED
    BY <1>0, <2>1, <2>2, <2>3, SelectKept, JobKept DEF Base
<1>3. ASSUME NEW s \in Selects, Select(s) \/ \E k \in Keys : SelectPage(s, k) PROVE Base'
  <2>1. SelectInv'
    BY <1>0, <1>3, SelectSteps, SelectEnters
  <2>2. /\ UNCHANGED <<mapVars, jobVars, pauseOnStart, shown, next, dying, paused, resumeFailed,
                       born, wire>>
        /\ pending' \in {pending, {KeyOf(s)}} /\ provisionedPages' \subseteq provisionedPages
        /\ attached' \subseteq attached \cup {KeyOf(s)}
        /\ pending' # pending \/ attached' # attached => select[s].at \in InSelection
    BY <1>3 DEF Select, SelectPage, BeginSelect, SetupDone, SetupFails, SelectTimeout,
                deviceVars, pausedVars, InSelection
  <2>3. select[s].at \in InSelection => KeyOf(s) \in Keys
    BY <1>0 DEF SelectInv
  <2>4. MapTypes' /\ DeviceTypes'
    BY <1>0, <2>2, <2>3 DEF MapTypes, DeviceTypes, mapVars
  <2>5. Announced'
    BY <1>0, <2>2 DEF Announced, jobVars
  <2> QED
    BY <1>0, <2>1, <2>2, <2>4, <2>5, JobKept DEF Base
<1>4. ASSUME NEW t \in Targets, Job(t) \/ OccupationExpires(t) PROVE Base'
  <2>1. /\ JobInv' /\ SelectInv' /\ job[t].at \in UnderLock \cup {"setting"}
        /\ \A u \in Targets : u # t => job'[u] = job[u]
        /\ provisionedPages' \subseteq provisionedPages /\ paused' \subseteq paused
        /\ resumeFailed' \subseteq resumeFailed \cup {t}
        /\ pauseOnStart' \subseteq pauseOnStart \cup {job[t].key}
        /\ UNCHANGED <<pending, mapVars, attached, shown, next, dying, born, wire>>
    BY <1>0, <1>4, JobSteps
  <2>2. MapTypes' /\ DeviceTypes'
    <3>1. job[t].key \in Keys
      BY <1>0, <2>1 DEF JobInv
    <3> QED
      BY <1>0, <2>1, <3>1 DEF MapTypes, DeviceTypes, mapVars
  <2>3. job[t].at # "none"
    BY <2>1 DEF UnderLock
  <2>4. \A i \in DOMAIN wire : wire[i].id \in Targets
    BY <1>0, Wired
  <2>5. Announced'
    BY <1>0, <2>1, <2>3, <2>4 DEF Announced
  <2> QED
    BY <2>1, <2>2, <2>5 DEF Base
<1>5. ASSUME NEW k \in Keys, Device(k) PROVE Base'
  BY <1>5, DeviceBase
<1>6. CASE UNCHANGED vars
  <2>1. /\ UNCHANGED <<selectVars, jobVars, wire, job, born>>
        /\ UNCHANGED <<pending, provisionedPages, known, targets, provisional>>
        /\ UNCHANGED <<attached, pauseOnStart, shown, next, dying, paused, resumeFailed>>
    BY <1>6 DEF vars, mapVars, deviceVars, pausedVars, jobVars
  <2>2. MapTypes' /\ DeviceTypes' /\ Announced'
    BY <1>0, <2>1 DEF MapTypes, DeviceTypes, Announced
  <2> QED
    BY <1>0, <2>1, <2>2, SelectKept, JobKept DEF Base
<1> QED
  BY <1>1, <1>2, <1>3, <1>4, <1>5, <1>6 DEF Next, Handle

LEMMA BaseInvariant == Spec => []Base
  BY BaseInit, BaseStep, PTL DEF Spec

\* Every variable has its type, each lock is queued for by those it serves, once,
\* and only its holder is past the queue.
THEOREM TypeCorrect == Spec => []TypeOK
<1>1. Base => TypeOK
  <2> SUFFICES ASSUME Base PROVE TypeOK
    OBVIOUS
  <2>1. /\ \A s \in Selects : select[s].at \in InSelection \cup {"new", "done"}
        /\ \A t \in Targets : job[t].at \in UnderLock \cup {"none", "setting", "over"}
    BY DEF Base, SelectInv, SelectSet, SelectStages, JobInv, JobSet, JobStages
  <2>2. ASSUME NEW k \in Keys
        PROVE  /\ IsInjective(selectionLock[k]) /\ IsInjective(targetLock[k])
               /\ Range(selectionLock[k])
                     = {s \in Selects : KeyOf(s) = k /\ select[s].at \in InSelection}
               /\ Range(targetLock[k])
                     = {t \in Targets : job[t].key = k /\ job[t].at \in UnderLock}
               /\ \A i \in DOMAIN targetLock[k] : i > 1 => job[targetLock[k][i]].at = "queued"
               /\ \A i \in DOMAIN selectionLock[k] :
                     i > 1 => select[selectionLock[k][i]].at = "queued"
    BY DEF Base, SelectInv, JobInv, Orderly, Selecting, Initializing, StillQueued, JobsQueued
  <2> QED
    BY <2>1, <2>2 DEF TypeOK, Base, MapTypes, DeviceTypes
<1> QED
  BY <1>1, BaseInvariant, PTL
-----------------------------------------------------------------------------
(* Paused targets                                                          *)

\* A target that waits to be resumed was announced as paused, and whoever handles
\* its creation knows, and has not got past resuming it unless that failed.
Resumption ==
    /\ \A t \in Targets : t \in paused =>
         /\ t <= born /\ (job[t].at \in {"readying", "over"} => t \in resumeFailed)
         /\ job[t].at \in UnderLock \cup {"setting"} => job[t].isPaused
    /\ \A i \in DOMAIN wire :
         wire[i].type = "created" /\ wire[i].id \in paused => wire[i].isPaused

LEMMA ResumptionHandled ==
    ASSUME Base, Resumption, wire # << >>, wire' = Tail(wire), UNCHANGED <<born, paused, resumeFailed>>,
           \A u \in Targets :
              \/ job'[u] = job[u]
              \/ /\ Head(wire).type = "created" /\ u = Head(wire).id
                 /\ job'[u].at \in {"queued", "setting"} /\ job'[u].isPaused = Head(wire).isPaused
    PROVE  Resumption'
<1>1. /\ Head(wire) = wire[1] /\ 1 \in DOMAIN wire
      /\ \A i \in DOMAIN wire' : i + 1 \in DOMAIN wire /\ wire'[i] = wire[i + 1]
  BY Handled DEF Base
<1>2. ASSUME NEW t \in Targets, t \in paused
      PROVE  /\ t <= born /\ (job'[t].at \in {"readying", "over"} => t \in resumeFailed)
             /\ job'[t].at \in UnderLock \cup {"setting"} => job'[t].isPaused
  <2>1. /\ t <= born /\ (job[t].at \in {"readying", "over"} => t \in resumeFailed)
        /\ job[t].at \in UnderLock \cup {"setting"} => job[t].isPaused
    BY <1>2 DEF Resumption
  <2>2. Head(wire).type = "created" /\ t = Head(wire).id => Head(wire).isPaused
    BY <1>1, <1>2 DEF Resumption
  <2> QED
    BY <2>1, <2>2
<1>3. \A i \in DOMAIN wire' :
         wire'[i].type = "created" /\ wire'[i].id \in paused => wire'[i].isPaused
  BY <1>1 DEF Resumption
<1> QED
  BY <1>2, <1>3 DEF Resumption

LEMMA ResumptionDevice ==
    ASSUME Base, Resumption, NEW k \in Keys, Device(k)
    PROVE  Resumption'
<1>0. DeviceTypes /\ Announced /\ App(k) \in Apps
  BY KeyParts DEF Base
<1>1. /\ Makes(k) \/ TakesOver(k) \/ \E t \in Targets : Ends(k, t)
      /\ job' = job
  BY <1>0, DeviceMoves DEF jobVars
<1>2. \A i \in DOMAIN wire : wire[i].id \in Targets
  BY <1>0, Wired
<1>3. born \in Nat /\ paused \subseteq Targets /\ \A t \in Targets : t \in Nat
  BY <1>0, Numbers DEF DeviceTypes
<1>4. CASE Makes(k)
  <2>1. PICK prov \in BOOLEAN, isPaused \in BOOLEAN :
             /\ Event("created", App(k), born + 1, NoTarget, prov, isPaused)
             /\ paused' = IF isPaused THEN paused \cup {born + 1} ELSE paused
             /\ resumeFailed' = resumeFailed
    BY <1>4 DEF Makes
  <2>2. born' = born + 1 /\ born + 1 \in Targets
    BY <1>4 DEF Makes
  <2>3. PICK n \in DOMAIN wire' :
             /\ \A i \in DOMAIN wire' : i = n \/ i \in DOMAIN wire
             /\ \A i \in DOMAIN wire : wire'[i] = wire[i]
             /\ wire'[n].id = born + 1 /\ wire'[n].isPaused = isPaused
    <3>1. Event("created", App(k), born + 1, NoTarget, prov, isPaused)
      BY <2>1
    <3>2. NoTarget \in Ids /\ "created" \in {"created", "committed", "destroyed"}
      BY Numbers
    <3>3. \E n \in DOMAIN wire' :
             /\ n \notin DOMAIN wire /\ wire' \in Seq(EventSet) /\ n \in Nat
             /\ \A i \in DOMAIN wire' : i \in Nat /\ (i = n \/ i \in DOMAIN wire)
             /\ \A i \in DOMAIN wire : i \in DOMAIN wire' /\ wire'[i] = wire[i] /\ i < n /\ i > 0
             /\ wire'[n].type = "created" /\ wire'[n].app = App(k) /\ wire'[n].id = born + 1
             /\ wire'[n].old = NoTarget /\ wire'[n].prov = prov /\ wire'[n].isPaused = isPaused
      BY <1>0, <2>2, <3>1, <3>2, Sent
    <3> QED
      BY <3>3
  <2>4. born + 1 \notin paused /\ job[born + 1].at = "none"
    BY <1>0, <1>3, <2>2 DEF Announced, Resumption
  <2>5. \A i \in DOMAIN wire : wire[i].type = "created" => wire[i].id # born + 1
    BY <1>0, <1>2, <1>3 DEF Announced
  <2>6. \A t \in Targets : t \in paused' =>
           /\ t <= born' /\ (job'[t].at \in {"readying", "over"} => t \in resumeFailed')
           /\ job'[t].at \in UnderLock \cup {"setting"} => job'[t].isPaused
    BY <1>1, <1>3, <2>1, <2>2, <2>4 DEF Resumption, UnderLock
  <2>7. \A i \in DOMAIN wire' :
           wire'[i].type = "created" /\ wire'[i].id \in paused' => wire'[i].isPaused
    BY <2>1, <2>3, <2>4, <2>5 DEF Resumption
  <2> QED
    BY <2>6, <2>7 DEF Resumption
<1>5. ASSUME NEW type \in {"committed", "destroyed"}, NEW t \in Targets, NEW old \in Ids,
             Sends(type, App(k), t, old), paused' \subseteq paused, born' = born,
             resumeFailed \cap paused' \subseteq resumeFailed'
      PROVE  Resumption'
  <2>1. PICK n \in DOMAIN wire' :
             /\ \A i \in DOMAIN wire' : i = n \/ i \in DOMAIN wire
             /\ \A i \in DOMAIN wire : wire'[i] = wire[i]
             /\ wire'[n].type = type
    <3>1. PICK prov \in BOOLEAN, isPaused \in BOOLEAN : Event(type, App(k), t, old, prov, isPaused)
      BY <1>5 DEF Sends
    <3>2. type \in {"created", "committed", "destroyed"}
      OBVIOUS
    <3> QED
      BY <1>0, <3>1, <3>2, Sent
  <2>2. \A i \in DOMAIN wire' : wire'[i].type = "created" => i \in DOMAIN wire /\ wire'[i] = wire[i]
    BY <2>1
  <2> QED
    BY <1>1, <1>5, <2>2 DEF Resumption
<1>6. CASE TakesOver(k)
  <2>1. next[k] \in Targets /\ shown[k] \in Ids
    BY <1>0, <1>6, Numbers DEF DeviceTypes, TakesOver
  <2> QED
    BY <1>5, <1>6, <2>1 DEF TakesOver
<1>7. ASSUME NEW t \in Targets, Ends(k, t) PROVE Resumption'
  BY <1>5, <1>7, Numbers DEF Ends
<1> QED
  BY <1>1, <1>4, <1>6, <1>7

LEMMA ResumptionStep == Base /\ Resumption /\ [Next]_vars => Resumption'
<1> SUFFICES ASSUME Base, Resumption, [Next]_vars PROVE Resumption'
  OBVIOUS
<1>1. CASE TargetCreated
  BY <1>1, Created, ResumptionHandled DEF deviceVars, pausedVars
<1>2. CASE TargetCommitted \/ TargetDestroyed
  BY <1>2, Committed, Destroyed, ResumptionHandled DEF deviceVars, pausedVars, jobVars
<1>3. ASSUME NEW s \in Selects, Select(s) \/ \E k \in Keys : SelectPage(s, k) PROVE Resumption'
  <2>1. UNCHANGED <<job, paused, resumeFailed, born, wire>>
    BY <1>3 DEF Select, SelectPage, BeginSelect, SetupDone, SetupFails, SelectTimeout,
                deviceVars, pausedVars, jobVars
  <2> QED
    BY <2>1 DEF Resumption
<1>4. ASSUME NEW t \in Targets, Job(t) \/ OccupationExpires(t) PROVE Resumption'
  <2>1. /\ job[t].at \in UnderLock \cup {"setting"}
        /\ \A u \in Targets : u # t => job'[u] = job[u]
        /\ job'[t].at = "over" \/ job'[t].isPaused = job[t].isPaused
        /\ paused' \subseteq paused /\ resumeFailed \subseteq resumeFailed'
        /\ UNCHANGED <<born, wire>>
        /\ \/ job'[t].at \notin {"readying", "over"}
           \/ t \in paused' => t \in resumeFailed'
           \/ job[t].at = "readying" \/ ~job[t].isPaused
    BY <1>4, JobSteps DEF Base
  <2>2. \A u \in Targets : u \in paused' =>
           /\ u <= born /\ (job'[u].at \in {"readying", "over"} => u \in resumeFailed')
           /\ job'[u].at \in UnderLock \cup {"setting"} => job'[u].isPaused
    <3> SUFFICES ASSUME NEW u \in Targets, u \in paused'
                 PROVE  /\ u <= born /\ (job'[u].at \in {"readying", "over"} => u \in resumeFailed')
                        /\ job'[u].at \in UnderLock \cup {"setting"} => job'[u].isPaused
      OBVIOUS
    <3>1. /\ u <= born /\ (job[u].at \in {"readying", "over"} => u \in resumeFailed)
          /\ job[u].at \in UnderLock \cup {"setting"} => job[u].isPaused
      BY <2>1 DEF Resumption
    <3> QED
      BY <2>1, <3>1 DEF UnderLock
  <2> QED
    BY <2>1, <2>2 DEF Resumption
<1>5. ASSUME NEW k \in Keys, Device(k) PROVE Resumption'
  BY <1>5, ResumptionDevice
<1>6. CASE UNCHANGED vars
  BY <1>6 DEF vars, jobVars, deviceVars, pausedVars, Resumption
<1> QED
  BY <1>1, <1>2, <1>3, <1>4, <1>5, <1>6 DEF Next, Handle

\* A target whose creation was handled to the end was resumed, unless Target.resume
\* itself failed for it, whatever became of its initialization and however long it
\* took.
THEOREM ResumedSafe == Spec => []Resumed
<1>1. Init => Resumption
  BY EmptySeq DEF Init, Resumption
<1>2. Resumption => Resumed
  BY DEF Resumption, Resumed
<1> QED
  BY <1>1, <1>2, BaseInvariant, ResumptionStep, PTL DEF Spec
-----------------------------------------------------------------------------
(* The map of targets                                                      *)

Living(t) == \E k \in Keys : t \in {shown[k], next[k], dying[k]}
\* Target t exists, or the event of its end is on the wire behind position i.
AliveAfter(t, i) ==
    \/ Living(t)
    \/ \E j \in DOMAIN wire : j > i /\ wire[j].type = "destroyed" /\ wire[j].id = t
\* Target new has taken the place of old, which goes first: the end of old is
\* still to come or on the wire behind i, and what of new is behind that.
Pair(old, new, i) ==
    /\ old \in Targets /\ new \in Targets /\ old # new
    /\ \/ \E k \in Keys : dying[k] = old /\ shown[k] = new
       \/ \E j \in DOMAIN wire :
             j > i /\ wire[j].type = "destroyed" /\ wire[j].id = old /\ AliveAfter(new, j)

\* The next target of a page only exists beside a shown one.
Navigating == \A k \in Keys : next[k] # NoTarget =>
             dying[k] = NoTarget /\ shown[k] # NoTarget /\ shown[k] # next[k]

\* What keeps a target, keeps one that was made.
Bounded ==
    /\ \A k \in Keys : /\ shown[k] <= born /\ next[k] <= born /\ dying[k] <= born
                       /\ targets[k] <= born
    /\ \A i \in DOMAIN wire : wire[i].id <= born /\ wire[i].old <= born
    /\ \A a \in Apps : provisional[a].old <= born /\ provisional[a].new <= born

\* A target is of one application: events and maps agree on it.
Owned(owner) ==
    /\ \A k \in Keys : \A t \in Targets :
         t \in {targets[k], shown[k], next[k], dying[k]} => owner[t] = App(k)
    /\ \A i \in DOMAIN wire :
         /\ owner[wire[i].id] = wire[i].app
         /\ wire[i].type = "committed" => owner[wire[i].old] = wire[i].app
    /\ \A a \in Apps : provisional[a].old # NoTarget =>
         owner[provisional[a].old] = a /\ owner[provisional[a].new] = a
Owners == [Targets -> Apps \cup {NoTarget}]

\* Nothing is known of a target without hearing of its end later.
Mapped ==
    /\ \A k \in Keys, t \in Targets : targets[k] = t => AliveAfter(t, 0) /\ App(k) \in known
    /\ \A i \in DOMAIN wire, t \in Targets :
         wire[i].type = "created" /\ wire[i].id = t => AliveAfter(t, i)
    /\ \A i \in DOMAIN wire, o, n \in Ids :
         wire[i].type = "committed" /\ wire[i].old = o /\ wire[i].id = n => Pair(o, n, i)
    /\ \A a \in Apps, o \in Targets, n \in Ids :
         provisional[a].old = o /\ provisional[a].new = n => Pair(o, n, 0) /\ a \in known

MapInv == Base /\ Navigating /\ Bounded /\ Mapped /\ \E owner \in Owners : Owned(owner)

\* The wire loses its head: what was behind a position stays behind it.
LEMMA AliveHandled ==
    ASSUME DeviceTypes, wire # << >>, wire' = Tail(wire), UNCHANGED <<shown, next, dying>>,
           NEW t, NEW i \in Nat, AliveAfter(t, i),
           i = 0 => ~(Head(wire).type = "destroyed" /\ Head(wire).id = t)
    PROVE  (i > 0 => AliveAfter(t, i - 1)') /\ AliveAfter(t, 0)'
<1>1. CASE Living(t)
  BY <1>1 DEF AliveAfter, Living
<1>2. CASE \E j \in DOMAIN wire : j > i /\ wire[j].type = "destroyed" /\ wire[j].id = t
  <2>1. PICK j \in DOMAIN wire : j > i /\ wire[j].type = "destroyed" /\ wire[j].id = t
    BY <1>2
  <2>2. /\ Head(wire) = wire[1] /\ j \in Nat /\ j > 0
        /\ j # 1 => j - 1 \in DOMAIN wire' /\ wire'[j - 1] = wire[j]
    BY Handled
  <2>3. j # 1 /\ j - 1 > 0 /\ (i > 0 => j - 1 > i - 1)
    BY <2>1, <2>2
  <2> QED
    BY <2>1, <2>2, <2>3 DEF AliveAfter
<1> QED
  BY <1>1, <1>2 DEF AliveAfter

LEMMA PairHandled ==
    ASSUME DeviceTypes, wire # << >>, wire' = Tail(wire), UNCHANGED <<shown, next, dying>>,
           NEW o, NEW n, NEW i \in Nat, Pair(o, n, i),
           i = 0 => ~(Head(wire).type = "destroyed" /\ Head(wire).id = o)
    PROVE  (i > 0 => Pair(o, n, i - 1)') /\ Pair(o, n, 0)'
<1>1. CASE \E k \in Keys : dying[k] = o /\ shown[k] = n
  BY <1>1 DEF Pair
<1>2. CASE \E j \in DOMAIN wire :
             j > i /\ wire[j].type = "destroyed" /\ wire[j].id = o /\ AliveAfter(n, j)
  <2>1. PICK j \in DOMAIN wire :
             j > i /\ wire[j].type = "destroyed" /\ wire[j].id = o /\ AliveAfter(n, j)
    BY <1>2
  <2>2. /\ Head(wire) = wire[1] /\ j \in Nat /\ j > 0
        /\ j # 1 => j - 1 \in DOMAIN wire' /\ wire'[j - 1] = wire[j]
    BY Handled
  <2>3. j # 1 /\ j - 1 > 0 /\ (i > 0 => j - 1 > i - 1)
    BY <2>1, <2>2
  <2>4. AliveAfter(n, j - 1)'
    BY <2>1, <2>2, AliveHandled
  <2> QED
    BY <2>1, <2>2, <2>3, <2>4 DEF Pair
<1> QED
  BY <1>1, <1>2 DEF Pair

\* What an event of page k adds to the wire, at n.
News(n) ==
    /\ n \in DOMAIN wire' /\ n \notin DOMAIN wire /\ n \in Nat /\ n > 0
    /\ \A i \in DOMAIN wire' : i = n \/ i \in DOMAIN wire
    /\ \A i \in DOMAIN wire : i \in DOMAIN wire' /\ wire'[i] = wire[i] /\ i < n /\ i > 0 /\ i \in Nat
Reported(k, n) ==
    \/ Makes(k) /\ wire'[n].type = "created" /\ wire'[n].id = born + 1 /\ wire'[n].old = NoTarget
    \/ /\ TakesOver(k) /\ wire'[n].type = "committed"
       /\ wire'[n].id = next[k] /\ wire'[n].old = shown[k]
    \/ \E t \in Targets : /\ Ends(k, t) /\ wire'[n].type = "destroyed"
                          /\ wire'[n].id = t /\ wire'[n].old = NoTarget

LEMMA Reports ==
    ASSUME DeviceTypes, NEW k \in Keys, Makes(k) \/ TakesOver(k) \/ \E t \in Targets : Ends(k, t)
    PROVE  \E n : News(n) /\ wire'[n].app = App(k) /\ Reported(k, n)
<1>0. App(k) \in Apps /\ NoTarget \in Ids
  BY KeyParts, Numbers
<1>1. \A i \in DOMAIN wire : i \in Nat
  BY Wired
<1>2. ASSUME NEW type \in {"created", "committed", "destroyed"}, NEW t \in Targets,
             NEW old \in Ids, Sends(type, App(k), t, old)
      PROVE  \E n : /\ News(n) /\ wire'[n].app = App(k) /\ wire'[n].type = type
                    /\ wire'[n].id = t /\ wire'[n].old = old
  <2>1. PICK prov \in BOOLEAN, isPaused \in BOOLEAN : Event(type, App(k), t, old, prov, isPaused)
    BY <1>2 DEF Sends
  <2>2. PICK n \in DOMAIN wire' :
             /\ n \notin DOMAIN wire /\ n \in Nat
             /\ \A i \in DOMAIN wire' : i \in Nat /\ (i = n \/ i \in DOMAIN wire)
             /\ \A i \in DOMAIN wire : i \in DOMAIN wire' /\ wire'[i] = wire[i] /\ i < n /\ i > 0
             /\ wire' \in Seq(EventSet)
             /\ wire'[n].type = type /\ wire'[n].app = App(k) /\ wire'[n].id = t
             /\ wire'[n].old = old
    BY <1>0, <2>1, Sent
  <2>3. n > 0
    BY <2>2
  <2> QED
    BY <1>1, <2>2, <2>3 DEF News
<1>3. CASE Makes(k)
  <2>1. born + 1 \in Targets /\ Sends("created", App(k), born + 1, NoTarget)
    BY <1>3 DEF Makes, Sends
  <2> QED
    BY <1>0, <1>2, <1>3, <2>1 DEF Reported
<1>4. CASE TakesOver(k)
  <2>1. /\ next[k] \in Targets /\ shown[k] \in Ids
        /\ Sends("committed", App(k), next[k], shown[k])
    BY <1>4, Numbers DEF DeviceTypes, TakesOver
  <2> QED
    BY <1>2, <1>4, <2>1 DEF Reported
<1>5. ASSUME NEW t \in Targets, Ends(k, t)
      PROVE  \E n : News(n) /\ wire'[n].app = App(k) /\ Reported(k, n)
  <2>1. Sends("destroyed", App(k), t, NoTarget)
    BY <1>5 DEF Ends
  <2> QED
    BY <1>0, <1>2, <1>5, <2>1 DEF Reported
<1> QED
  BY <1>3, <1>4, <1>5

\* What a page does leaves nothing without an end to come.
LEMMA AliveDevice ==
    ASSUME DeviceTypes, Navigating, NEW k \in Keys, NEW n, News(n), Reported(k, n),
           NEW t \in Targets, NEW i \in {0} \cup DOMAIN wire, AliveAfter(t, i)
    PROVE  AliveAfter(t, i)'
<1>0. /\ n > i /\ n \in DOMAIN wire' /\ t # NoTarget
      /\ shown \in [Keys -> Ids] /\ next \in [Keys -> Ids] /\ dying \in [Keys -> Ids]
  BY Numbers DEF News, DeviceTypes
<1>1. CASE \E j \in DOMAIN wire : j > i /\ wire[j].type = "destroyed" /\ wire[j].id = t
  BY <1>1 DEF News, AliveAfter
<1>2. CASE Living(t)
  <2>1. PICK l \in Keys : t \in {shown[l], next[l], dying[l]}
    BY <1>2 DEF Living
  <2>2. CASE Makes(k)
    <3>1. \/ /\ shown[k] = NoTarget /\ shown' = [shown EXCEPT ![k] = born + 1]
             /\ UNCHANGED <<next, dying>>
          \/ /\ next[k] = NoTarget /\ next' = [next EXCEPT ![k] = born + 1]
             /\ UNCHANGED <<shown, dying>>
      BY <2>2 DEF Makes
    <3>2. t \in {shown'[l], next'[l], dying'[l]}
      BY <1>0, <2>1, <3>1
    <3> QED
      BY <3>2 DEF AliveAfter, Living
  <2>3. CASE TakesOver(k)
    <3>1. /\ dying' = [dying EXCEPT ![k] = shown[k]] /\ shown' = [shown EXCEPT ![k] = next[k]]
          /\ next' = [next EXCEPT ![k] = NoTarget] /\ dying[k] = NoTarget
      BY <2>3 DEF TakesOver, Navigating
    <3>2. t \in {shown'[l], next'[l], dying'[l]}
      BY <1>0, <2>1, <3>1
    <3> QED
      BY <3>2 DEF AliveAfter, Living
  <2>4. ASSUME NEW u \in Targets, Ends(k, u), wire'[n].type = "destroyed", wire'[n].id = u
        PROVE  AliveAfter(t, i)'
    <3>1. CASE t = u
      BY <1>0, <2>4, <3>1 DEF AliveAfter
    <3>2. CASE t # u
      <4>1. \/ /\ dying[k] = u /\ dying' = [dying EXCEPT ![k] = NoTarget]
               /\ UNCHANGED <<shown, next>>
            \/ /\ next[k] = u /\ next' = [next EXCEPT ![k] = NoTarget]
               /\ UNCHANGED <<shown, dying>>
            \/ /\ shown[k] = u /\ shown' = [shown EXCEPT ![k] = NoTarget]
               /\ UNCHANGED <<next, dying>>
        BY <2>4 DEF Ends
      <4>2. t \in {shown'[l], next'[l], dying'[l]}
        BY <1>0, <2>1, <3>2, <4>1
      <4> QED
        BY <4>2 DEF AliveAfter, Living
    <3> QED
      BY <3>1, <3>2
  <2> QED
    BY <2>2, <2>3, <2>4 DEF Reported
<1> QED
  BY <1>1, <1>2 DEF AliveAfter

LEMMA PairDevice ==
    ASSUME DeviceTypes, Navigating, NEW k \in Keys, NEW n, News(n), Reported(k, n),
           NEW o, NEW p, NEW i \in {0} \cup DOMAIN wire, Pair(o, p, i)
    PROVE  Pair(o, p, i)'
<1>0. /\ n > i /\ n \in DOMAIN wire' /\ o \in Targets /\ p \in Targets
      /\ o # NoTarget /\ p # NoTarget
      /\ shown \in [Keys -> Ids] /\ next \in [Keys -> Ids] /\ dying \in [Keys -> Ids]
  BY Numbers DEF News, DeviceTypes, Pair
<1>1. CASE \E j \in DOMAIN wire :
             j > i /\ wire[j].type = "destroyed" /\ wire[j].id = o /\ AliveAfter(p, j)
  <2>1. PICK j \in DOMAIN wire :
             j > i /\ wire[j].type = "destroyed" /\ wire[j].id = o /\ AliveAfter(p, j)
    BY <1>1
  <2>2. AliveAfter(p, j)' /\ j \in DOMAIN wire' /\ wire'[j] = wire[j]
    BY <1>0, <2>1, AliveDevice DEF News
  <2> QED
    BY <2>1, <2>2 DEF Pair
<1>2. CASE \E l \in Keys : dying[l] = o /\ shown[l] = p
  <2>1. PICK l \in Keys : dying[l] = o /\ shown[l] = p
    BY <1>2
  <2>2. next[l] = NoTarget
    BY <1>0, <2>1 DEF Navigating
  <2>3. CASE k # l
    <3>1. dying'[l] = dying[l] /\ shown'[l] = shown[l]
      BY <1>0, <2>3 DEF Reported, Makes, TakesOver, Ends
    <3> QED
      BY <2>1, <3>1 DEF Pair
  <2>4. CASE k = l
    <3>1. ~TakesOver(k)
      BY <2>2, <2>4 DEF TakesOver
    <3>2. CASE Makes(k)
      BY <1>0, <2>1, <2>4, <3>2 DEF Makes, Pair
    <3>3. ASSUME NEW u \in Targets, Ends(k, u), wire'[n].type = "destroyed", wire'[n].id = u
          PROVE  Pair(o, p, i)'
      <4>1. u = o /\ shown' = shown
        BY <1>0, <2>1, <2>2, <2>4, <3>3 DEF Ends
      <4>2. AliveAfter(p, n)'
        BY <2>1, <4>1 DEF AliveAfter, Living
      <4> QED
        BY <1>0, <3>3, <4>1, <4>2 DEF Pair
    <3> QED
      BY <3>1, <3>2, <3>3 DEF Reported
  <2> QED
    BY <2>3, <2>4
<1> QED
  BY <1>1, <1>2 DEF Pair

LEMMA MappedDevice ==
    ASSUME MapInv, NEW k \in Keys, Device(k)
    PROVE  Navigating' /\ Bounded' /\ Mapped'
<1>0. DeviceTypes /\ MapTypes /\ Navigating /\ Bounded /\ Mapped
  BY DEF MapInv, Base
<1>1. /\ Makes(k) \/ TakesOver(k) \/ \E t \in Targets : Ends(k, t)
      /\ UNCHANGED <<known, targets, provisional>>
  BY <1>0, DeviceMoves DEF mapVars
<1>2. PICK n : News(n) /\ wire'[n].app = App(k) /\ Reported(k, n)
  BY <1>0, <1>1, Reports
<1>3. /\ shown \in [Keys -> Ids] /\ next \in [Keys -> Ids] /\ dying \in [Keys -> Ids]
      /\ targets \in [Keys -> Ids] /\ provisional \in [Apps -> [old : Ids, new : Ids]]
      /\ born \in Nat /\ Ids \subseteq Nat /\ NoTarget = 0 /\ Targets = Ids \ {0}
  BY <1>0, Numbers DEF DeviceTypes, MapTypes
<1>4. /\ \A i \in DOMAIN wire : wire[i].id \in Nat /\ wire[i].old \in Nat
      /\ \A l \in Keys : /\ shown[l] \in Nat /\ next[l] \in Nat /\ dying[l] \in Nat
                         /\ targets[l] \in Nat
      /\ \A a \in Apps : provisional[a].old \in Nat /\ provisional[a].new \in Nat
  <2>1. \A i \in DOMAIN wire : wire[i].id \in Targets /\ wire[i].old \in Ids
    BY <1>0, Wired DEF EventSet
  <2>2. \A l \in Keys : /\ shown[l] \in Ids /\ next[l] \in Ids /\ dying[l] \in Ids
                        /\ targets[l] \in Ids
    BY <1>3
  <2>3. \A a \in Apps : provisional[a].old \in Ids /\ provisional[a].new \in Ids
    BY <1>3
  <2> QED
    BY <1>3, <2>1, <2>2, <2>3
<1>5. Navigating'
  <2>1. shown[k] <= born
    BY <1>0 DEF Bounded
  <2>2. CASE Makes(k)
    BY <1>0, <1>3, <2>1, <2>2 DEF Makes, Navigating
  <2>3. CASE TakesOver(k)
    BY <1>0, <1>3, <2>3 DEF TakesOver, Navigating
  <2>4. ASSUME NEW t \in Targets, Ends(k, t) PROVE Navigating'
    BY <1>0, <1>3, <2>4 DEF Ends, Navigating
  <2> QED
    BY <1>1, <2>2, <2>3, <2>4
<1>6. Bounded'
  <2>1. CASE Makes(k)
    <3>1. /\ born' = born + 1 /\ born + 1 \in Nat
          /\ \A x \in Nat : x <= born => x <= born'
      BY <1>3, <2>1 DEF Makes
    <3>1a. \A l \in Keys : shown[l] <= born' /\ next[l] <= born' /\ dying[l] <= born'
      BY <1>0, <1>4, <3>1 DEF Bounded
    <3>2. \A l \in Keys : shown'[l] <= born' /\ next'[l] <= born' /\ dying'[l] <= born'
      BY <1>3, <2>1, <3>1, <3>1a DEF Makes
    <3>3. \A i \in DOMAIN wire : wire[i].id <= born' /\ wire[i].old <= born'
      BY <1>0, <1>4, <3>1 DEF Bounded
    <3>4. wire'[n].id <= born' /\ wire'[n].old <= born'
      <4>1. (wire'[n].id = born + 1 /\ wire'[n].old = NoTarget) \/ ~TakesOver(k)
        BY <1>2, <2>1, <1>3 DEF Reported, Makes, TakesOver, Ends
      <4> QED
        BY <1>2, <1>3, <2>1, <3>1, <4>1 DEF Reported, Makes, Ends
    <3>5. \A l \in Keys : targets'[l] <= born'
      BY <1>0, <1>1, <1>4, <3>1 DEF Bounded
    <3>6. \A a \in Apps : provisional'[a].old <= born' /\ provisional'[a].new <= born'
      BY <1>0, <1>1, <1>4, <3>1 DEF Bounded
    <3> QED
      BY <1>2, <3>2, <3>3, <3>4, <3>5, <3>6 DEF Bounded, News
  <2>2. CASE ~Makes(k)
    <3>1. /\ born' = born
          /\ \A l \in Keys : shown'[l] <= born /\ next'[l] <= born /\ dying'[l] <= born
      BY <1>0, <1>1, <1>3, <2>2 DEF TakesOver, Ends, Bounded
    <3>2. wire'[n].id <= born /\ wire'[n].old <= born
      BY <1>0, <1>2, <1>3, <2>2 DEF Reported, TakesOver, Ends, Bounded
    <3> QED
      BY <1>0, <1>1, <1>2, <3>1, <3>2 DEF Bounded, News
  <2> QED
    BY <2>1, <2>2
<1>7. Mapped'
  <2>1. \A t \in Targets, i \in {0} \cup DOMAIN wire : AliveAfter(t, i) => AliveAfter(t, i)'
    BY <1>0, <1>2, AliveDevice
  <2>2. \A o, p : \A i \in {0} \cup DOMAIN wire : Pair(o, p, i) => Pair(o, p, i)'
    BY <1>0, <1>2, PairDevice
  <2>3. \A l \in Keys, t \in Targets : targets'[l] = t => AliveAfter(t, 0)' /\ App(l) \in known'
    BY <1>0, <1>1, <2>1 DEF Mapped
  <2>4. \A a \in Apps, o \in Targets, p \in Ids :
           provisional'[a].old = o /\ provisional'[a].new = p => Pair(o, p, 0)' /\ a \in known'
    BY <1>0, <1>1, <2>2 DEF Mapped
  <2>5. \A i \in DOMAIN wire, t \in Targets :
           wire'[i].type = "created" /\ wire'[i].id = t => AliveAfter(t, i)'
    BY <1>0, <1>2, <2>1 DEF Mapped, News
  <2>6. \A i \in DOMAIN wire, o, p \in Ids :
           wire'[i].type = "committed" /\ wire'[i].old = o /\ wire'[i].id = p => Pair(o, p, i)'
    BY <1>0, <1>2, <2>2 DEF Mapped, News
  <2>7. \A t \in Targets : wire'[n].type = "created" /\ wire'[n].id = t => AliveAfter(t, n)'
    <3> SUFFICES ASSUME NEW t \in Targets, wire'[n].type = "created", wire'[n].id = t
                 PROVE  Living(t)'
      BY DEF AliveAfter
    <3>1. Makes(k) /\ t = born + 1
      BY <1>2 DEF Reported
    <3>2. t \in {shown'[k], next'[k], dying'[k]}
      BY <1>3, <3>1 DEF Makes
    <3> QED
      BY <3>2 DEF Living
  <2>8. \A o, p \in Ids :
           wire'[n].type = "committed" /\ wire'[n].old = o /\ wire'[n].id = p => Pair(o, p, n)'
    <3> SUFFICES ASSUME NEW o \in Ids, NEW p \in Ids, wire'[n].type = "committed",
                        wire'[n].old = o, wire'[n].id = p
                 PROVE  Pair(o, p, n)'
      OBVIOUS
    <3>1. TakesOver(k) /\ p = next[k] /\ o = shown[k]
      BY <1>2 DEF Reported
    <3>2. /\ dying'[k] = o /\ shown'[k] = p
          /\ o \in Targets /\ p \in Targets /\ o # p
      BY <1>0, <1>3, <3>1 DEF TakesOver, Navigating
    <3> QED
      BY <3>2 DEF Pair
  <2>9. \A i \in DOMAIN wire' : i = n \/ i \in DOMAIN wire
    BY <1>2 DEF News
  <2> QED
    BY <2>3, <2>4, <2>5, <2>6, <2>7, <2>8, <2>9 DEF Mapped
<1> QED
  BY <1>5, <1>6, <1>7

LEMMA OwnedDevice ==
    ASSUME MapInv, NEW k \in Keys, Device(k)
    PROVE  (\E owner \in Owners : Owned(owner))'
<1>0. DeviceTypes /\ MapTypes /\ Navigating /\ Bounded
  BY DEF MapInv, Base
<1>1. /\ Makes(k) \/ TakesOver(k) \/ \E t \in Targets : Ends(k, t)
      /\ UNCHANGED <<targets, provisional>>
  BY <1>0, DeviceMoves DEF mapVars
<1>2. PICK n : News(n) /\ wire'[n].app = App(k) /\ Reported(k, n)
  BY <1>0, <1>1, Reports
<1>3. PICK owner \in Owners : Owned(owner)
  BY DEF MapInv
<1>4. /\ shown \in [Keys -> Ids] /\ next \in [Keys -> Ids] /\ dying \in [Keys -> Ids]
      /\ targets \in [Keys -> Ids] /\ provisional \in [Apps -> [old : Ids, new : Ids]]
      /\ born \in Nat /\ NoTarget = 0 /\ Targets = Ids \ {NoTarget} /\ App(k) \in Apps
      /\ Ids \subseteq Nat
  BY <1>0, Numbers, KeyParts DEF DeviceTypes, MapTypes
<1>5. \A i \in DOMAIN wire : wire[i] \in EventSet /\ wire[i].id \in Targets /\ wire[i].old \in Ids
  BY <1>0, Wired DEF EventSet
<1>6. CASE Makes(k)
  <2>1. /\ born + 1 \in Targets /\ wire'[n].type = "created" /\ wire'[n].id = born + 1
    <3>1. born + 1 \in Targets /\ born' # born
      BY <1>4, <1>6 DEF Makes
    <3>2. ~TakesOver(k) /\ \A t \in Targets : ~Ends(k, t)
      BY <3>1 DEF TakesOver, Ends
    <3> QED
      BY <1>2, <3>1, <3>2 DEF Reported
  <2>2. PICK owner2 \in Owners : /\ owner2[born + 1] = App(k)
                                 /\ \A t \in Targets : t # born + 1 => owner2[t] = owner[t]
    <3>1. [owner EXCEPT ![born + 1] = App(k)] \in Owners
      BY <1>4 DEF Owners
    <3> QED
      BY <2>1, <3>1 DEF Owners
  <2>3. \A t \in Targets : t <= born => owner2[t] = owner[t]
    BY <1>4, <2>2
  <2>4. ASSUME NEW l \in Keys, NEW t \in Targets,
               t \in {targets'[l], shown'[l], next'[l], dying'[l]}
        PROVE  owner2[t] = App(l)
    <3>1. t \in {targets[l], shown[l], next[l], dying[l]} \/ (t = born + 1 /\ l = k)
      BY <1>1, <1>4, <1>6, <2>4 DEF Makes
    <3>2. t \in {targets[l], shown[l], next[l], dying[l]} => t <= born /\ owner[t] = App(l)
      BY <1>0, <1>3 DEF Bounded, Owned
    <3> QED
      BY <2>2, <2>3, <3>1, <3>2
  <2>5. ASSUME NEW i \in DOMAIN wire'
        PROVE  /\ owner2[wire'[i].id] = wire'[i].app
               /\ wire'[i].type = "committed" => owner2[wire'[i].old] = wire'[i].app
    <3>1. CASE i = n
      BY <1>2, <2>1, <2>2, <3>1
    <3>2. CASE i # n
      <4>1. i \in DOMAIN wire /\ wire'[i] = wire[i] /\ wire[i].id \in Targets
        BY <1>2, <1>5, <3>2 DEF News
      <4>2. /\ wire[i].id <= born /\ wire[i].old <= born /\ owner[wire[i].id] = wire[i].app
            /\ wire[i].type = "committed" => owner[wire[i].old] = wire[i].app
        BY <1>0, <1>3, <4>1 DEF Bounded, Owned
      <4>3. wire[i].type = "committed" => wire[i].old \in Targets
        BY <1>5, <4>1 DEF MapInv, Mapped, Pair, Ids
      <4> QED
        BY <2>3, <4>1, <4>2, <4>3
    <3> QED
      BY <3>1, <3>2
  <2>6. ASSUME NEW a \in Apps, provisional'[a].old # NoTarget
        PROVE  owner2[provisional'[a].old] = a /\ owner2[provisional'[a].new] = a
    <3> DEFINE o == provisional[a].old
    <3> DEFINE p == provisional[a].new
    <3>1. o \in Targets /\ p \in Ids /\ provisional' = provisional
      BY <1>1, <1>4, <2>6
    <3>2. p \in Targets
      BY <3>1 DEF MapInv, Mapped, Pair
    <3>3. o <= born /\ p <= born /\ owner[o] = a /\ owner[p] = a
      BY <1>0, <1>1, <1>3, <2>6 DEF Bounded, Owned
    <3> QED
      BY <2>3, <3>1, <3>2, <3>3
  <2>7. Owned(owner2)'
    BY <2>4, <2>5, <2>6 DEF Owned
  <2> QED
    BY <2>2, <2>7 DEF Owners
<1>7. CASE ~Makes(k)
  <2>1. wire'[n].id \in {shown[k], next[k], dying[k]} /\ wire'[n].id \in Targets
    BY <1>2, <1>4, <1>7 DEF Reported, TakesOver, Ends
  <2>2. wire'[n].type = "committed" => wire'[n].old = shown[k] /\ shown[k] \in Targets
    BY <1>0, <1>2, <1>4, <1>7 DEF Reported, TakesOver, Navigating
  <2>3. \A l \in Keys, t \in Targets :
           t \in {shown'[l], next'[l], dying'[l]} => t \in {shown[l], next[l], dying[l]}
    <3>1. CASE TakesOver(k)
      BY <1>4, <3>1 DEF TakesOver
    <3>2. ASSUME NEW u \in Targets, Ends(k, u)
          PROVE  \A l \in Keys, t \in Targets :
                    t \in {shown'[l], next'[l], dying'[l]} => t \in {shown[l], next[l], dying[l]}
      BY <1>4, <3>2 DEF Ends
    <3> QED
      BY <1>1, <1>7, <3>1, <3>2
  <2>4. \A l \in Keys : \A t \in Targets :
           t \in {targets'[l], shown'[l], next'[l], dying'[l]} => owner[t] = App(l)
    BY <1>1, <1>3, <2>3 DEF Owned
  <2>5. \A i \in DOMAIN wire' :
           /\ owner[wire'[i].id] = wire'[i].app
           /\ wire'[i].type = "committed" => owner[wire'[i].old] = wire'[i].app
    <3>1. owner[wire'[n].id] = wire'[n].app
      BY <1>2, <1>3, <2>1 DEF Owned
    <3>2. wire'[n].type = "committed" => owner[wire'[n].old] = wire'[n].app
      BY <1>2, <1>3, <2>2 DEF Owned
    <3>3. \A i \in DOMAIN wire : /\ owner[wire[i].id] = wire[i].app
                                 /\ wire[i].type = "committed" => owner[wire[i].old] = wire[i].app
      BY <1>3 DEF Owned
    <3> QED
      BY <1>2, <3>1, <3>2, <3>3 DEF News
  <2>6. Owned(owner)'
    BY <1>1, <1>3, <2>4, <2>5 DEF Owned
  <2> QED
    BY <1>3, <2>6 DEF Owners
<1> QED
  BY <1>6, <1>7

\* An event h is handled: the maps keep what they had, forget it, or take what h
\* announces or what replaces its target.
LEMMA MapHandled ==
    ASSUME MapInv, wire # << >>, wire' = Tail(wire), UNCHANGED <<shown, next, dying, born>>,
           known \subseteq known',
           NEW h \in EventSet, h = Head(wire),
           \A k \in Keys :
              \/ /\ targets'[k] = targets[k]
                 /\ ~(/\ h.type = "destroyed" /\ targets[k] = h.id
                      /\ App(k) = h.app /\ App(k) \in known)
              \/ targets'[k] = NoTarget
              \/ /\ h.type = "created" /\ targets'[k] = h.id
                 /\ App(k) = h.app /\ App(k) \in known'
              \/ /\ h.type = "destroyed" /\ provisional[App(k)].old = h.id
                 /\ targets'[k] = provisional[App(k)].new,
           \A a \in Apps :
              \/ /\ provisional'[a] = provisional[a]
                 /\ ~(/\ h.type = "destroyed" /\ provisional[a].old = h.id
                      /\ a = h.app /\ a \in known)
              \/ provisional'[a].old = NoTarget /\ provisional'[a].new = NoTarget
              \/ /\ h.type = "committed" /\ a = h.app /\ a \in known
                 /\ provisional'[a].old = h.old /\ provisional'[a].new = h.id
    PROVE  Navigating' /\ Bounded' /\ Mapped' /\ (\E owner \in Owners : Owned(owner))'
<1>0. DeviceTypes /\ MapTypes /\ Navigating /\ Bounded /\ Mapped
  BY DEF MapInv, Base
<1>1. PICK owner \in Owners : Owned(owner)
  BY DEF MapInv
<1>2. /\ h = wire[1] /\ 1 \in DOMAIN wire
      /\ \A i \in DOMAIN wire' : i \in Nat /\ i + 1 \in DOMAIN wire /\ wire'[i] = wire[i + 1]
  BY <1>0, Handled
<1>3. /\ h.id \in Targets /\ h.old \in Ids /\ h.app \in Apps /\ Targets \subseteq Ids
      /\ NoTarget \notin Targets /\ Ids = Targets \cup {NoTarget} /\ 0 <= born
      /\ NoTarget = 0 /\ \A k \in Keys : App(k) \in Apps
      /\ targets \in [Keys -> Ids] /\ provisional \in [Apps -> [old : Ids, new : Ids]]
  BY <1>0, Numbers, KeyParts DEF EventSet, Ids, DeviceTypes, MapTypes
<1>4. \A a \in Apps : provisional[a].old \in Targets =>
         /\ Pair(provisional[a].old, provisional[a].new, 0) /\ a \in known
         /\ provisional[a].new \in Targets
         /\ owner[provisional[a].old] = a /\ owner[provisional[a].new] = a
  <2>1. \A a \in Apps : provisional[a].new \in Ids
    BY <1>3
  <2>2. \A a \in Apps : provisional[a].old \in Targets =>
           Pair(provisional[a].old, provisional[a].new, 0) /\ a \in known
    BY <1>0, <2>1 DEF Mapped
  <2> QED
    BY <1>1, <1>3, <2>2 DEF Owned, Pair
<1>5. h.type = "committed" => Pair(h.old, h.id, 1)
  BY <1>0, <1>2, <1>3 DEF Mapped
<1>6. /\ owner[h.id] = h.app
      /\ h.type = "committed" => h.old \in Targets /\ owner[h.old] = h.app
  BY <1>1, <1>2, <1>5 DEF Owned, Pair
<1>7. Navigating'
  BY <1>0 DEF Navigating
<1>8. Bounded'
  <2>1. h.id <= born /\ h.old <= born
    BY <1>0, <1>2 DEF Bounded
  <2>2. \A k \in Keys : targets'[k] <= born
    BY <1>0, <1>3, <2>1 DEF Bounded
  <2>3. \A a \in Apps : provisional'[a].old <= born /\ provisional'[a].new <= born
    BY <1>0, <1>3, <2>1 DEF Bounded
  <2>4. \A i \in DOMAIN wire' : wire'[i].id <= born /\ wire'[i].old <= born
    BY <1>0, <1>2 DEF Bounded
  <2> QED
    BY <1>0, <2>2, <2>3, <2>4 DEF Bounded
<1>9. Mapped'
  <2>1. ASSUME NEW k \in Keys, NEW t \in Targets, targets'[k] = t
        PROVE  AliveAfter(t, 0)' /\ App(k) \in known'
    <3>1. CASE /\ targets[k] = t
               /\ ~(/\ h.type = "destroyed" /\ targets[k] = h.id
                    /\ App(k) = h.app /\ App(k) \in known)
      <4>1. AliveAfter(t, 0) /\ App(k) \in known /\ owner[t] = App(k)
        BY <1>0, <1>1, <3>1 DEF Mapped, Owned
      <4>2. ~(h.type = "destroyed" /\ h.id = t)
        BY <1>6, <3>1, <4>1
      <4> QED
        BY <1>0, <4>1, <4>2, AliveHandled
    <3>2. CASE h.type = "created" /\ t = h.id /\ App(k) \in known'
      <4>1. AliveAfter(t, 1)
        BY <1>0, <1>2, <3>2 DEF Mapped
      <4> QED
        BY <1>0, <3>2, <4>1, AliveHandled
    <3>3. CASE /\ h.type = "destroyed" /\ provisional[App(k)].old = h.id
               /\ t = provisional[App(k)].new
      <4>1. Pair(h.id, t, 0) /\ App(k) \in known
        BY <1>3, <1>4, <3>3
      <4>2. AliveAfter(t, 1)
        <5>1. CASE \E l \in Keys : dying[l] = h.id /\ shown[l] = t
          BY <5>1 DEF AliveAfter, Living
        <5>2. ASSUME NEW j \in DOMAIN wire, j > 0, AliveAfter(t, j) PROVE AliveAfter(t, 1)
          <6>1. j \in Nat /\ \A i \in DOMAIN wire : i \in Nat
            BY <1>0, Wired
          <6>2. \A i \in DOMAIN wire : i > j => i > 1
            BY <5>2, <6>1
          <6> QED
            BY <5>2, <6>2 DEF AliveAfter
        <5> QED
          BY <4>1, <5>1, <5>2 DEF Pair
      <4> QED
        BY <1>0, <4>1, <4>2, AliveHandled
    <3>4. targets'[k] # NoTarget
      BY <1>3, <2>1
    <3> QED
      BY <2>1, <3>1, <3>2, <3>3, <3>4
  <2>2. ASSUME NEW i \in DOMAIN wire', NEW t \in Targets,
               wire'[i].type = "created", wire'[i].id = t
        PROVE  AliveAfter(t, i)'
    <3>1. /\ i \in Nat /\ i + 1 \in DOMAIN wire /\ i + 1 > 0 /\ (i + 1) - 1 = i
          /\ wire[i + 1].type = "created" /\ wire[i + 1].id = t
      BY <1>2, <2>2
    <3>2. AliveAfter(t, i + 1)
      BY <1>0, <3>1 DEF Mapped
    <3>3. AliveAfter(t, (i + 1) - 1)'
      BY <1>0, <3>1, <3>2, AliveHandled
    <3> QED
      BY <3>1, <3>3
  <2>3. ASSUME NEW i \in DOMAIN wire', NEW o \in Ids, NEW n \in Ids,
               wire'[i].type = "committed", wire'[i].old = o, wire'[i].id = n
        PROVE  Pair(o, n, i)'
    <3>1. /\ i \in Nat /\ i + 1 \in DOMAIN wire /\ i + 1 > 0 /\ (i + 1) - 1 = i
          /\ wire[i + 1].type = "committed" /\ wire[i + 1].old = o /\ wire[i + 1].id = n
      BY <1>2, <2>3
    <3>2. Pair(o, n, i + 1)
      BY <1>0, <3>1 DEF Mapped
    <3>3. Pair(o, n, (i + 1) - 1)'
      BY <1>0, <3>1, <3>2, PairHandled
    <3> QED
      BY <3>1, <3>3
  <2>4. ASSUME NEW a \in Apps, NEW o \in Targets, NEW n \in Ids,
               provisional'[a].old = o, provisional'[a].new = n
        PROVE  Pair(o, n, 0)' /\ a \in known'
    <3>1. CASE /\ provisional[a].old = o /\ provisional[a].new = n
               /\ ~(/\ h.type = "destroyed" /\ provisional[a].old = h.id
                    /\ a = h.app /\ a \in known)
      <4>1. Pair(o, n, 0) /\ a \in known /\ owner[o] = a
        BY <1>4, <3>1
      <4>2. ~(h.type = "destroyed" /\ h.id = o)
        BY <1>6, <3>1, <4>1
      <4> QED
        BY <1>0, <4>1, <4>2, PairHandled
    <3>2. CASE /\ h.type = "committed" /\ a \in known /\ o = h.old /\ n = h.id
      BY <1>0, <1>5, <3>2, PairHandled
    <3>3. o # NoTarget
      BY <1>3
    <3> QED
      BY <2>4, <3>1, <3>2, <3>3
  <2> QED
    BY <2>1, <2>2, <2>3, <2>4 DEF Mapped
<1>10. Owned(owner)'
  <2>1. ASSUME NEW k \in Keys, NEW t \in Targets, t \in {targets'[k], shown'[k], next'[k], dying'[k]}
        PROVE  owner[t] = App(k)
    <3>1. CASE t \in {targets[k], shown[k], next[k], dying[k]}
      BY <1>1, <3>1 DEF Owned
    <3>2. CASE t = h.id /\ App(k) = h.app
      BY <1>6, <3>2
    <3>3. CASE provisional[App(k)].old = h.id /\ t = provisional[App(k)].new
      BY <1>3, <1>4, <3>3
    <3> QED
      BY <1>3, <2>1, <3>1, <3>2, <3>3
  <2>2. \A i \in DOMAIN wire' :
           /\ owner[wire'[i].id] = wire'[i].app
           /\ wire'[i].type = "committed" => owner[wire'[i].old] = wire'[i].app
    BY <1>1, <1>2 DEF Owned
  <2>3. \A a \in Apps : provisional'[a].old # NoTarget =>
           owner[provisional'[a].old] = a /\ owner[provisional'[a].new] = a
    BY <1>1, <1>6 DEF Owned
  <2> QED
    BY <2>1, <2>2, <2>3 DEF Owned
<1> QED
  BY <1>1, <1>7, <1>8, <1>9, <1>10 DEF Owners

LEMMA MapInit == Init => MapInv
<1> SUFFICES ASSUME Init PROVE MapInv
  OBVIOUS
<1>1. Base
  BY BaseInit
<1>2. DOMAIN wire = {} /\ NoTarget = 0 /\ 0 <= born /\ NoTarget \notin Targets
  BY EmptySeq, Numbers DEF Init
<1>3. /\ \A k \in Keys : /\ shown[k] = NoTarget /\ next[k] = NoTarget /\ dying[k] = NoTarget
                         /\ targets[k] = NoTarget
      /\ \A a \in Apps : provisional[a].old = NoTarget /\ provisional[a].new = NoTarget
  BY DEF Init, NoProvisional
<1>4. Navigating /\ Bounded /\ Mapped
  BY <1>2, <1>3 DEF Navigating, Bounded, Mapped
<1>5. \E owner \in Owners : Owned(owner)
  <2>1. [t \in Targets |-> NoTarget] \in Owners
    BY DEF Owners
  <2>2. Owned([t \in Targets |-> NoTarget])
    BY <1>2, <1>3 DEF Owned
  <2> QED
    BY <2>1, <2>2
<1> QED
  BY <1>1, <1>4, <1>5 DEF MapInv

LEMMA MapStep == MapInv /\ [Next]_vars => MapInv'
<1> SUFFICES ASSUME MapInv, [Next]_vars
             PROVE  Navigating' /\ Bounded' /\ Mapped' /\ (\E owner \in Owners : Owned(owner))'
  BY BaseStep DEF MapInv
<1>0. Base /\ DeviceTypes /\ Navigating /\ Bounded /\ Mapped
  BY DEF MapInv, Base
<1>1. CASE TargetCreated
  <2>1. /\ wire # << >> /\ wire' = Tail(wire) /\ Head(wire).type = "created"
        /\ UNCHANGED <<provisional, deviceVars>> /\ known \subseteq known'
        /\ \A k \in Keys : \/ targets'[k] = targets[k]
                           \/ /\ targets'[k] = Head(wire).id
                              /\ App(k) = Head(wire).app /\ App(k) \in known'
    BY <1>0, <1>1, Created
  <2>2. Head(wire) \in EventSet
    BY <1>0, <2>1, Handled
  <2> QED
    BY <2>1, <2>2, MapHandled DEF deviceVars
<1>2. CASE TargetCommitted
  <2>1. /\ wire # << >> /\ wire' = Tail(wire) /\ Head(wire).type = "committed"
        /\ UNCHANGED <<known, targets, deviceVars>>
        /\ \A a \in Apps :
             \/ provisional'[a] = provisional[a]
             \/ /\ a = Head(wire).app /\ a \in known
                /\ provisional'[a].old = Head(wire).old /\ provisional'[a].new = Head(wire).id
    BY <1>0, <1>2, Committed
  <2>2. Head(wire) \in EventSet
    BY <1>0, <2>1, Handled
  <2> QED
    BY <2>1, <2>2, MapHandled DEF deviceVars
<1>3. CASE TargetDestroyed
  <2>1. /\ wire # << >> /\ wire' = Tail(wire) /\ Head(wire).type = "destroyed"
        /\ UNCHANGED <<known, deviceVars>>
    BY <1>0, <1>3, Destroyed
  <2>2. \A k \in Keys :
          \/ /\ targets'[k] = targets[k]
             /\ ~(targets[k] = Head(wire).id /\ App(k) = Head(wire).app /\ App(k) \in known)
          \/ targets'[k] = NoTarget
          \/ /\ provisional[App(k)].old = Head(wire).id
             /\ targets'[k] = provisional[App(k)].new
    BY <1>0, <1>3, Destroyed
  <2>3. \A a \in Apps :
          \/ /\ provisional'[a] = provisional[a]
             /\ ~(provisional[a].old = Head(wire).id /\ a = Head(wire).app /\ a \in known)
          \/ provisional'[a].old = NoTarget /\ provisional'[a].new = NoTarget
    BY <1>0, <1>3, Destroyed DEF NoProvisional
  <2>4. Head(wire) \in EventSet
    BY <1>0, <2>1, Handled
  <2> QED
    BY <2>1, <2>2, <2>3, <2>4, MapHandled DEF deviceVars
<1>4. CASE UNCHANGED <<known, targets, provisional, shown, next, dying, born, wire>>
  <2>1. \A t, i : AliveAfter(t, i) => AliveAfter(t, i)'
    BY <1>4 DEF AliveAfter, Living
  <2>2. \A o, n, i : Pair(o, n, i) => Pair(o, n, i)'
    BY <1>4, <2>1 DEF Pair
  <2>3. Mapped'
    BY <1>0, <1>4, <2>1, <2>2 DEF Mapped
  <2>4. \A owner : Owned(owner) => Owned(owner)'
    BY <1>4 DEF Owned
  <2>5. Navigating' /\ Bounded'
    BY <1>0, <1>4 DEF Navigating, Bounded
  <2> QED
    BY <2>3, <2>4, <2>5 DEF MapInv, Owners
<1>5. ASSUME NEW s \in Selects, Select(s) \/ \E k \in Keys : SelectPage(s, k)
      PROVE  UNCHANGED <<known, targets, provisional, shown, next, dying, born, wire>>
  BY <1>5 DEF Select, SelectPage, BeginSelect, SetupDone, SetupFails, SelectTimeout,
              deviceVars, mapVars
<1>6. ASSUME NEW t \in Targets, Job(t) \/ OccupationExpires(t)
      PROVE  UNCHANGED <<known, targets, provisional, shown, next, dying, born, wire>>
  BY <1>0, <1>6, JobSteps DEF Base, mapVars
<1>7. ASSUME NEW k \in Keys, Device(k)
      PROVE  Navigating' /\ Bounded' /\ Mapped' /\ (\E owner \in Owners : Owned(owner))'
  BY <1>7, MappedDevice, OwnedDevice
<1>8. CASE UNCHANGED vars
  BY <1>4, <1>8 DEF vars, mapVars, deviceVars
<1> QED
  BY <1>1, <1>2, <1>3, <1>4, <1>5, <1>6, <1>7, <1>8 DEF Next, Handle

\* The map never keeps a target that is gone, however many events are on their way
\* and however navigations of several pages of an application overlap.
THEOREM NoDeadTargetSafe == Spec => []NoDeadTarget
<1>1. MapInv => NoDeadTarget
  <2> SUFFICES ASSUME MapInv, NEW k \in Keys, targets[k] # NoTarget
               PROVE  \/ targets[k] \in Live
                      \/ \E i \in DOMAIN wire : wire[i].type = "destroyed" /\ wire[i].id = targets[k]
    BY DEF NoDeadTarget
  <2>1. targets[k] \in Targets
    BY Numbers DEF MapInv, Base, MapTypes
  <2>2. AliveAfter(targets[k], 0)
    BY <2>1 DEF MapInv, Mapped
  <2>3. Living(targets[k]) => targets[k] \in Live
    BY DEF Living, Live
  <2> QED
    BY <2>2, <2>3 DEF AliveAfter
<1> QED
  BY <1>1, MapInit, MapStep, PTL DEF Spec
=============================================================================
