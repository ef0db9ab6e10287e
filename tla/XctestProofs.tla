---------------------------- MODULE XctestProofs ----------------------------
(***************************************************************************)
(* Proofs about XctestRun, for any number of callbacks.                    *)
(***************************************************************************)
EXTENDS XctestRun, SequenceTheorems, TLAPS

\* The kinds of callbacks.
LEMMA CallbackNames ==
    {"ready", "note", "asking", "other", "passed", "failed", "finished"} \subseteq Callbacks
  BY DEF Callbacks

\* The listener's promise and state after a round of its loop or its end.
LEMMA RoundTypes ==
    ASSUME TypeOK, Ended \/ (Loop /\ listener \in Listening)
    PROVE  /\ listener' \in {"reading", "ended"}
           /\ callbackListenerPromise' = (listener' = "reading")
  BY DEF TypeOK, Ended, Loop, Listening

\* What resolving and failing leave behind.
LEMMA DeferredTypes ==
    ASSUME TypeOK
    PROVE  /\ resolveConfig => configReplied' \in BOOLEAN
           /\ \A s \in Verdicts : resolveFinished(s) => finishedAs' \in Verdicts
           /\ PlanStatus \in Verdicts
           /\ ListenerFails => /\ lastListenerError' \in BOOLEAN /\ configReplied' \in BOOLEAN
                               /\ configReplyDeferred' \in BOOLEAN /\ finishedAs' \in Verdicts
  BY DEF TypeOK, Verdicts, resolveConfig, resolveFinished, PlanStatus, ListenerFails

\* What Stop() leaves behind.
LEMMA StopTypes ==
    ASSUME TypeOK, NEW c \in Closers, Stop(c)
    PROVE  /\ closer' \in [Closers -> {"new", "killing", "stopping", "closing", "finishing", "done"}]
           /\ aborted' \in BOOLEAN /\ configReplyDeferred' \in BOOLEAN
           /\ configReplied' \in BOOLEAN /\ finishedDeferred' \in BOOLEAN
           /\ finishedAs' \in Verdicts
  BY DeferredTypes DEF TypeOK, Stop, stop, deferredVars, abortListener, resolveConfig,
     resolveFinished, Verdicts

\* Every variable keeps its type, and the promise of the listener is set
\* exactly while the listener is about.
THEOREM TypeCorrect == Spec => []TypeOK
<1>1. Init => TypeOK
  <2> SUFFICES ASSUME Init PROVE TypeOK
    OBVIOUS
  <2>1. /\ xcuitest \in BOOLEAN /\ services \in BOOLEAN /\ launchedPid \in BOOLEAN
        /\ userClosed \in BOOLEAN /\ aborted \in BOOLEAN /\ lastListenerError \in BOOLEAN
        /\ configReplyDeferred \in BOOLEAN /\ configReplied \in BOOLEAN
        /\ finishedDeferred \in BOOLEAN /\ early \in BOOLEAN
    BY DEF Init
  <2>2. callbackListenerPromise = (listener \in Listening)
    <3>1. callbackListenerPromise = FALSE
      BY DEF Init
    <3>2. (listener \in Listening) = FALSE
      BY DEF Init, Listening
    <3> QED
      BY <3>1, <3>2
  <2>3. /\ closer \in [Closers -> {"new", "killing", "stopping", "closing", "finishing", "done"}]
        /\ wire \in Seq(Callbacks) /\ notes \in 0 .. MaxNotes
    BY BoundsAssumption DEF Init
  <2> QED
    BY <2>1, <2>2, <2>3 DEF Init, TypeOK, Verdicts, Reasons
<1>2. TypeOK /\ [Next]_vars => TypeOK'
  <2> SUFFICES ASSUME TypeOK, [Next]_vars PROVE TypeOK'
    OBVIOUS
  <2> USE DEF runVars, fieldVars, closeVars, listenerVars, deferredVars, deviceVars
  <2>1. CASE Callback
    <3>1. /\ Head(wire) \in Callbacks /\ wire' \in Seq(Callbacks)
      BY <2>1 DEF Callback, TypeOK
    <3>2. /\ listener' \in {"reading", "replying", "ended"}
          /\ callbackListenerPromise' = (listener' \in {"reading", "replying"})
          /\ handling' \in {"none", "ready", "asking", "finished"}
      BY <2>1, RoundTypes DEF Callback, TypeOK, Listening
    <3>3. finishedAs' \in Verdicts /\ lastTestSummary' \in Verdicts
      BY <2>1, DeferredTypes DEF Callback, handleCallback, TypeOK, Verdicts
    <3> QED
      BY <2>1, <3>1, <3>2, <3>3 DEF Callback, TypeOK, Listening
  <2>2. CASE OtherChannel
    BY <2>2 DEF OtherChannel, TypeOK, Listening
  <2>3. CASE Acknowledged
    BY <2>3 DEF Acknowledged, TypeOK, Listening
  <2>4. CASE Replied
    <3>1. /\ listener' \in {"reading", "ended"}
          /\ callbackListenerPromise' = (listener' = "reading")
      BY <2>4, RoundTypes DEF Replied, Listening
    <3>2. finishedAs' \in Verdicts /\ configReplied' \in BOOLEAN
      BY <2>4, DeferredTypes DEF Replied, TypeOK
    <3> QED
      BY <2>4, <3>1, <3>2 DEF Replied, TypeOK, Listening
  <2>5. CASE PollTimeout
    <3>1. callbackListenerPromise' = (listener' \in Listening)
      <4>1. callbackListenerPromise' = FALSE
        BY <2>5 DEF PollTimeout, Ended
      <4>2. (listener' \in Listening) = FALSE
        BY <2>5 DEF PollTimeout, Ended, Listening
      <4> QED
        BY <4>1, <4>2
    <3> QED
      BY <2>5, <3>1 DEF PollTimeout, Ended, TypeOK
  <2>6. CASE ConnectionLost
    <3>1. callbackListenerPromise' = (listener' \in Listening)
      <4>1. callbackListenerPromise' = FALSE
        BY <2>6 DEF ConnectionLost, Ended
      <4>2. (listener' \in Listening) = FALSE
        BY <2>6 DEF ConnectionLost, Ended, Listening
      <4> QED
        BY <4>1, <4>2
    <3>2. /\ lastListenerError' \in BOOLEAN /\ configReplied' \in BOOLEAN
          /\ configReplyDeferred' \in BOOLEAN /\ finishedAs' \in Verdicts
      BY <2>6, DeferredTypes DEF ConnectionLost
    <3> QED
      BY <2>6, <3>1, <3>2 DEF ConnectionLost, Ended, TypeOK
  <2>7. CASE Launched
    <3>1. /\ launchedPid' \in BOOLEAN /\ process' = "alive"
          /\ UNCHANGED <<xcuitest, services, closeVars, link, wire, plan, early, verdict, notes>>
      BY <2>7 DEF Launched
    <3>2. CASE startExecCallbackListener /\ run' = "authorizing" /\ UNCHANGED result
      <4>1. callbackListenerPromise' = (listener' \in Listening)
        <5>1. callbackListenerPromise' = TRUE
          BY <3>2 DEF startExecCallbackListener
        <5>2. (listener' \in Listening) = TRUE
          BY <3>2 DEF startExecCallbackListener, Listening
        <5> QED
          BY <5>1, <5>2
      <4>2. /\ listener' = "reading" /\ aborted' \in BOOLEAN /\ lastListenerError' \in BOOLEAN
            /\ lastTestSummary' \in Verdicts /\ configReplyDeferred' \in BOOLEAN
            /\ configReplied' \in BOOLEAN /\ finishedDeferred' \in BOOLEAN
            /\ finishedAs' \in Verdicts /\ handling' = handling
        BY <3>2 DEF startExecCallbackListener, Verdicts
      <4> QED
        BY <3>1, <3>2, <4>1, <4>2 DEF TypeOK, Listening
    <3>3. CASE Leave("threw") /\ UNCHANGED <<listenerVars, deferredVars>>
      BY <3>1, <3>3 DEF Leave, TypeOK
    <3> QED
      BY <2>7, <3>2, <3>3 DEF Launched
  <2>8. CASE StageFails
    BY <2>8 DEF StageFails, Leave, TypeOK
  <2>26. CASE LaunchFails
    <3>1. left' \subseteq Reasons /\ process' \in {"none", "alive", "killed"}
      BY <2>26 DEF LaunchFails, TypeOK, Reasons
    <3> QED
      BY <2>26, <3>1 DEF LaunchFails, Leave, TypeOK
  <2>27. CASE Header
    BY <2>27 DEF Header, TypeOK, Listening
  <2>9. CASE Authorized
    BY <2>9 DEF Authorized, startExecutingTestPlan, Leave, TypeOK
  <2>10. CASE Configured
    BY <2>10 DEF Configured, TypeOK
  <2>11. CASE PlanSent
    BY <2>11 DEF PlanSent, Leave, TypeOK
  <2>12. CASE PlanNotSent
    BY <2>12 DEF PlanNotSent, Leave, TypeOK
  <2>13. CASE Completed
    BY <2>13 DEF Completed, Leave, TypeOK, Verdicts
  <2>14. CASE TimedOut
    BY <2>14 DEF TimedOut, Leave, TypeOK
  <2>15. CASE DeviceReady
    BY <2>15, CallbackNames DEF DeviceReady, Sends, TypeOK
  <2>16. ASSUME NEW m \in {"note", "asking", "other"}, DeviceNote(m) PROVE TypeOK'
    BY <2>16, CallbackNames, BoundsAssumption DEF DeviceNote, Sends, TypeOK
  <2>17. ASSUME NEW v \in {"passed", "failed"}, DeviceSuite(v) PROVE TypeOK'
    BY <2>17, CallbackNames DEF DeviceSuite, Sends, TypeOK, Verdicts
  <2>18. CASE DeviceFinish
    BY <2>18, CallbackNames DEF DeviceFinish, Sends, TypeOK
  <2>19. CASE ConnectionDies
    <3>1. PICK n \in 0 .. Len(wire) : wire' = SubSeq(wire, 1, n)
      BY <2>19 DEF ConnectionDies
    <3>2. wire' \in Seq(Callbacks)
      BY <3>1, SubSeqProperties DEF TypeOK
    <3> QED
      BY <2>19, <3>2 DEF ConnectionDies, TypeOK
  <2>20. ASSUME NEW c \in Closers, Close(c) PROVE TypeOK'
    <3>1. userClosed' \in BOOLEAN /\ left' \subseteq Reasons
      BY <2>20 DEF Close, Called, TypeOK, Reasons
    <3> QED
      BY <2>20, <3>1, StopTypes DEF Close, TypeOK
  <2>21. ASSUME NEW c \in Closers, Killed(c) PROVE TypeOK'
    <3>1. launchedPid' \in BOOLEAN
      BY <2>21 DEF Killed
    <3>2. left' \subseteq Reasons /\ process' \in {"none", "alive", "killed"}
      BY <2>21 DEF Killed, TypeOK, Reasons
    <3> QED
      BY <2>21, <3>1, <3>2, StopTypes DEF Killed, TypeOK
  <2>22. ASSUME NEW c \in Closers, ListenerStopped(c) PROVE TypeOK'
    BY <2>22 DEF ListenerStopped, TypeOK
  <2>23. ASSUME NEW c \in Closers, ConnectionsClosed(c) PROVE TypeOK'
    <3>1. xcuitest' \in BOOLEAN
      BY <2>23 DEF ConnectionsClosed
    <3>2. wire' \in Seq(Callbacks)
      BY <2>23 DEF ConnectionsClosed
    <3> QED
      BY <2>23, <3>1, <3>2 DEF ConnectionsClosed, TypeOK
  <2>24. ASSUME NEW c \in Closers, CloseDone(c) PROVE TypeOK'
    <3>1. services' \in BOOLEAN
      BY <2>24 DEF CloseDone
    <3> QED
      BY <2>24, <3>1 DEF CloseDone, TypeOK
  <2>25. CASE UNCHANGED vars
    BY <2>25 DEF vars, TypeOK
  <2> QED
    BY <2>1, <2>2, <2>3, <2>4, <2>5, <2>6, <2>7, <2>8, <2>9, <2>10, <2>11, <2>12, <2>13,
       <2>14, <2>15, <2>16, <2>17, <2>18, <2>19, <2>20, <2>21, <2>22, <2>23, <2>24, <2>25,
       <2>26, <2>27
    DEF Next, Listener, Run, Device, Closing
<1> QED
  BY <1>1, <1>2, PTL DEF Spec

-----------------------------------------------------------------------------
(* What a run leaves behind.                                               *)

Past == {"stopping", "closing", "finishing", "done"}
\* A close() that is past the kill leaves no process behind, but for a reason: the
\* pid was known, or the process was launched behind its back.
Killing ==
    /\ process = "alive" => launchedPid \/ left # {}
    /\ \A c \in Closers : closer[c] \in Past => process # "alive" \/ left # {}
    /\ ~services => \E c \in Closers : closer[c] = "done"
    /\ run = "launching" /\ closer["user"] # "new" => left # {}

\* The connection is closed before the service is let go of.
Unlinking ==
    /\ ~xcuitest => link = "closed"
    /\ \A c \in Closers : closer[c] \in {"finishing", "done"} => link = "closed"

\* Until the user calls close(), that of run() comes after all else run() does,
\* and waits for the listener.
Tidy ==
    /\ Killing /\ Unlinking
    /\ closer["run"] # "new" => run \in {"closing", "over"}
    /\ run = "over" => closer["run"] = "done"
    /\ ~userClosed =>
        /\ closer["user"] = "new"
        /\ closer["run"] \in {"new", "killing", "stopping", "closing"} => xcuitest
        /\ closer["run"] \in {"closing", "finishing", "done"} => listener \in {"none", "ended"}

\* What Stop() does to the progress of close().
LEMMA StopGoes ==
    ASSUME TypeOK, NEW c \in Closers, Stop(c)
    PROVE  /\ \A d \in Closers : d # c => closer'[d] = closer[d]
           /\ closer'[c] \in Past \ {"done"}
           /\ closer'[c] = "finishing" => ~xcuitest
           /\ xcuitest /\ closer'[c] = "closing" => listener \in {"none", "ended"}
  BY DEF TypeOK, Stop, stop, Past, Listening

LEMMA TidyInvariant == Spec => []Tidy
<1>1. Init => Tidy
  BY DEF Init, Tidy, Killing, Unlinking, Closers, Past
<1>2. TypeOK /\ Tidy /\ [Next]_vars => Tidy'
  <2> SUFFICES ASSUME TypeOK, Tidy, [Next]_vars PROVE Tidy'
    OBVIOUS
  <2> USE DEF runVars, fieldVars, closeVars, listenerVars, deferredVars, deviceVars
  <2>0. "run" \in Closers /\ "user" \in Closers /\ \A c \in Closers : c = "run" \/ c = "user"
    BY DEF Closers
  <2>1. CASE Listener
    <3>1. /\ UNCHANGED <<run, fieldVars, closeVars, process, link>>
      BY <2>1 DEF Listener, Header, Callback, OtherChannel, Acknowledged, Replied, PollTimeout,
         ConnectionLost
    <3>2. listener \notin {"none", "ended"}
      BY <2>1 DEF Listener, Header, Callback, OtherChannel, Acknowledged, Replied, PollTimeout,
         ConnectionLost
    <3> QED
      BY <3>1, <3>2 DEF Tidy, Killing, Unlinking
  <2>2. CASE Launched
    <3>1. /\ run = "launching" /\ run' \notin {"launching", "over"} /\ launchedPid'
          /\ UNCHANGED <<xcuitest, services, closeVars, link>>
      BY <2>2 DEF Launched, Leave
    <3>2. closer["run"] = "new" /\ (closer["user"] # "new" => left # {})
      BY <3>1 DEF Tidy, Killing
    <3> QED
      BY <2>0, <3>1, <3>2 DEF Tidy, Killing, Unlinking, Past
  <2>3. CASE LaunchFails
    <3>1. /\ run' = "closing" /\ (process' # process => left' # {}) /\ left \subseteq left'
          /\ UNCHANGED <<fieldVars, closer, userClosed, listener, link>> /\ run = "launching"
      BY <2>3 DEF LaunchFails, Leave
    <3> QED
      BY <3>1 DEF Tidy, Killing, Unlinking
  <2>4. CASE Run /\ ~Launched /\ ~LaunchFails
    <3>1. UNCHANGED <<fieldVars, closeVars, listener, link, process>>
      BY <2>4 DEF Run, StageFails, Authorized, Configured, PlanSent, PlanNotSent, Completed,
         TimedOut
    <3>2. run \notin {"closing", "over"} /\ run' \notin {"launching", "over"}
      BY <2>4 DEF Run, StageFails, Authorized, startExecutingTestPlan, Configured, PlanSent,
         PlanNotSent, Completed, TimedOut, Leave
    <3> QED
      BY <3>1, <3>2 DEF Tidy, Killing, Unlinking
  <2>5. CASE Device
    <3>1. /\ UNCHANGED <<run, fieldVars, closeVars, listener, process>>
          /\ link = "closed" => link' = "closed"
      BY <2>5 DEF Device, DeviceReady, DeviceNote, DeviceSuite, DeviceFinish, ConnectionDies, Sends
    <3> QED
      BY <3>1 DEF Tidy, Killing, Unlinking
  <2>6. ASSUME NEW c \in Closers, Close(c) PROVE Tidy'
    <3>1. /\ closer[c] = "new" /\ (c = "run" => run = "closing")
          /\ UNCHANGED <<run, fieldVars, listener, process, link>> /\ left \subseteq left'
          /\ c = "user" => userClosed' /\ (run = "launching" => left' # {})
          /\ userClosed => userClosed'
      BY <2>6 DEF Close, Called
    <3>2. /\ \A d \in Closers : d # c => closer'[d] = closer[d]
          /\ \/ closer'[c] = "killing"
             \/ /\ ~services \/ ~launchedPid
                /\ closer'[c] \in Past \ {"done"} /\ (closer'[c] = "finishing" => ~xcuitest)
                /\ xcuitest /\ closer'[c] = "closing" => listener \in {"none", "ended"}
      BY <2>6, StopGoes DEF Close, TypeOK
    <3>3. ~services \/ ~launchedPid => process # "alive" \/ left # {}
      BY DEF Tidy, Killing, Past
    <3>4. Killing'
      BY <2>0, <3>1, <3>2, <3>3 DEF Tidy, Killing, Past
    <3>5. Unlinking'
      BY <3>1, <3>2 DEF Tidy, Unlinking, Past
    <3>6. /\ closer'["run"] # "new" => run' \in {"closing", "over"}
          /\ run' = "over" => closer'["run"] = "done"
      BY <2>0, <3>1, <3>2 DEF Tidy
    <3>7. ASSUME ~userClosed'
          PROVE  /\ closer'["user"] = "new"
                 /\ closer'["run"] \in {"new", "killing", "stopping", "closing"} => xcuitest'
                 /\ closer'["run"] \in {"closing", "finishing", "done"}
                       => listener' \in {"none", "ended"}
      <4>1. c = "run" /\ ~userClosed
        BY <2>0, <3>1, <3>7
      <4> QED
        BY <2>0, <3>1, <3>2, <4>1 DEF Tidy, Past
    <3> QED
      BY <3>4, <3>5, <3>6, <3>7 DEF Tidy
  <2>7. ASSUME NEW c \in Closers, Killed(c) PROVE Tidy'
    <3>1. /\ closer[c] = "killing" /\ (process' # "alive" \/ left' # {})
          /\ process' = "alive" => process = "alive"
          /\ UNCHANGED <<run, xcuitest, services, listener, link, userClosed>> /\ left \subseteq left'
      BY <2>7 DEF Killed
    <3>2. /\ \A d \in Closers : d # c => closer'[d] = closer[d]
          /\ closer'[c] \in Past \ {"done"} /\ (closer'[c] = "finishing" => ~xcuitest)
          /\ xcuitest /\ closer'[c] = "closing" => listener \in {"none", "ended"}
      BY <2>7, StopGoes DEF Killed
    <3>3. Killing'
      BY <2>0, <3>1, <3>2 DEF Tidy, Killing, Past
    <3>4. Unlinking'
      BY <3>1, <3>2 DEF Tidy, Unlinking, Past
    <3> QED
      BY <2>0, <3>1, <3>2, <3>3, <3>4 DEF Tidy, Past
  <2>8. ASSUME NEW c \in Closers, ListenerStopped(c) PROVE Tidy'
    <3>1. /\ closer[c] = "stopping" /\ listener = "ended" /\ closer'[c] = "closing"
          /\ \A d \in Closers : d # c => closer'[d] = closer[d]
          /\ UNCHANGED <<run, fieldVars, userClosed, left, listener, link, process>>
      BY <2>8 DEF ListenerStopped, TypeOK
    <3>2. Killing' /\ Unlinking'
      BY <2>0, <3>1 DEF Tidy, Killing, Unlinking, Past
    <3> QED
      BY <2>0, <3>1, <3>2 DEF Tidy
  <2>9. ASSUME NEW c \in Closers, ConnectionsClosed(c) PROVE Tidy'
    <3>1. /\ closer[c] = "closing" /\ closer'[c] = "finishing" /\ link' = "closed"
          /\ \A d \in Closers : d # c => closer'[d] = closer[d]
          /\ UNCHANGED <<run, services, launchedPid, userClosed, left, listener, process>>
      BY <2>9 DEF ConnectionsClosed, TypeOK
    <3>2. Killing' /\ Unlinking'
      BY <2>0, <3>1 DEF Tidy, Killing, Unlinking, Past
    <3> QED
      BY <2>0, <3>1, <3>2 DEF Tidy
  <2>10. ASSUME NEW c \in Closers, CloseDone(c) PROVE Tidy'
    <3>1. /\ closer[c] = "finishing" /\ closer'[c] = "done"
          /\ run' = IF c = "run" THEN "over" ELSE run
          /\ \A d \in Closers : d # c => closer'[d] = closer[d]
          /\ UNCHANGED <<xcuitest, launchedPid, userClosed, left, listener, link, process>>
      BY <2>10 DEF CloseDone, TypeOK
    <3>2. Killing' /\ Unlinking'
      BY <2>0, <3>1 DEF Tidy, Killing, Unlinking, Past
    <3> QED
      BY <2>0, <3>1, <3>2 DEF Tidy
  <2>11. CASE UNCHANGED vars
    BY <2>11 DEF vars, Tidy, Killing, Unlinking
  <2> QED
    BY <2>1, <2>2, <2>3, <2>4, <2>5, <2>6, <2>7, <2>8, <2>9, <2>10, <2>11 DEF Next, Closing
<1> QED
  BY <1>1, <1>2, TypeCorrect, PTL DEF Spec

\* When a run is over, whoever called close(), its connection is closed, and its
\* process was killed or never there, unless its launch was not answered, the kill
\* failed or close() was called before the launch was answered; the listener of a
\* run the user did not close has left.
THEOREM CleanedUpSafe == Spec => []CleanedUp
<1>1. Tidy => CleanedUp
  BY DEF Tidy, Killing, Unlinking, CleanedUp, Closers, Past
<1> QED
  BY <1>1, TidyInvariant, PTL

-----------------------------------------------------------------------------
(* A run that passed is one whose suites did.                              *)

Heard == lastTestSummary = "failed"
Sent(m) == \E i \in 1 .. Len(wire) : wire[i] = m

\* The callbacks on their way say what became of the plan.
WireTrue ==
    \A i \in 1 .. Len(wire) :
        /\ wire[i] \in {"passed", "failed"} => wire[i] = verdict
        /\ wire[i] = "finished" => plan = "finished"

\* The failure of a suite is read before the end of the plan is.
FailureFirst ==
    \A j \in 1 .. Len(wire) :
        wire[j] = "finished" => Heard \/ \E i \in 1 .. j - 1 : wire[i] = "failed"

\* What the listener knows is true, and it hears of a failure in time.
Told ==
    /\ lastTestSummary \in {"none", verdict}
    /\ verdict # "none" => plan \in {"running", "finished"}
    /\ process = "none" => plan = "none"
    /\ run = "launching" => process = "none" /\ listener = "none"
    /\ WireTrue
    /\ handling = "finished" => plan = "finished"
    /\ handling # "none" => listener = "replying"
    /\ verdict = "failed" =>
        /\ plan = "running" /\ link = "up" => Heard \/ Sent("failed")
        /\ handling = "finished" => Heard
        /\ FailureFirst
    /\ "passed" \in {finishedAs, result} => plan = "finished" /\ verdict # "failed"

\* The sequence a step leaves on the wire.
LEMMA WireFacts ==
    ASSUME TypeOK
    PROVE  /\ Len(wire) \in Nat
           /\ wire # << >> => /\ 1 \in 1 .. Len(wire) /\ Head(wire) = wire[1]
                              /\ Len(Tail(wire)) = Len(wire) - 1
                              /\ \A i \in 1 .. Len(wire) - 1 : Tail(wire)[i] = wire[i + 1]
           /\ \A m \in Callbacks :
                /\ Len(Append(wire, m)) = Len(wire) + 1
                /\ Append(wire, m)[Len(wire) + 1] = m
                /\ \A i \in 1 .. Len(wire) : Append(wire, m)[i] = wire[i]
           /\ \A n \in 0 .. Len(wire) :
                /\ Len(SubSeq(wire, 1, n)) = n
                /\ \A i \in 1 .. n : SubSeq(wire, 1, n)[i] = wire[i]
  BY DEF TypeOK

LEMMA ToldInvariant == Spec => []Told
<1>1. Init => Told
  <2> SUFFICES ASSUME Init PROVE Told
    OBVIOUS
  <2>1. Len(wire) = 0
    BY DEF Init
  <2>2. WireTrue
    BY <2>1 DEF WireTrue
  <2> QED
    BY <2>2 DEF Init, Told
<1>2. TypeOK /\ Told /\ [Next]_vars => Told'
  <2> SUFFICES ASSUME TypeOK, Told, [Next]_vars PROVE Told'
    OBVIOUS
  <2> USE DEF runVars, fieldVars, closeVars, listenerVars, deferredVars, deviceVars
  <2>1. CASE Callback
    <3> DEFINE m == Head(wire)
    <3>1. /\ wire # << >> /\ wire' = Tail(wire) /\ handling = "none" /\ listener = "payload"
          /\ UNCHANGED <<run, result, plan, verdict, process, link>> /\ handleCallback(m)
      BY <2>1 DEF Callback, Told
    <3>2. m = wire[1] /\ 1 \in 1 .. Len(wire)
      BY <3>1, WireFacts
    <3>3. /\ m \in {"passed", "failed"} => m = verdict
          /\ m = "finished" => plan = "finished"
          /\ m = "finished" /\ verdict = "failed" => Heard
      BY <3>2 DEF Told, WireTrue, FailureFirst
    <3>4. lastTestSummary' \in {"none", verdict'} /\ (Heard /\ verdict = "failed" => Heard')
      BY <3>1, <3>3 DEF handleCallback, Told, Heard
    <3>5. Len(wire') = Len(wire) - 1 /\ \A i \in 1 .. Len(wire) - 1 : wire'[i] = wire[i + 1]
      BY <3>1, WireFacts
    <3>6. WireTrue'
      BY <3>1, <3>5, WireFacts DEF Told, WireTrue
    <3>7. m = "failed" => Heard'
      BY <3>1 DEF handleCallback, Heard
    <3>8. verdict = "failed" => FailureFirst'
      <4> SUFFICES ASSUME verdict = "failed", NEW j \in 1 .. Len(wire'), wire'[j] = "finished"
                   PROVE  Heard' \/ \E i \in 1 .. j - 1 : wire'[i] = "failed"
        BY DEF FailureFirst
      <4>1. j + 1 \in 1 .. Len(wire) /\ wire[j + 1] = "finished"
        BY <3>5, WireFacts
      <4>2. CASE Heard
        BY <3>4, <4>2
      <4>3. CASE \E i \in 1 .. j : wire[i] = "failed"
        <5>1. PICK i \in 1 .. j : wire[i] = "failed"
          BY <4>3
        <5>2. CASE i = 1
          BY <3>2, <3>7, <5>1, <5>2
        <5>3. CASE i # 1
          <6>1. i - 1 \in 1 .. j - 1 /\ wire'[i - 1] = wire[i]
            BY <3>5, <4>1, <5>3, WireFacts
          <6> QED
            BY <5>1, <6>1
        <5> QED
          BY <5>2, <5>3
      <4> QED
        BY <4>1, <4>2, <4>3 DEF Told, FailureFirst
    <3>9. verdict = "failed" /\ Sent("failed") => Heard' \/ Sent("failed")'
      <4> SUFFICES ASSUME NEW i \in 1 .. Len(wire), wire[i] = "failed", ~Heard'
                   PROVE  Sent("failed")'
        BY DEF Sent
      <4>1. i # 1
        BY <3>2, <3>7
      <4>2. i - 1 \in 1 .. Len(wire') /\ wire'[i - 1] = "failed"
        BY <3>5, <4>1, WireFacts
      <4> QED
        BY <4>2 DEF Sent
    <3>10. handling' \in {"none", m} /\ (handling' # "none" => listener' = "replying")
      BY <2>1, <3>1 DEF Callback
    <3>11. finishedAs' = "passed" => finishedAs = "passed" \/ (m = "finished" /\ ~Heard)
      BY <2>1 DEF Callback, resolveFinished, PlanStatus, Heard
    <3> QED
      BY <3>1, <3>3, <3>4, <3>6, <3>8, <3>9, <3>10, <3>11 DEF Told
  <2>2. CASE OtherChannel
    <3>1. /\ wire # << >> /\ wire' = Tail(wire) /\ handling = "none" /\ wire[1] = "other"
          /\ listener = "payload"
          /\ UNCHANGED <<run, result, plan, verdict, process, link, handling, lastTestSummary,
                         finishedAs>>
      BY <2>2, WireFacts DEF OtherChannel, Told
    <3>2. Len(wire') = Len(wire) - 1 /\ \A i \in 1 .. Len(wire) - 1 : wire'[i] = wire[i + 1]
      BY <3>1, WireFacts
    <3>3. WireTrue'
      BY <3>1, <3>2, WireFacts DEF Told, WireTrue
    <3>4. verdict = "failed" => FailureFirst'
      <4> SUFFICES ASSUME verdict = "failed", NEW j \in 1 .. Len(wire'), wire'[j] = "finished",
                          ~Heard
                   PROVE  \E i \in 1 .. j - 1 : wire'[i] = "failed"
        BY <3>1 DEF FailureFirst, Heard
      <4>1. j + 1 \in 1 .. Len(wire) /\ wire[j + 1] = "finished"
        BY <3>2, WireFacts
      <4>2. PICK i \in 1 .. j : wire[i] = "failed"
        BY <4>1 DEF Told, FailureFirst
      <4>3. i - 1 \in 1 .. j - 1 /\ wire'[i - 1] = wire[i]
        BY <3>1, <3>2, <4>1, <4>2, WireFacts
      <4> QED
        BY <4>2, <4>3
    <3>5. Sent("failed") => Sent("failed")'
      <4> SUFFICES ASSUME NEW i \in 1 .. Len(wire), wire[i] = "failed" PROVE Sent("failed")'
        BY DEF Sent
      <4>1. i - 1 \in 1 .. Len(wire') /\ wire'[i - 1] = "failed"
        BY <3>1, <3>2, WireFacts
      <4> QED
        BY <4>1 DEF Sent
    <3> QED
      BY <3>1, <3>3, <3>4, <3>5 DEF Told, Heard
  <2>3. CASE Acknowledged \/ Header
    BY <2>3 DEF Acknowledged, Header, Told, WireTrue, FailureFirst, Heard, Sent
  <2>4. CASE Replied
    <3>1. /\ UNCHANGED <<run, result, wire, verdict, process, link, lastTestSummary>>
          /\ handling' = "none" /\ listener = "replying"
      BY <2>4 DEF Replied
    <3>2. plan' # plan => plan = "asked" /\ plan' = "configured"
      BY <2>4 DEF Replied
    <3>3. finishedAs' = "passed" => finishedAs = "passed" \/ (handling = "finished" /\ ~Heard)
      BY <2>4 DEF Replied, resolveFinished, PlanStatus, Heard
    <3> QED
      BY <3>1, <3>2, <3>3 DEF Told, WireTrue, FailureFirst, Heard, Sent
  <2>5. CASE PollTimeout \/ ConnectionLost
    <3>1. /\ UNCHANGED <<run, result, wire, plan, verdict, process, link, lastTestSummary>>
          /\ handling' = "none" /\ listener # "none"
      BY <2>5 DEF PollTimeout, ConnectionLost, Told
    <3>2. finishedAs' = "passed" => finishedAs = "passed"
      BY <2>5 DEF PollTimeout, ConnectionLost, ListenerFails, resolveFinished
    <3> QED
      BY <3>1, <3>2 DEF Told, WireTrue, FailureFirst, Heard, Sent
  <2>6. CASE Launched
    <3>1. /\ plan = "none" /\ verdict = "none" /\ process' = "alive" /\ run' # "launching"
          /\ UNCHANGED <<wire, plan, verdict, link, handling>>
      BY <2>6 DEF Launched, Told, startExecCallbackListener, Leave
    <3>2. /\ lastTestSummary' = "none" /\ (handling # "none" => listener' = "replying")
          /\ result' = "passed" => result = "passed"
          /\ finishedAs' = "passed" => finishedAs = "passed"
      BY <2>6, <3>1 DEF Launched, Told, startExecCallbackListener, Leave
    <3> QED
      BY <3>1, <3>2 DEF Told, WireTrue
  <2>17. CASE LaunchFails
    <3>1. /\ process' \in {process, "alive"} /\ result' # "passed" /\ run' # "launching"
          /\ UNCHANGED <<wire, verdict, plan, link, listener, handling, lastTestSummary,
                         finishedAs>>
      BY <2>17 DEF LaunchFails, Leave
    <3> QED
      BY <3>1 DEF Told, WireTrue, FailureFirst, Heard, Sent
  <2>7. CASE Run /\ ~Launched /\ ~LaunchFails
    <3>1. /\ UNCHANGED <<wire, verdict, process, link, listener, handling, lastTestSummary,
                         finishedAs>>
          /\ run' = "launching" => run = "launching"
      BY <2>7 DEF Run, StageFails, Authorized, startExecutingTestPlan, Configured, PlanSent,
         PlanNotSent, Completed, TimedOut, Leave
    <3>2. plan' # plan => plan = "configured" /\ plan' = "running"
      BY <2>7 DEF Run, StageFails, Authorized, Configured, PlanSent, PlanNotSent, Completed,
         TimedOut
    <3>3. result' = "passed" => "passed" \in {finishedAs, result}
      BY <2>7 DEF Run, StageFails, Authorized, startExecutingTestPlan, Configured, PlanSent,
         PlanNotSent, Completed, TimedOut, Leave
    <3> QED
      BY <3>1, <3>2, <3>3 DEF Told, WireTrue, FailureFirst, Heard, Sent
  <2>8. ASSUME NEW m \in Callbacks, Sends(m), m \notin {"passed", "failed", "finished"},
               plan' # plan => plan = "none" /\ plan' = "asked",
               UNCHANGED <<run, result, verdict, process, link, listener, handling,
                           lastTestSummary, finishedAs>>
        PROVE  Told'
    <3>1. /\ wire' = Append(wire, m) /\ process = "alive" /\ Len(wire') = Len(wire) + 1
          /\ wire'[Len(wire) + 1] = m /\ \A i \in 1 .. Len(wire) : wire'[i] = wire[i]
      BY <2>8, WireFacts DEF Sends
    <3>2. WireTrue'
      BY <2>8, <3>1, WireFacts DEF Told, WireTrue
    <3>3. verdict = "failed" => FailureFirst'
      BY <2>8, <3>1, WireFacts DEF Told, FailureFirst, Heard
    <3>4. Sent("failed") => Sent("failed")'
      BY <3>1, WireFacts DEF Sent
    <3> QED
      BY <2>8, <3>1, <3>2, <3>3, <3>4 DEF Told, Heard
  <2>9. ASSUME NEW v \in {"passed", "failed"}, DeviceSuite(v) PROVE Told'
    <3>1. /\ plan = "running" /\ verdict = "none" /\ verdict' = v /\ process = "alive"
          /\ UNCHANGED <<run, result, plan, process, link, listener, handling, lastTestSummary,
                         finishedAs>>
      BY <2>9 DEF DeviceSuite, Sends
    <3>2. /\ Len(wire') = Len(wire) + 1 /\ wire'[Len(wire) + 1] = v
          /\ \A i \in 1 .. Len(wire) : wire'[i] = wire[i]
      BY <2>9, WireFacts, CallbackNames DEF DeviceSuite, Sends
    <3>3. \A i \in 1 .. Len(wire) : wire[i] \notin {"passed", "failed", "finished"}
      BY <3>1 DEF Told, WireTrue
    <3>4. WireTrue'
      BY <3>1, <3>2, <3>3, WireFacts DEF WireTrue
    <3>5. FailureFirst'
      BY <3>2, <3>3, WireFacts DEF FailureFirst
    <3>6. v = "failed" => Sent("failed")'
      BY <3>2, WireFacts DEF Sent
    <3> QED
      BY <3>1, <3>4, <3>5, <3>6 DEF Told, Heard
  <2>10. CASE DeviceFinish
    <3>1. /\ plan = "running" /\ link = "up" /\ plan' = "finished" /\ process = "alive"
          /\ UNCHANGED <<run, result, verdict, process, link, listener, handling, lastTestSummary,
                         finishedAs>>
      BY <2>10 DEF DeviceFinish, Sends
    <3>2. /\ Len(wire') = Len(wire) + 1 /\ wire'[Len(wire) + 1] = "finished"
          /\ \A i \in 1 .. Len(wire) : wire'[i] = wire[i]
      BY <2>10, WireFacts, CallbackNames DEF DeviceFinish, Sends
    <3>3. WireTrue'
      BY <3>1, <3>2, WireFacts DEF Told, WireTrue
    <3>4. verdict = "failed" => FailureFirst'
      <4> SUFFICES ASSUME verdict = "failed", ~Heard, NEW j \in 1 .. Len(wire'),
                          wire'[j] = "finished"
                   PROVE  \E i \in 1 .. j - 1 : wire'[i] = "failed"
        BY <3>1 DEF FailureFirst, Heard
      <4>1. PICK i \in 1 .. Len(wire) : wire[i] = "failed"
        BY <3>1 DEF Told, Sent
      <4>2. \A k \in 1 .. Len(wire) : wire[k] # "finished"
        BY <3>1 DEF Told, WireTrue
      <4>3. j = Len(wire) + 1
        BY <3>2, <4>2, WireFacts
      <4> QED
        BY <3>2, <4>1, <4>3, WireFacts
    <3>5. "passed" \notin {finishedAs, result} /\ handling # "finished"
      BY <3>1 DEF Told
    <3> QED
      BY <3>1, <3>3, <3>4, <3>5 DEF Told, Heard
  <2>11. CASE ConnectionDies
    <3>1. PICK n \in 0 .. Len(wire) : wire' = SubSeq(wire, 1, n)
      BY <2>11 DEF ConnectionDies
    <3>2. /\ Len(wire') = n /\ \A i \in 1 .. n : i \in 1 .. Len(wire) /\ wire'[i] = wire[i]
      BY <3>1, WireFacts
    <3>3. link' = "dead" /\ UNCHANGED <<run, result, plan, verdict, process, listener, handling,
                                        lastTestSummary, finishedAs>>
      BY <2>11 DEF ConnectionDies
    <3>4. WireTrue'
      BY <3>2, <3>3 DEF Told, WireTrue
    <3>5. verdict = "failed" => FailureFirst'
      <4> SUFFICES ASSUME verdict = "failed", ~Heard, NEW j \in 1 .. n, wire'[j] = "finished"
                   PROVE  \E i \in 1 .. j - 1 : wire'[i] = "failed"
        BY <3>2, <3>3 DEF FailureFirst, Heard
      <4>1. PICK i \in 1 .. j - 1 : wire[i] = "failed"
        BY <3>2 DEF Told, FailureFirst
      <4>2. wire'[i] = "failed"
        BY <3>2, <4>1
      <4> QED
        BY <4>1, <4>2
    <3> QED
      BY <3>3, <3>4, <3>5 DEF Told, Heard
  <2>12. ASSUME NEW c \in Closers, Close(c) \/ Killed(c) \/ ListenerStopped(c) \/ CloseDone(c)
         PROVE  Told'
    <3>1. /\ UNCHANGED <<result, wire, plan, verdict, link, listener, handling, lastTestSummary>>
          /\ run' = "launching" => run = "launching"
          /\ process' = "none" <=> process = "none"
      BY <2>12 DEF Close, Killed, ListenerStopped, CloseDone
    <3>2. finishedAs' = "passed" => finishedAs = "passed"
      BY <2>12 DEF Close, Killed, ListenerStopped, CloseDone, Stop, stop, resolveFinished
    <3> QED
      BY <3>1, <3>2 DEF Told, WireTrue, FailureFirst, Heard, Sent
  <2>13. ASSUME NEW c \in Closers, ConnectionsClosed(c) PROVE Told'
    <3>1. /\ UNCHANGED <<run, result, plan, verdict, process, listener, handling, lastTestSummary,
                         finishedAs>>
          /\ link' = "closed" /\ Len(wire') = 0
      BY <2>13 DEF ConnectionsClosed
    <3>2. WireTrue' /\ FailureFirst'
      BY <3>1 DEF WireTrue, FailureFirst
    <3> QED
      BY <3>1, <3>2 DEF Told, Heard
  <2>14. CASE UNCHANGED vars
    BY <2>14 DEF vars, Told, WireTrue, FailureFirst, Heard, Sent
  <2>15. CASE DeviceReady
    BY <2>8, <2>15, CallbackNames DEF DeviceReady
  <2>16. ASSUME NEW m \in {"note", "asking", "other"}, DeviceNote(m) PROVE Told'
    BY <2>8, <2>16, CallbackNames DEF DeviceNote
  <2> QED
    BY <2>1, <2>2, <2>3, <2>4, <2>5, <2>6, <2>7, <2>9, <2>10, <2>11, <2>12, <2>13, <2>14, <2>15,
       <2>16, <2>17 DEF Next, Listener, Device, Closing
<1> QED
  BY <1>1, <1>2, TypeCorrect, PTL DEF Spec

\* A run reports `passed' only when the plan finished and its last suite did
\* not fail, whatever of lost connections, timeouts and close() came between.
THEOREM PassedIsTrueSafe == Spec => []PassedIsTrue
<1>1. Told => PassedIsTrue
  BY DEF Told, PassedIsTrue
<1> QED
  BY <1>1, ToldInvariant, PTL

-----------------------------------------------------------------------------
(* The plan waits for its configuration.                                   *)

\* Who waits for the configuration was let go without it.
Freed == lastListenerError \/ \E c \in Closers : closer[c] # "new"
Asked == plan \in {"none", "asked"}

\* The field is empty, or the promise resolved, only with the configuration
\* delivered or for one of these reasons.
Delivered ==
    /\ early => Freed
    /\ run = "launching" => ~early /\ listener = "none"
    /\ run = "authorizing" => listener # "none"
    /\ handling = "ready" \/ Sent("ready") => plan # "none"
    /\ configReplied => ~Asked \/ Freed
    /\ run = "planning" => ~Asked \/ Freed
    /\ listener # "none" /\ ~configReplyDeferred => Freed

\* What was sent and is on the wire after a step.
LEMMA StillSent ==
    ASSUME TypeOK, Sent("ready")',
           \/ wire' = wire \/ wire' = << >>
           \/ wire # << >> /\ wire' = Tail(wire)
           \/ \E n \in 0 .. Len(wire) : wire' = SubSeq(wire, 1, n)
           \/ \E m \in Callbacks \ {"ready"} : wire' = Append(wire, m)
    PROVE  Sent("ready")
<1>1. PICK i \in 1 .. Len(wire') : wire'[i] = "ready"
  BY DEF Sent
<1>2. CASE wire' = wire \/ wire' = << >>
  BY <1>1, <1>2 DEF Sent
<1>3. CASE wire # << >> /\ wire' = Tail(wire)
  <2>1. Len(wire) \in Nat /\ Len(wire') = Len(wire) - 1
    BY <1>3, WireFacts
  <2>2. i + 1 \in 1 .. Len(wire) /\ i \in 1 .. Len(wire) - 1
    BY <2>1
  <2>3. wire[i + 1] = "ready"
    BY <1>1, <1>3, <2>2, WireFacts
  <2> QED
    BY <2>2, <2>3 DEF Sent
<1>4. CASE \E n \in 0 .. Len(wire) : wire' = SubSeq(wire, 1, n)
  <2>1. i \in 1 .. Len(wire) /\ wire[i] = "ready"
    BY <1>1, <1>4, WireFacts
  <2> QED
    BY <2>1 DEF Sent
<1>5. CASE \E m \in Callbacks \ {"ready"} : wire' = Append(wire, m)
  <2>1. i \in 1 .. Len(wire) /\ wire[i] = "ready"
    BY <1>1, <1>5, WireFacts
  <2> QED
    BY <2>1 DEF Sent
<1> QED
  BY <1>2, <1>3, <1>4, <1>5

LEMMA DeliveredInvariant == Spec => []Delivered
<1>1. Init => Delivered
  <2> SUFFICES ASSUME Init PROVE Delivered
    OBVIOUS
  <2>1. ~Sent("ready")
    BY DEF Init, Sent
  <2> QED
    BY <2>1 DEF Init, Delivered
<1>2. TypeOK /\ Delivered /\ [Next]_vars => Delivered'
  <2> SUFFICES ASSUME TypeOK, Delivered, [Next]_vars PROVE Delivered'
    OBVIOUS
  <2> USE DEF runVars, fieldVars, closeVars, listenerVars, deferredVars, deviceVars
  <2>1. CASE Callback
    <3>1. /\ wire # << >> /\ wire' = Tail(wire) /\ listener # "none" /\ listener' # "none"
          /\ UNCHANGED <<run, early, plan, closer, lastListenerError, configReplied,
                         configReplyDeferred>>
      BY <2>1 DEF Callback, Ended, Loop
    <3>2. Sent("ready")' => Sent("ready")
      BY <3>1, StillSent
    <3>3. handling' = "ready" => handling = "ready" \/ Sent("ready")
      BY <2>1, WireFacts DEF Callback, Sent
    <3> QED
      BY <3>1, <3>2, <3>3 DEF Delivered, Freed, Asked
  <2>2. CASE Header \/ OtherChannel \/ Acknowledged \/ PollTimeout
    <3>1. /\ wire' = wire \/ (wire # << >> /\ wire' = Tail(wire))
          /\ listener # "none" /\ listener' # "none"
          /\ UNCHANGED <<run, early, plan, closer, lastListenerError, configReplied, handling,
                         configReplyDeferred>>
      BY <2>2 DEF Header, OtherChannel, Acknowledged, PollTimeout, Ended
    <3>2. Sent("ready")' => Sent("ready")
      BY <3>1, StillSent
    <3> QED
      BY <3>1, <3>2 DEF Delivered, Freed, Asked
  <2>3. CASE Replied
    <3>1. /\ listener # "none" /\ listener' # "none" /\ handling' = "none"
          /\ UNCHANGED <<run, early, wire, closer, lastListenerError, configReplyDeferred>>
      BY <2>3 DEF Replied, Ended, Loop
    <3>2. /\ plan' = plan \/ (plan = "asked" /\ plan' = "configured")
          /\ configReplied' => configReplied \/ (handling = "ready" /\ plan' # "asked")
      BY <2>3 DEF Replied, resolveConfig
    <3> QED
      BY <3>1, <3>2 DEF Delivered, Freed, Asked, Sent
  <2>4. CASE ConnectionLost
    <3>1. /\ listener # "none" /\ listener' # "none" /\ handling' = "none"
          /\ UNCHANGED <<run, early, wire, plan, closer>>
          /\ \/ lastListenerError'
             \/ UNCHANGED <<lastListenerError, configReplied, configReplyDeferred>>
      BY <2>4 DEF ConnectionLost, ListenerFails, Ended
    <3> QED
      BY <3>1 DEF Delivered, Freed, Asked, Sent
  <2>5. CASE Launched
    <3>1. /\ ~early' /\ run' \in {"authorizing", "closing"}
          /\ UNCHANGED <<wire, plan, closer, handling, early>>
      BY <2>5 DEF Launched, startExecCallbackListener, Leave, Delivered
    <3>2. \/ listener' # "none" /\ ~configReplied' /\ configReplyDeferred'
          \/ /\ run' = "closing"
             /\ UNCHANGED <<listener, lastListenerError, configReplied, configReplyDeferred>>
      BY <2>5 DEF Launched, startExecCallbackListener, Leave
    <3> QED
      BY <3>1, <3>2 DEF Delivered, Freed, Asked, Sent
  <2>6. CASE Authorized
    <3>1. /\ run = "authorizing"
          /\ run' \in {"configuring", "closing"} \/ (run' = "planning" /\ ~configReplyDeferred)
          /\ UNCHANGED <<wire, plan, closer, handling, early, listener, lastListenerError,
                         configReplied, configReplyDeferred>>
      BY <2>6 DEF Authorized, startExecutingTestPlan, Leave
    <3> QED
      BY <3>1 DEF Delivered, Freed, Asked, Sent
  <2>7. CASE Configured
    BY <2>7 DEF Configured, Delivered, Freed, Asked, Sent
  <2>8. CASE PlanSent
    <3>1. /\ run = "planning" /\ run' \in {"waiting", "closing"}
          /\ early' => early \/ Asked
          /\ plan' = plan \/ (plan = "configured" /\ plan' = "running")
          /\ UNCHANGED <<wire, closer, handling, listener, lastListenerError, configReplied,
                         configReplyDeferred>>
      BY <2>8 DEF PlanSent, Leave, Asked
    <3> QED
      BY <3>1 DEF Delivered, Freed, Asked, Sent
  <2>9. CASE LaunchFails \/ StageFails \/ PlanNotSent \/ Completed \/ TimedOut
    <3>1. /\ run' = "closing"
          /\ UNCHANGED <<wire, plan, closer, handling, early, listener, lastListenerError,
                         configReplied, configReplyDeferred>>
      BY <2>9 DEF LaunchFails, StageFails, PlanNotSent, Completed, TimedOut, Leave
    <3> QED
      BY <3>1 DEF Delivered, Freed, Asked, Sent
  <2>10. CASE DeviceReady
    <3>1. /\ plan' = "asked" /\ plan = "none"
          /\ UNCHANGED <<run, early, closer, handling, listener, lastListenerError,
                         configReplied, configReplyDeferred>>
      BY <2>10 DEF DeviceReady
    <3> QED
      BY <3>1 DEF Delivered, Freed, Asked
  <2>11. CASE \/ ConnectionDies \/ DeviceFinish
              \/ \E m \in {"note", "asking", "other"} : DeviceNote(m)
              \/ \E v \in {"passed", "failed"} : DeviceSuite(v)
    <3>1. \/ \E n \in 0 .. Len(wire) : wire' = SubSeq(wire, 1, n)
          \/ \E m \in Callbacks \ {"ready"} : wire' = Append(wire, m)
      BY <2>11, CallbackNames DEF ConnectionDies, DeviceFinish, DeviceNote, DeviceSuite, Sends
    <3>2. Sent("ready")' => Sent("ready")
      BY <3>1, StillSent
    <3>3. /\ UNCHANGED <<run, early, closer, handling, listener, lastListenerError,
                         configReplied, configReplyDeferred>>
          /\ plan' = plan \/ (plan = "running" /\ plan' = "finished")
      BY <2>11 DEF ConnectionDies, DeviceFinish, DeviceNote, DeviceSuite
    <3> QED
      BY <3>2, <3>3 DEF Delivered, Freed, Asked
  <2>12. ASSUME NEW c \in Closers,
                \/ Close(c) \/ Killed(c) \/ ListenerStopped(c) \/ ConnectionsClosed(c)
                \/ CloseDone(c)
         PROVE  Delivered'
    <3>1. /\ UNCHANGED <<early, handling, listener, lastListenerError, plan>>
          /\ run' = run \/ run' = "over"
          /\ wire' = wire \/ wire' = << >>
      BY <2>12 DEF Close, Killed, ListenerStopped, ConnectionsClosed, CloseDone
    <3>2. closer'[c] # "new"
      BY <2>12 DEF Close, Killed, ListenerStopped, ConnectionsClosed, CloseDone, Stop, stop, TypeOK
    <3>3. Sent("ready")' => Sent("ready")
      BY <3>1, StillSent
    <3> QED
      BY <3>1, <3>2, <3>3 DEF Delivered, Freed, Asked
  <2>13. CASE UNCHANGED vars
    BY <2>13 DEF vars, Delivered, Freed, Asked, Sent
  <2> QED
    BY <2>1, <2>2, <2>3, <2>4, <2>5, <2>6, <2>7, <2>8, <2>9, <2>10, <2>11, <2>12, <2>13
    DEF Next, Listener, Run, Device, Closing
<1> QED
  BY <1>1, <1>2, TypeCorrect, PTL DEF Spec

\* The runner is told to start a plan it has no configuration for only after
\* the listener failed or close() was called.
THEOREM ConfigBeforePlanSafe == Spec => []ConfigBeforePlan
<1>1. Delivered => ConfigBeforePlan
  BY DEF Delivered, Freed, ConfigBeforePlan
<1> QED
  BY <1>1, DeliveredInvariant, PTL
=============================================================================
