----------------------------- MODULE XctestRun -----------------------------
(***************************************************************************)
(* One run of XCTestRunner: launching the test runner process, the         *)
(* background listener that answers its callbacks on the exec connection,  *)
(* starting the plan once the configuration is delivered, waiting for the  *)
(* verdict within a timeout, and close(), which run() calls in the end and *)
(* a user may call at any moment.                                          *)
(*                                                                         *)
(* The model begins with the services up and XCUITestService made.  A run  *)
(* starts one listener, so its deferred promises and its abort controller  *)
(* are its own and are not numbered.                                       *)
(***************************************************************************)
EXTENDS Integers, Sequences

CONSTANTS
    MaxNotes        \* bound: callbacks besides those of the test plan

ASSUME BoundsAssumption == MaxNotes \in Nat

VARIABLES
    run,            \* where run() is
    result,         \* status of the run, none until it has one
    xcuitest,       \* this.xcuitest is set
    services,       \* this.services is set
    launchedPid,    \* this.launchedPid is set
    closer,         \* where each close() is
    userClosed,     \* the user called close()
    left,           \* what may have left the process behind
    listener,       \* the exec callback listener
    handling,       \* the callback it is replying to
    aborted,        \* listenerAbortController was aborted
    callbackListenerPromise,
    lastListenerError,
    lastTestSummary,
    configReplyDeferred, configReplied,     \* the field is set; the promise is resolved
    finishedDeferred, finishedAs,
    link,           \* the exec connection: up, dead or closed
    wire,           \* callbacks sent and not read
    process,        \* the test runner process: none, alive or killed
    plan,           \* what it has come to: none, asked, configured, running, finished
    early,          \* it was told to start a plan it had no configuration for
    verdict,        \* of its last suite
    notes           \* other callbacks sent

runVars == <<run, result>>
fieldVars == <<xcuitest, services, launchedPid>>
closeVars == <<closer, userClosed, left>>
listenerVars == <<listener, handling, aborted, callbackListenerPromise, lastListenerError,
                  lastTestSummary>>
deferredVars == <<configReplyDeferred, configReplied, finishedDeferred, finishedAs>>
deviceVars == <<wire, process, plan, early, verdict, notes>>
vars == <<runVars, fieldVars, closeVars, listenerVars, deferredVars, link, deviceVars>>

Closers == {"run", "user"}
Callbacks == {"ready", "note", "asking", "other", "passed", "failed", "finished"}
Verdicts == {"none", "passed", "failed"}
\* The launch failed after it was asked for; the kill failed; the user called
\* close() before the launch was answered.
Reasons == {"unanswered", "notKilled", "closedFirst"}

Init ==
    /\ run = "launching" /\ result = "none"
    /\ xcuitest = TRUE /\ services = TRUE /\ launchedPid = FALSE
    /\ closer = [c \in Closers |-> "new"] /\ userClosed = FALSE
    /\ left = {} /\ listener = "none" /\ handling = "none" /\ aborted = FALSE
    /\ callbackListenerPromise = FALSE
    /\ lastListenerError = FALSE /\ lastTestSummary = "none"
    /\ configReplyDeferred = FALSE /\ configReplied = FALSE
    /\ finishedDeferred = FALSE /\ finishedAs = "none"
    /\ link = "up" /\ wire = << >>
    /\ process = "none" /\ plan = "none" /\ early = FALSE /\ verdict = "none" /\ notes = 0

-----------------------------------------------------------------------------
(* The listener.                                                           *)

\* Resolving a promise again changes nothing; a null field is skipped.
resolveConfig == configReplied' = (configReplied \/ configReplyDeferred)
resolveFinished(status) ==
    finishedAs' = IF finishedDeferred /\ finishedAs = "none" THEN status ELSE finishedAs

\* startExecCallbackListener(), which goes up to its first read.
startExecCallbackListener ==
    /\ listener' = "reading" /\ aborted' = FALSE /\ callbackListenerPromise' = TRUE
    /\ lastListenerError' = FALSE /\ lastTestSummary' = "none"
    /\ configReplyDeferred' = TRUE /\ configReplied' = FALSE
    /\ finishedDeferred' = TRUE /\ finishedAs' = "none"
    /\ UNCHANGED handling

\* Mutant: its finally is missing.
Ended_KeepPromise == listener' = "ended" /\ UNCHANGED callbackListenerPromise

\* The finally of the listener.
Ended == listener' = "ended" /\ callbackListenerPromise' = FALSE

\* The end of a round of its loop.
Loop == IF aborted THEN Ended ELSE listener' = "reading" /\ UNCHANGED callbackListenerPromise

\* handleCallback().
handleCallback(m) ==
    lastTestSummary' = IF m \in {"passed", "failed"} THEN m ELSE lastTestSummary

\* Mutant: the plan is taken for passed, whatever its suites said.
PlanStatus_Passed == "passed"
PlanStatus == IF lastTestSummary = "failed" THEN "failed" ELSE "passed"

\* The header of a message is there, and its payload is read without the signal
\* of the poll and without a timer.
Header ==
    /\ listener = "reading" /\ wire # << >> /\ listener' = "payload"
    /\ UNCHANGED <<runVars, fieldVars, closeVars, handling, aborted, callbackListenerPromise,
                   lastListenerError, lastTestSummary, deferredVars, link, deviceVars>>

\* A callback on the exec channel: handled, and replied to if it is the one
\* that wants the configuration or the device expects a reply; with the end
\* of the plan the listener leaves.
Callback ==
    /\ listener = "payload" /\ wire # << >> /\ Head(wire) # "other"
    /\ wire' = Tail(wire)
    /\ LET m == Head(wire)
       IN /\ handleCallback(m)
          /\ \/ /\ m \in {"ready", "asking", "finished"}
                /\ listener' = "replying" /\ handling' = m
                /\ UNCHANGED <<callbackListenerPromise, finishedAs>>
             \/ /\ m = "finished" /\ Ended
                /\ resolveFinished(PlanStatus) /\ UNCHANGED handling
             \/ /\ m \notin {"ready", "asking", "finished"} /\ Loop
                /\ UNCHANGED <<handling, finishedAs>>
    /\ UNCHANGED <<runVars, fieldVars, closeVars, aborted, lastListenerError, configReplyDeferred,
                   configReplied, finishedDeferred, link, process, plan, early, verdict, notes>>

\* A message on another channel is kept for its readers and acknowledged by
\* the receive itself, which then goes on.
OtherChannel ==
    /\ listener = "payload" /\ wire # << >> /\ Head(wire) = "other"
    /\ wire' = Tail(wire) /\ listener' = "acking"
    /\ UNCHANGED <<runVars, fieldVars, closeVars, handling, aborted, callbackListenerPromise,
                   lastListenerError, lastTestSummary, deferredVars, link, process, plan, early,
                   verdict, notes>>

\* The write of the acknowledgement is over; its failure is only logged.
Acknowledged ==
    /\ listener = "acking" /\ listener' = "reading"
    /\ UNCHANGED <<runVars, fieldVars, closeVars, handling, aborted, callbackListenerPromise,
                   lastListenerError, lastTestSummary, deferredVars, link, deviceVars>>

\* sendReply() is over.  With the configuration the device can take a plan.
Replied ==
    /\ listener = "replying" /\ link = "up"
    /\ IF handling = "ready"
       THEN plan' = (IF plan = "asked" THEN "configured" ELSE plan) /\ resolveConfig
       ELSE UNCHANGED <<plan, configReplied>>
    /\ IF handling = "finished"
       THEN resolveFinished(PlanStatus) /\ Ended
       ELSE Loop /\ UNCHANGED finishedAs
    /\ handling' = "none"
    /\ UNCHANGED <<runVars, fieldVars, closeVars, aborted, lastListenerError, lastTestSummary,
                   configReplyDeferred, finishedDeferred, link, wire, process, early,
                   verdict, notes>>

\* recvPlistWithTimeout() gives up on a header after its second, and the listener
\* looks whether it was aborted.  If it was not it reads again, which is a stutter.
PollTimeout ==
    /\ listener = "reading" /\ aborted /\ Ended
    /\ UNCHANGED <<runVars, fieldVars, closeVars, handling, aborted, lastListenerError,
                   lastTestSummary, deferredVars, link, deviceVars>>

\* The catch of the listener: an aborted one leaves quietly, another unblocks
\* those who wait.
ListenerFails ==
    IF aborted
    THEN UNCHANGED <<lastListenerError, configReplied, configReplyDeferred, finishedAs>>
    ELSE /\ lastListenerError' = TRUE
         /\ resolveConfig /\ configReplyDeferred' = FALSE
         /\ resolveFinished("failed")

\* A read or a reply meets the end of the connection; what was read before is
\* used first.
ConnectionLost ==
    /\ link # "up"
    /\ listener = "replying" \/ (listener \in {"reading", "payload"} /\ wire = << >>)
    /\ ListenerFails /\ Ended /\ handling' = "none"
    /\ UNCHANGED <<runVars, fieldVars, closeVars, aborted, lastTestSummary, finishedDeferred, link,
                   deviceVars>>

-----------------------------------------------------------------------------
(* run().                                                                  *)

\* An await of run() throws, or the run has its result: what is left is its
\* finally.
Leave(status) == run' = "closing" /\ result' = status

\* The launch returns: the process is there, and so is the listener, unless
\* close() has taken this.xcuitest away, which is a TypeError.
Launched ==
    /\ run = "launching"
    /\ launchedPid' = TRUE /\ process' = "alive"
    /\ IF xcuitest
       THEN startExecCallbackListener /\ run' = "authorizing" /\ UNCHANGED result
       ELSE Leave("threw") /\ UNCHANGED <<listenerVars, deferredVars>>
    /\ UNCHANGED <<xcuitest, services, closeVars, link, wire, plan, early, verdict,
                   notes>>

\* The launch fails, and the device has carried it out or not,
LaunchFails ==
    /\ run = "launching" /\ Leave("threw")
    /\ \/ process' = "alive" /\ left' = left \cup {"unanswered"}
       \/ UNCHANGED <<process, left>>
    /\ UNCHANGED <<fieldVars, closer, userClosed, listenerVars, deferredVars, link, wire, plan,
                   early, verdict, notes>>

\* or the authorization on the control connection does.
StageFails ==
    /\ run = "authorizing" /\ Leave("threw")
    /\ UNCHANGED <<fieldVars, closeVars, listenerVars, deferredVars, link, deviceVars>>

\* Mutant: the plan is started without waiting.
startExecutingTestPlan_NoWait ==
    /\ run = "authorizing" /\ xcuitest
    /\ run' = "planning" /\ UNCHANGED result

\* startExecutingTestPlan(): it waits for the configuration to be delivered,
\* if the listener still has to.
startExecutingTestPlan ==
    /\ run = "authorizing" /\ xcuitest
    /\ run' = IF configReplyDeferred THEN "configuring" ELSE "planning"
    /\ UNCHANGED result

Authorized ==
    /\ \/ startExecutingTestPlan
       \/ run = "authorizing" /\ ~xcuitest /\ Leave("threw")
    /\ UNCHANGED <<fieldVars, closeVars, listenerVars, deferredVars, link, deviceVars>>

Configured ==
    /\ run = "configuring" /\ configReplied
    /\ run' = "planning"
    /\ UNCHANGED <<result, fieldVars, closeVars, listenerVars, deferredVars, link, deviceVars>>

\* The plan is sent.  The device takes it when it has its configuration.
\* waitForCompletion() then throws when stop() has taken its promise away.
PlanSent ==
    /\ run = "planning" /\ link = "up"
    /\ plan' = IF plan = "configured" THEN "running" ELSE plan
    /\ early' = (early \/ plan \in {"none", "asked"})
    /\ IF xcuitest /\ finishedDeferred THEN run' = "waiting" /\ UNCHANGED result
       ELSE Leave("threw")
    /\ UNCHANGED <<fieldVars, closeVars, listenerVars, deferredVars, link, wire, process, verdict,
                   notes>>

PlanNotSent ==
    /\ run = "planning" /\ link # "up" /\ Leave("threw")
    /\ UNCHANGED <<fieldVars, closeVars, listenerVars, deferredVars, link, deviceVars>>

\* waitForCompletionWithin(): the promise, or the timer.
Completed ==
    /\ run = "waiting" /\ finishedAs # "none"
    /\ Leave(IF lastListenerError THEN "failed" ELSE finishedAs)
    /\ UNCHANGED <<fieldVars, closeVars, listenerVars, deferredVars, link, deviceVars>>

TimedOut ==
    /\ run = "waiting" /\ Leave("timed_out")
    /\ UNCHANGED <<fieldVars, closeVars, listenerVars, deferredVars, link, deviceVars>>

-----------------------------------------------------------------------------
(* close().                                                                *)

\* Mutant: the listener is not aborted.
abortListener_Never == UNCHANGED aborted
abortListener == aborted' = (aborted \/ callbackListenerPromise)

\* stop() up to its first await: it resolves what others wait for, aborts the
\* listener and waits for it.
stop(c) ==
    /\ resolveConfig /\ configReplyDeferred' = FALSE
    /\ resolveFinished("failed") /\ finishedDeferred' = FALSE
    /\ abortListener
    /\ closer' = [closer EXCEPT ![c] = IF callbackListenerPromise THEN "stopping" ELSE "closing"]

\* What close() does after the kill, if there was one.
Stop(c) ==
    IF xcuitest THEN stop(c)
    ELSE closer' = [closer EXCEPT ![c] = "finishing"] /\ UNCHANGED <<aborted, deferredVars>>

Called(c) ==
    /\ userClosed' = (userClosed \/ c = "user")
    /\ left' = IF c = "user" /\ run = "launching" THEN left \cup {"closedFirst"} ELSE left

\* Mutant: the process is left to the device.
Close_KeepProcess(c) ==
    /\ closer[c] = "new" /\ (c = "run" => run = "closing")
    /\ Called(c) /\ Stop(c)
    /\ UNCHANGED <<runVars, fieldVars, listener, handling, callbackListenerPromise,
                   lastListenerError, lastTestSummary, link, deviceVars>>

\* close(), called by run() in its finally or by the user at any moment.
Close(c) ==
    /\ closer[c] = "new" /\ (c = "run" => run = "closing")
    /\ Called(c)
    /\ IF services /\ launchedPid
       THEN closer' = [closer EXCEPT ![c] = "killing"] /\ UNCHANGED <<aborted, deferredVars>>
       ELSE Stop(c)
    /\ UNCHANGED <<runVars, fieldVars, listener, handling, callbackListenerPromise,
                   lastListenerError, lastTestSummary, link, deviceVars>>

\* processControl.kill(), which asks and waits for no answer, is over.  That the
\* process lives on, or that the call threw, is not known or only logged, and its
\* pid is forgotten.
Killed(c) ==
    /\ closer[c] = "killing"
    /\ launchedPid' = FALSE /\ Stop(c)
    /\ \/ process' = (IF process = "alive" THEN "killed" ELSE process) /\ UNCHANGED left
       \/ left' = left \cup {"notKilled"} /\ UNCHANGED process
    /\ UNCHANGED <<runVars, xcuitest, services, userClosed, listener, handling,
                   callbackListenerPromise, lastListenerError, lastTestSummary, link, wire, plan,
                   early, verdict, notes>>

\* stop() goes on when the listener has left.
ListenerStopped(c) ==
    /\ closer[c] = "stopping" /\ listener = "ended"
    /\ closer' = [closer EXCEPT ![c] = "closing"]
    /\ UNCHANGED <<runVars, fieldVars, userClosed, left, listenerVars, deferredVars, link, deviceVars>>

\* stop() has closed the connections, and close() lets go of the service.
ConnectionsClosed(c) ==
    /\ closer[c] = "closing"
    /\ closer' = [closer EXCEPT ![c] = "finishing"]
    /\ link' = "closed" /\ wire' = << >> /\ xcuitest' = FALSE
    /\ UNCHANGED <<runVars, services, launchedPid, userClosed, left, listenerVars, deferredVars, process,
                   plan, early, verdict, notes>>

\* The DVT service is closed; with the close() of its finally run() is over.
CloseDone(c) ==
    /\ closer[c] = "finishing"
    /\ closer' = [closer EXCEPT ![c] = "done"] /\ services' = FALSE
    /\ run' = IF c = "run" THEN "over" ELSE run
    /\ UNCHANGED <<result, xcuitest, launchedPid, userClosed, left, listenerVars, deferredVars, link,
                   deviceVars>>

-----------------------------------------------------------------------------
(* The device.                                                             *)

Sends(m) == link = "up" /\ process = "alive" /\ wire' = Append(wire, m)

\* The runner is ready for its configuration.
DeviceReady ==
    /\ plan = "none" /\ Sends("ready") /\ plan' = "asked"
    /\ UNCHANGED <<runVars, fieldVars, closeVars, listenerVars, deferredVars, link, process, early,
                   verdict, notes>>

\* A callback that needs no reply, one that does, one on another channel.
DeviceNote(m) ==
    /\ notes < MaxNotes /\ Sends(m) /\ notes' = notes + 1
    /\ UNCHANGED <<runVars, fieldVars, closeVars, listenerVars, deferredVars, link, process, plan,
                   early, verdict>>

\* A suite finishes; the last one is the whole bundle's.
DeviceSuite(v) ==
    /\ plan = "running" /\ verdict = "none" /\ Sends(v) /\ verdict' = v
    /\ UNCHANGED <<runVars, fieldVars, closeVars, listenerVars, deferredVars, link, process, plan,
                   early, notes>>

DeviceFinish ==
    /\ plan = "running" /\ Sends("finished") /\ plan' = "finished"
    /\ UNCHANGED <<runVars, fieldVars, closeVars, listenerVars, deferredVars, link, process, early,
                   verdict, notes>>

\* The exec connection is lost, with what the process had sent still on its way
\* or not.
ConnectionDies ==
    /\ link = "up" /\ link' = "dead"
    /\ \E n \in 0 .. Len(wire) : wire' = SubSeq(wire, 1, n)
    /\ UNCHANGED <<runVars, fieldVars, closeVars, listenerVars, deferredVars, process, plan, early,
                   verdict, notes>>

Listener == \/ Header \/ Callback \/ OtherChannel \/ Acknowledged \/ Replied \/ PollTimeout
            \/ ConnectionLost
Run == \/ Launched \/ LaunchFails \/ StageFails \/ Authorized \/ Configured \/ PlanSent
       \/ PlanNotSent \/ Completed \/ TimedOut
Closing(c) == \/ Killed(c) \/ ListenerStopped(c) \/ ConnectionsClosed(c) \/ CloseDone(c)
Device == \/ DeviceReady \/ DeviceFinish \/ ConnectionDies
          \/ \E m \in {"note", "asking", "other"} : DeviceNote(m)
          \/ \E v \in {"passed", "failed"} : DeviceSuite(v)

Next == \/ Listener \/ Run \/ Device
        \/ \E c \in Closers : Close(c) \/ Closing(c)

Spec == Init /\ [][Next]_vars

\* What the host does by itself: what is there is read, timers fire, and what an
\* await waited for in the host makes it go on.
Own == \/ Header \/ PollTimeout \/ ConnectionLost
       \/ Configured \/ PlanNotSent \/ Completed \/ TimedOut
HostFairness ==
    /\ WF_vars(Own) /\ WF_vars(Close("run"))
    /\ \A c \in Closers : WF_vars(ListenerStopped(c))

\* The code waits without a timer for the device to complete a message that it
\* began, and to read what it is sent: the replies, the plan, the kill and the
\* farewell of the connections.  It is assumed to, or the connection to be lost.
DeviceReads ==
    /\ WF_vars(Callback \/ OtherChannel) /\ WF_vars(Replied \/ Acknowledged)
    /\ WF_vars(PlanSent)
    /\ \A c \in Closers : WF_vars(Killed(c) \/ ConnectionsClosed(c) \/ CloseDone(c))

\* Nothing is assumed of the replies that run() waits for, of what the runner
\* sends, or of the user.
FairSpec == Spec /\ HostFairness /\ DeviceReads

\* The launch and the authorization are answered as well.
SilentSpec ==
    /\ FairSpec
    /\ WF_vars(Launched \/ LaunchFails) /\ WF_vars(Authorized \/ StageFails)

-----------------------------------------------------------------------------
(* Properties.                                                             *)

Listening == {"reading", "payload", "acking", "replying"}

\* Every variable has its type, and the promise of the listener is set exactly
\* while it is about.
TypeOK ==
    /\ run \in {"launching", "authorizing", "configuring", "planning", "waiting", "closing",
                "over"}
    /\ result \in {"none", "threw", "passed", "failed", "timed_out"}
    /\ xcuitest \in BOOLEAN /\ services \in BOOLEAN /\ launchedPid \in BOOLEAN
    /\ closer \in [Closers -> {"new", "killing", "stopping", "closing", "finishing", "done"}]
    /\ userClosed \in BOOLEAN /\ left \subseteq Reasons /\ aborted \in BOOLEAN
    /\ listener \in {"none", "ended"} \cup Listening
    /\ handling \in {"none", "ready", "asking", "finished"}
    /\ callbackListenerPromise = (listener \in Listening)
    /\ lastListenerError \in BOOLEAN /\ lastTestSummary \in Verdicts
    /\ configReplyDeferred \in BOOLEAN /\ configReplied \in BOOLEAN
    /\ finishedDeferred \in BOOLEAN /\ finishedAs \in Verdicts
    /\ link \in {"up", "dead", "closed"} /\ wire \in Seq(Callbacks)
    /\ process \in {"none", "alive", "killed"}
    /\ plan \in {"none", "asked", "configured", "running", "finished"}
    /\ early \in BOOLEAN /\ verdict \in Verdicts /\ notes \in 0 .. MaxNotes

\* The plan is started only when the configuration was delivered, unless the
\* listener failed or close() was called: both unblock who waits for it.
ConfigBeforePlan == early => lastListenerError \/ \E c \in Closers : closer[c] # "new"

\* A run that reports `passed' has seen the plan finish and no suite fail.
PassedIsTrue == result = "passed" => plan = "finished" /\ verdict # "failed"

\* A run that is over, whoever called close() meanwhile and whatever failed, leaves
\* no connection, and no process but one whose launch was not answered, whose kill
\* failed, or that was launched after the user had called close().  If the user did
\* not call it, the listener has left, too.
CleanedUp ==
    run = "over" =>
        /\ link = "closed" /\ (process = "alive" => left # {})
        /\ ~userClosed => listener \in {"none", "ended"}

\* Who waits on the session is never left to wait: a started plan ends within
\* its timeout, a run in its finally ends, close() by the user ends a run that has
\* been launched and authorized, whatever it waits for, and close() itself ends.
Settles ==
    /\ run \in {"waiting", "closing"} ~> run = "over"
    /\ userClosed /\ run \notin {"launching", "authorizing"} ~> run = "over"
    /\ userClosed ~> closer["user"] = "done" /\ listener \in {"none", "ended"}

\* unit/testmanagerd.spec.ts:426: "should report timed_out when the exec
\* channel stays silent past timeoutMs": a run ends, whatever the device says.
RunEnds == <>(run = "over")
=============================================================================
