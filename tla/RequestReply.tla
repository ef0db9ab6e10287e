---------------------------- MODULE RequestReply ----------------------------
(***************************************************************************)
(* What a connection that serves several callers at once promises them: a  *)
(* request goes out at most once, is answered at most once, and a call     *)
(* settles once, with the reply to its own request or with an error.       *)
(* Requests and replies may be lost, calls may give up at any time, and    *)
(* several at once; the reply to a call that gave up reaches nobody.       *)
(***************************************************************************)
CONSTANTS Calls, None

VARIABLES
    stage,    \* per call: new, asked, replied or failed
    reply,    \* per call: whose request its reply answers
    pending   \* calls whose request may still be answered

requestVars == <<stage, reply, pending>>

Init ==
    /\ stage = [c \in Calls |-> "new"]
    /\ reply = [c \in Calls |-> None]
    /\ pending = {}

Ask(c) ==
    /\ stage[c] = "new" /\ stage' = [stage EXCEPT ![c] = "asked"]
    /\ pending' \subseteq pending \cup {c}
    /\ UNCHANGED reply

Answer(c) ==
    /\ stage[c] = "asked" /\ stage' = [stage EXCEPT ![c] = "replied"]
    /\ reply' = [reply EXCEPT ![c] = c]
    /\ c \in pending /\ pending' \subseteq pending \ {c}

\* Calls that have not settled fail, or only requests are lost.
GiveUp(S) ==
    /\ \A c \in S : stage[c] \in {"new", "asked"}
    /\ stage' = [c \in Calls |-> IF c \in S THEN "failed" ELSE stage[c]]
    /\ pending' \subseteq pending
    /\ UNCHANGED reply

Next ==
    \/ \E c \in Calls : Ask(c) \/ Answer(c)
    \/ \E S \in SUBSET Calls : GiveUp(S)

Spec == Init /\ [][Next]_requestVars
=============================================================================
