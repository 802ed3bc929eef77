---------------------------- MODULE CallService ----------------------------
(***************************************************************************)
(* What SessionHandle::call promises its callers, with no channel, table   *)
(* or task: a call that is accepted stays open until it gets exactly one   *)
(* outcome or its caller gives up; a debuggee's reply is an outcome only   *)
(* of a call that the debuggee answered and only while the session is up;  *)
(* and once the session is down, no call becomes or stays open for long.   *)
(***************************************************************************)
CONSTANTS Calls

VARIABLES
    status,    \* [Calls -> Statuses]
    answered,  \* calls the debuggee has answered
    up         \* whether the session still serves

vars == <<status, answered, up>>

Statuses == {"new", "open", "given up", "replied", "refused", "failed"}

Init ==
    /\ status = [c \in Calls |-> "new"]
    /\ answered = {}
    /\ up = TRUE

Become(S, s) == status' = [c \in Calls |-> IF c \in S THEN s ELSE status[c]]

\* The member is unavailable: refused, the debuggee never hears of it.
Refuse(c) ==
    /\ status[c] = "new"
    /\ Become({c}, "refused")
    /\ UNCHANGED <<answered, up>>

Accept(c) ==
    /\ status[c] = "new"
    /\ Become({c}, "open")
    /\ UNCHANGED <<answered, up>>

\* The debuggee answers a call it was sent, wanted or no longer wanted.
Answer(c) ==
    /\ status[c] \notin {"new", "refused"}
    /\ answered' = answered \cup {c}
    /\ UNCHANGED <<status, up>>

Deliver(c) ==
    /\ up
    /\ status[c] = "open"
    /\ c \in answered
    /\ Become({c}, "replied")
    /\ UNCHANGED <<answered, up>>

GiveUp(c) ==
    /\ status[c] = "open"
    /\ Become({c}, "given up")
    /\ UNCHANGED <<answered, up>>

\* A local failure of one call, the session surviving it.
Fail(c) ==
    /\ status[c] = "open"
    /\ Become({c}, "failed")
    /\ UNCHANGED <<answered, up>>

\* The session ends and takes open calls with it.
GoDown(S) ==
    /\ up
    /\ \A c \in S : status[c] = "open"
    /\ Become(S, "failed")
    /\ up' = FALSE
    /\ UNCHANGED answered

\* Calls that were still on their way when it ended fail too.
FailLate(S) ==
    /\ ~up
    /\ \A c \in S : status[c] = "open"
    /\ Become(S, "failed")
    /\ UNCHANGED <<answered, up>>

Next ==
    \/ \E c \in Calls : Refuse(c) \/ Accept(c) \/ Answer(c) \/ Deliver(c) \/ GiveUp(c) \/ Fail(c)
    \/ \E S \in SUBSET Calls : GoDown(S) \/ FailLate(S)

Spec == Init /\ [][Next]_vars
=============================================================================
