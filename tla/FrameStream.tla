---------------------------- MODULE FrameStream ----------------------------
(***************************************************************************)
(* What mjx-wk-transport's Transport trait promises of recv: the frames the *)
(* debuggee sent, in order; `None` when it has closed the connection and   *)
(* every frame has been returned; at most one error, and then nothing.     *)
(***************************************************************************)
EXTENDS Naturals, Sequences

CONSTANT MaxFrames   \* bound on the frames of a session

VARIABLES
    sent,   \* how many frames the debuggee has sent
    gone,   \* whether it has closed the connection
    got,    \* what recv has returned: frames, named by their number
    ended   \* how recv has ended, if it has

vars == <<sent, gone, got, ended>>

Init == sent = 0 /\ gone = FALSE /\ got = <<>> /\ ended = "open"

DebuggeeSends ==
    /\ ~gone
    /\ sent < MaxFrames
    /\ sent' = sent + 1
    /\ UNCHANGED <<gone, got, ended>>

DebuggeeLeaves == gone' = TRUE /\ UNCHANGED <<sent, got, ended>>

RecvReturnsFrame ==
    /\ ended = "open"
    /\ Len(got) < sent
    /\ got' = Append(got, Len(got) + 1)
    /\ UNCHANGED <<sent, gone, ended>>

RecvReturnsNone ==
    /\ ended = "open"
    /\ gone
    /\ Len(got) = sent
    /\ ended' = "none"
    /\ UNCHANGED <<sent, gone, got>>

RecvReturnsError ==
    /\ ended = "open"
    /\ ended' = "error"
    /\ UNCHANGED <<sent, gone, got>>

Next ==
    \/ DebuggeeSends \/ DebuggeeLeaves
    \/ RecvReturnsFrame \/ RecvReturnsNone \/ RecvReturnsError

Spec == Init /\ [][Next]_vars
=============================================================================
