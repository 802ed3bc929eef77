-------------------------------- MODULE Clicks --------------------------------
(***************************************************************************)
(* What the user clicks on in the breakpoint list, the gutter and the call *)
(* stack.  The panels share nothing but the host, which handles what was   *)
(* clicked when its turn has come.                                         *)
(***************************************************************************)
EXTENDS Marks, CallStack

clicksVars == <<marksVars, stackVars>>

ClicksInit == MarksInit /\ StackInit

ClicksNext ==
    \/ MarksNext /\ UNCHANGED stackVars
    \/ StackNext /\ UNCHANGED marksVars

ClicksSpec == ClicksInit /\ [][ClicksNext]_clicksVars

\* The debuggee holds the breakpoints that are shown, and those that were lost by
\* a failed removal or under the agent's publication; and a click or an edit
\* reaches the breakpoint it was meant for, and only that one, however long it
\* waits, unless the debuggee had moved it.  The call stack's rows stand for all
\* frames in order, hidden ones counted; a frame that exists is selected, and a
\* click on one selects it, whatever is published before, but another pause.
\* [toggle_breakpoint, remove_line_bp, update_breakpoint_spec, paint_frames,
\* select_frame, "selection is unchanged"]
ClicksReachWhatTheyShow ==
    MarksAreHeld /\ RequestsReachTheirMark /\ FramesAreShown /\ SelectionIsReal
=============================================================================
