------------------------------ MODULE CallStack ------------------------------
(***************************************************************************)
(* The call stack: what the agent makes of a pause, the rows the panel     *)
(* draws of it, and the frame the user selects among them.  The selection  *)
(* is the host's, in the model it publishes over the agent's; a row names  *)
(* its frame by a number, which is looked up when the click's turn comes.  *)
(*                                                                         *)
(* A frame is its function.  `of` is history: the frame clicked on.        *)
(***************************************************************************)
EXTENDS Naturals, Sequences, SequencesExt

CONSTANTS
    Blackboxed,   \* functions in sources the user does not want to see
    PauseEvents   \* pauses: their frames, and their async traces

StackFrame(pause, place, function) ==
    [pause |-> pause, place |-> place, hidden |-> function \in Blackboxed]

Running == [pause |-> 0, frames |-> <<>>, async |-> <<>>, selected |-> 1]

\* flatten_async_stack: a trace, then its parents'.
FlattenAsyncStack(pause, traces) ==
    LET functions == FlattenSeq(traces)
    IN  [i \in 1..Len(functions) |-> StackFrame(pause, i, functions[i])]

\* from_paused.
FromPaused(pause, event) ==
    [pause |-> pause,
     frames |-> [i \in 1..Len(event.frames) |-> StackFrame(pause, i, event.frames[i])],
     async |-> FlattenAsyncStack(pause, event.async),
     selected |-> 1]

ASSUME StackConstants ==
    \A event \in PauseEvents : Len(event.frames) \in Nat /\ Len(FlattenSeq(event.async)) \in Nat

VARIABLES
    folded,      \* the agent's own state
    stack,       \* what is published
    showsAll,    \* whether the panel shows hidden frames
    selections,  \* clicks on their way
    pauses       \* how many there were

stackVars == <<folded, stack, showsAll, selections, pauses>>

StackInit ==
    /\ folded = Running /\ stack = Running
    /\ showsAll = FALSE /\ selections = <<>> /\ pauses = 0

-----------------------------------------------------------------------------
(* The panel *)

FrameRow(i) == [row |-> "frame", number |-> i]
AsyncRow(i) == [row |-> "async", number |-> i]
ShowMore(n) == IF n = 0 THEN <<>> ELSE <<[row |-> "more", number |-> n]>>

\* One turn of the loop over the frames: a hidden one makes a run of such longer,
\* another is drawn below it.
Paint(done, i, hides) ==
    IF hides THEN [done EXCEPT !.run = @ + 1]
    ELSE [rows |-> Append(done.rows \o ShowMore(done.run), FrameRow(i)), run |-> 0]

AsyncRows(state) == [i \in 1..Len(state.async) |-> AsyncRow(i)]

\* Faulty: a row's number counts the rows, not the frames.
BadPaintFrames(state, everything) ==
    LET drawn == SelectSeq(state.frames, LAMBDA f : everything \/ ~f.hidden)
    IN  [i \in 1..Len(drawn) |-> FrameRow(i)]
          \o ShowMore(Len(state.frames) - Len(drawn)) \o AsyncRows(state)

\* paint_frames: runs of hidden frames stand behind a row of their own.
PaintFrames(state, everything) ==
    LET painted[i \in 0..Len(state.frames)] ==
            IF i = 0 THEN [rows |-> <<>>, run |-> 0]
            ELSE Paint(painted[i - 1], i, state.frames[i].hidden /\ ~everything)
        last == painted[Len(state.frames)]
    IN  last.rows \o ShowMore(last.run) \o AsyncRows(state)

ShownRows == PaintFrames(stack, showsAll)

\* A click on a row; nothing happens on an async one.
ClickFrame ==
    /\ \E k \in 1..Len(ShownRows) :
          /\ ShownRows[k].row = "frame"
          /\ LET n == ShownRows[k].number
             IN  selections' = Append(selections, [number |-> n, of |-> stack.frames[n]])
    /\ UNCHANGED <<folded, stack, showsAll, pauses>>

ClickMore ==
    /\ \E k \in 1..Len(ShownRows) : ShownRows[k].row = "more"
    /\ showsAll' = TRUE
    /\ UNCHANGED <<folded, stack, selections, pauses>>

-----------------------------------------------------------------------------
(* The host and the agent *)

\* Faulty: one frame too far.
BadSelectFrame(state, number) ==
    IF number <= Len(state.frames) + 1 THEN [state EXCEPT !.selected = number] ELSE state

\* select_frame, of the pause that is published now.
SelectFrame(state, number) ==
    IF number <= Len(state.frames) THEN [state EXCEPT !.selected = number] ELSE state

\* The frame's source is then opened, which is Shell's.
HostSelects ==
    /\ selections # <<>>
    /\ stack' = SelectFrame(stack, Head(selections).number)
    /\ selections' = Tail(selections)
    /\ UNCHANGED <<folded, showsAll, pauses>>

\* Events: a pause, its end, and any other; the agent then publishes its own
\* state, in which the first frame is selected.
StackPublished(state) ==
    /\ folded' = state /\ stack' = state
    /\ UNCHANGED <<showsAll, selections>>

PausesOn == \E event \in PauseEvents :
    StackPublished(FromPaused(pauses + 1, event)) /\ pauses' = pauses + 1
RunsOn == StackPublished(Running) /\ UNCHANGED pauses
OtherEvent == StackPublished(folded) /\ UNCHANGED pauses

StackNext == ClickFrame \/ ClickMore \/ HostSelects \/ PausesOn \/ RunsOn \/ OtherEvent

StackSpec == StackInit /\ [][StackNext]_stackVars

-----------------------------------------------------------------------------
(* What the user may rely on *)

\* The frames a row stands for, when `above` of them are above it, and whether
\* they are behind it.
StandsFor(row, above) ==
    CASE row.row = "frame" -> << <<row.number, FALSE>> >>
      [] row.row = "more" -> [i \in 1..row.number |-> <<above + i, TRUE>>]
      [] OTHER -> <<>>

\* Those all rows stand for.
StoodFor(rows) ==
    LET seen[k \in 0..Len(rows)] ==
            IF k = 0 THEN <<>> ELSE seen[k - 1] \o StandsFor(rows[k], Len(seen[k - 1]))
    IN  seen[Len(rows)]

\* The rows stand for all frames in their order, for a run of hidden ones together
\* unless they are shown, and for the async ones below.
FramesAreShown ==
    /\ StoodFor(ShownRows) =
         [i \in 1..Len(stack.frames) |-> <<i, stack.frames[i].hidden /\ ~showsAll>>]
    /\ \A k \in 1..Len(ShownRows) - 1 :
          ShownRows[k].row = "more" => ShownRows[k + 1].row # "more"
    /\ \A i \in 1..Len(stack.async) :
          ShownRows[Len(ShownRows) - Len(stack.async) + i] = AsyncRow(i)

HasSelection(state) == state.frames # <<>> => state.selected \in 1..Len(state.frames)

\* Of the frames there are one is selected; and a click that waits selects the
\* frame it was on, unless another pause is shown by then.
SelectionIsReal ==
    /\ HasSelection(stack)
    /\ \A k \in 1..Len(selections) :
          LET click == selections[k]
              after == SelectFrame(stack, click.number)
          IN  /\ HasSelection(after)
              /\ click.of.pause = after.pause => after.frames[after.selected] = click.of
=============================================================================
