------------------------------ MODULE Console ------------------------------
(***************************************************************************)
(* The console: the debuggee logs, the ConsoleAgent's task folds what it   *)
(* says into a bounded log and publishes a copy after each event, and the  *)
(* session host evaluates what the user types and puts the expression and  *)
(* its result into the published copy.                                     *)
(*                                                                         *)
(* Evaluations are routed by the debugger panel's published pause, which   *)
(* reaches the host some time after the debuggee stopped or went on.       *)
(***************************************************************************)
EXTENDS Naturals, Sequences, FiniteSets, SequencesExt

CONSTANTS
    Capacity,     \* MESSAGE_CAPACITY
    MaxSent,      \* bound on the events of the Console domain
    MaxRepeat,    \* bound on the repeat count of one message
    MaxStops,    \* bound on how often the debuggee stops
    MaxEvals      \* bound on the user's evaluations

ASSUME ConsoleConstants ==
    /\ Capacity \in Nat \ {0}
    /\ MaxSent \in Nat /\ MaxRepeat \in Nat /\ MaxStops \in Nat /\ MaxEvals \in Nat

VARIABLES
    sent,       \* the Console events that reach the agent, through a ring that may overrun
    enabled,    \* Console.enable was received
    halted,    \* the pause the debuggee is in, or 0
    pauses,     \* how many there were
    shown,      \* the pause in the debugger panel's published model
    folded,     \* how many of the events the agent's task folded
    log,        \* its model
    published,  \* the AgentSnapshot
    attached,   \* register has returned
    eval,       \* the host's evaluation under way
    evals       \* how many so far

pageVars == <<sent, enabled, halted, pauses, shown>>
logVars == <<folded, log, attached>>
hostVars == <<eval, evals>>
consoleVars == <<pageVars, logVars, published, hostVars>>

Message(n, count) == [what |-> "message", number |-> n, repeat |-> count]
Input(n) == [what |-> "input", number |-> n, repeat |-> 1]
Output(n) == [what |-> "output", number |-> n, repeat |-> 1]
Messages == [what : {"message", "input", "output"}, number : Nat, repeat : Nat \ {0}]

NewModel == [messages |-> <<>>, dropped |-> 0]
NoEval == [step |-> "idle", pause |-> 0, held |-> NewModel]

ConsoleInit ==
    /\ sent = <<>> /\ enabled = FALSE
    /\ halted = 0 /\ pauses = 0 /\ shown = 0
    /\ folded = 0 /\ log = NewModel /\ attached = FALSE
    /\ published = NewModel
    /\ eval = NoEval /\ evals = 0

-----------------------------------------------------------------------------
(* ConsoleModel *)

\* Faulty: the message that finds the log full is the one that is lost.
BadPush(model, message) ==
    IF Len(model.messages) >= Capacity
    THEN [model EXCEPT !.dropped = @ + 1]
    ELSE [model EXCEPT !.messages = Append(@, message)]

\* push: the oldest goes, and is counted.
Push(model, message) ==
    IF Len(model.messages) >= Capacity
    THEN [messages |-> Append(Tail(model.messages), message), dropped |-> model.dropped + 1]
    ELSE [model EXCEPT !.messages = Append(@, message)]

\* set_last_repeat_count; the caller has clamped the count.
SetLastRepeatCount(model, count) ==
    IF model.messages = <<>> THEN model
    ELSE [model EXCEPT !.messages[Len(model.messages)].repeat = count]

\* Faulty: starts counting afresh.
BadClearMessages(model) == NewModel

\* clear_messages: what the page clears is not lost to the bound.
ClearMessages(model) == [model EXCEPT !.messages = <<>>]

\* Faulty: the result alone.
BadRecordEvaluation(model, n) == Push(model, Output(n))

\* record_evaluation.
RecordEvaluation(model, n) == Push(Push(model, Input(n)), Output(n))

-----------------------------------------------------------------------------
(* The debuggee, external *)

\* How many messages there are among the first n events.
Said(events, n) == Cardinality({i \in 1..n : events[i].kind = "added"})

Says(e) ==
    /\ Len(sent) < MaxSent
    /\ sent' = Append(sent, e)
    /\ UNCHANGED <<enabled, halted, pauses, shown, logVars, published, hostVars>>

\* What it logged before Console.enable it keeps and says then.
Logs == enabled /\ Says([kind |-> "added", count |-> 1])

\* The count of whatever was said last, which may have been cleared, or never
\* got through the ring.
Repeats ==
    /\ enabled
    /\ \E count \in 2..MaxRepeat : Says([kind |-> "repeated", count |-> count])

Clears == enabled /\ Says([kind |-> "cleared", count |-> 1])

Stops ==
    /\ halted = 0 /\ pauses < MaxStops
    /\ pauses' = pauses + 1 /\ halted' = pauses + 1
    /\ UNCHANGED <<sent, enabled, shown, logVars, published, hostVars>>

GoesOn ==
    /\ halted # 0
    /\ halted' = 0
    /\ UNCHANGED <<sent, enabled, pauses, shown, logVars, published, hostVars>>

\* The debugger panel's agent publishes where the debuggee is, in the end.
PublishesPause ==
    /\ shown # halted
    /\ shown' = halted
    /\ UNCHANGED <<sent, enabled, halted, pauses, logVars, published, hostVars>>

-----------------------------------------------------------------------------
(* The agent *)

\* attach: Console.enable, with the subscription open already; `drained` is
\* what was logged before.
Attach ==
    /\ ~enabled
    /\ \E drained \in 0..MaxSent :
        /\ sent' = [i \in 1..drained |-> [kind |-> "added", count |-> 1]]
        /\ enabled' = TRUE
    /\ UNCHANGED <<halted, pauses, shown, logVars, published, hostVars>>

\* register returns: the snapshot is seeded, the task started.
Seed ==
    /\ enabled /\ ~attached
    /\ attached' = TRUE
    /\ published' = log
    /\ UNCHANGED <<pageVars, folded, log, hostVars>>

\* on_event: `n` counts the messages up to this event.
OnConsoleEvent(model, e, n) ==
    CASE e.kind = "added" -> Push(model, Message(n, e.count))
      [] e.kind = "repeated" -> SetLastRepeatCount(model, e.count)
      [] e.kind = "cleared" -> ClearMessages(model)

Folds ==
    /\ attached
    /\ folded < Len(sent)
    /\ folded' = folded + 1
    /\ log' = OnConsoleEvent(log, sent[folded + 1], Said(sent, folded + 1))
    /\ published' = log'
    /\ UNCHANGED <<pageVars, attached, hostVars>>

-----------------------------------------------------------------------------
(* The host: evaluate_expr *)

\* The frame of the pause that is shown, or none.
Asks ==
    /\ attached
    /\ eval.step = "idle" /\ evals < MaxEvals
    /\ evals' = evals + 1
    /\ eval' = [NoEval EXCEPT !.step = "call", !.pause = shown]
    /\ UNCHANGED <<pageVars, logVars, published>>

\* A frame of a pause that is over is refused; so may anything be.
Answered ==
    /\ eval.step = "call"
    /\ eval.pause \in {0, halted}
    /\ eval' = [eval EXCEPT !.step = "answered"]
    /\ UNCHANGED <<pageVars, logVars, published, evals>>

Refused ==
    /\ eval.step = "call"
    /\ eval' = NoEval
    /\ UNCHANGED <<pageVars, logVars, published, evals>>

\* The edit of the published model: a load,
Loads ==
    /\ eval.step = "answered"
    /\ eval' = [eval EXCEPT !.step = "store", !.held = published]
    /\ UNCHANGED <<pageVars, logVars, published, evals>>

\* and a store, over whatever the agent published in between.
Stores ==
    /\ eval.step = "store"
    /\ published' = RecordEvaluation(eval.held, evals)
    /\ eval' = NoEval
    /\ UNCHANGED <<pageVars, logVars, evals>>

ConsoleNext ==
    \/ Logs \/ Repeats \/ Clears \/ Stops \/ GoesOn \/ PublishesPause
    \/ Attach \/ Seed \/ Folds
    \/ Asks \/ Answered \/ Refused \/ Loads \/ Stores

ConsoleSpec == ConsoleInit /\ [][ConsoleNext]_consoleVars

-----------------------------------------------------------------------------
(* What the console promises *)

Model == [messages : Seq(Messages), dropped : Nat]

\* The state has its declared shape.  [ConsoleModel]
ConsoleTyped ==
    /\ folded \in 0..Len(sent)
    /\ log \in Model /\ published \in Model /\ eval.held \in Model
    /\ Len(log.messages) <= Capacity /\ Len(published.messages) <= Capacity
    /\ Len(eval.held.messages) <= Capacity
    /\ eval.step \in {"idle", "call", "answered", "store"} /\ eval.pause \in 0..pauses
    /\ halted \in 0..pauses /\ shown \in 0..pauses
    /\ evals \in 0..MaxEvals

\* The messages since the last clearing.
SaidSince(events, n) ==
    Cardinality({i \in 1..n : events[i].kind = "added" /\ \A j \in i..n : events[j].kind # "cleared"})

\* What a log of the first n events should be, from the events alone: of the
\* messages since the last clearing the newest, each with the count it was
\* last given, and how many messages were followed by so many that there was
\* no room for them, before the page cleared the console.
Kept(events, n) == IF SaidSince(events, n) > Capacity THEN Capacity ELSE SaidSince(events, n)
Mentions(events, n, x) == {j \in 1..n : events[j].kind # "cleared" /\ Said(events, j) = x}
FinalCount(events, n, x) ==
    events[CHOOSE j \in Mentions(events, n, x) : \A k \in Mentions(events, n, x) : k <= j].count
Lost(events, n) ==
    {x \in 1..Said(events, n) :
        \E to \in 1..n : /\ Said(events, to) < x + SaidSince(events, to)
                         /\ x + Capacity <= Said(events, to)}
Expected(events, n) ==
    LET gone == Said(events, n) - Kept(events, n)
    IN  [messages |-> [k \in 1..Kept(events, n) |->
                          Message(gone + k, FinalCount(events, n, gone + k))],
         dropped |-> Cardinality(Lost(events, n))]

\* The agent's log is what its events amount to: the newest messages, oldest
\* first, each with its own repeat count, and no message gone uncounted --
\* those buffered before it attached included.  [push, set_last_repeat_count,
\* clear_messages, register]
LogIsHonest == log = Expected(sent, folded)

\* An expression is followed by its own result; a result without its expression
\* is the oldest row.
Paired(rows) ==
    \A i \in DOMAIN rows :
        /\ rows[i].what = "input" => i < Len(rows) /\ rows[i + 1] = Output(rows[i].number)
        /\ (rows[i].what = "output" /\ i > 1) => rows[i - 1] = Input(rows[i].number)

\* The messages among the rows come first, and are the newest of a log.
NewestOf(rows, messages) ==
    LET m == Cardinality({i \in DOMAIN rows : rows[i].what = "message"})
    IN  m <= Len(messages) /\ \A i \in 1..m : rows[i] = messages[Len(messages) - m + i]

\* However host and agent overtake each other, what is published is a log the
\* agent once had, with evaluations after it, expressions with their results,
\* and nothing gone uncounted.  [evaluate_expr, record_evaluation, run_agent]
PublishedAddsUp ==
    /\ Paired(published.messages)
    /\ \E n \in 0..folded, p \in 0..evals :
        LET was == Expected(sent, n)
        IN  /\ NewestOf(published.messages, was.messages)
            /\ published.dropped >= was.dropped
            /\ published.dropped + Len(published.messages) = was.dropped + Len(was.messages) + 2 * p
=============================================================================
