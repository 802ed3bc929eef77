----------------------------- MODULE DebugHost -----------------------------
(***************************************************************************)
(* The debugger panel's model and the two that write it: the DebugAgent's  *)
(* task, which folds the Debugger domain's events into a private model and *)
(* publishes a copy after each, and the session host, which carries out    *)
(* the user's actions one at a time and edits the published copy.          *)
(*                                                                         *)
(* Both write one ArcSwap.  A store is atomic, but every edit of the host  *)
(* loads first and stores later, with a call to the debuggee in between or *)
(* with nothing but the other thread's luck.                               *)
(***************************************************************************)
EXTENDS Naturals, Sequences, SequencesExt

CONSTANTS
    Lines,       \* source lines a breakpoint may be toggled on
    NoModel,     \* what is published before the agent registers
    MaxPause,    \* bound on the pauses of the debuggee
    MaxBp,       \* bound on the breakpoint ids it hands out
    MaxNoise,    \* bound on its events that change nothing
    MaxActions,  \* bound on the user's actions
    Capacity     \* EVENT_BROADCAST_CAPACITY

ASSUME HostConstants ==
    /\ Lines # {}
    /\ MaxPause \in Nat /\ MaxBp \in Nat /\ MaxNoise \in Nat /\ MaxActions \in Nat
    /\ Capacity \in Nat \ {0}

VARIABLES
    \* the debuggee
    stopped,    \* the pause it is in, or Running
    bps,        \* breakpoints it holds
    armed,      \* Debugger.setBreakpointsActive
    emits,      \* Debugger.enable was received
    counts,     \* how many pauses, ids and idle events so far
    \* the events' way to the agent
    ring,       \* the broadcast channel, as its subscription sees it
    lagged,     \* whether the ring ever overwrote an unread event
    queue,      \* event_rx of the agent's task
    \* the agent
    agentPc,    \* how far AgentRegistry::register is
    agent,      \* DebugAgent's private model
    published,  \* the AgentSnapshot
    \* the host
    op,         \* the action under way
    actions     \* how many actions so far

debuggeeVars == <<stopped, bps, armed, emits, counts>>
eventVars == <<ring, lagged, queue>>
agentVars == <<agentPc, agent>>
hostVars == <<op, actions>>
vars == <<debuggeeVars, eventVars, agentVars, published, hostVars>>

Running == 0
Pauses == 1..MaxPause
Marks == [line : Lines, id : 1..MaxBp]

\* DebugModel: the parts host and agent both write.  `values` is the pause the
\* properties in its value tree were fetched in.
Models == [marks : SUBSET Marks, paused : Pauses \cup {Running}, frame : {0, 1},
           values : Pauses \cup {Running}, active : BOOLEAN, watches : 0..MaxActions]
Fresh == [marks |-> {}, paused |-> Running, frame |-> 0, values |-> Running,
          active |-> FALSE, watches |-> 0]

Events == [kind : {"paused"}, pause : Pauses] \cup [kind : {"resumed", "other"}, pause : {Running}]
Event(k, n) == [kind |-> k, pause |-> n]

AgentPcs == {"new", "subscribed", "enabled", "running", "failed"}
Subscribed == agentPc \notin {"new", "failed"}

\* "call": the request is on its way.  "answered": the reply is.  "load" and
\* "store": the two halves of an edit of the published model.
Steps == {"idle", "call", "answered", "load", "store"}
OpKinds == {"none", "set", "remove", "active", "frame", "spec", "watch", "unwatch", "expand",
            "resume", "pause"}
Idle == [step |-> "idle", kind |-> "none", line |-> CHOOSE l \in Lines : TRUE,
         id |-> 0, ok |-> FALSE, held |-> Fresh]

Init ==
    /\ stopped = Running
    /\ bps = {}
    /\ armed = FALSE
    /\ emits = FALSE
    /\ counts = [pauses |-> 0, ids |-> 0, noise |-> 0]
    /\ ring = <<>>
    /\ lagged = FALSE
    /\ queue = <<>>
    /\ agentPc = "new"
    /\ agent = Fresh
    /\ published = NoModel
    /\ op = Idle
    /\ actions = 0

-----------------------------------------------------------------------------
(* Events *)

\* The session task broadcasts: every subscription gets the event, a full one
\* loses its oldest.
Emits(e) ==
    IF emits /\ Subscribed
    THEN /\ ring' = IF Len(ring) = Capacity THEN Append(Tail(ring), e) ELSE Append(ring, e)
         /\ lagged' = (lagged \/ Len(ring) = Capacity)
    ELSE UNCHANGED <<ring, lagged>>

\* The registry's forwarding task.
Forwards ==
    /\ ring # <<>>
    /\ queue' = Append(queue, Head(ring))
    /\ ring' = Tail(ring)
    /\ UNCHANGED <<debuggeeVars, lagged, agentVars, published, hostVars>>

-----------------------------------------------------------------------------
(* The debuggee, external *)

Stops ==
    /\ stopped = Running
    /\ emits
    /\ counts.pauses < MaxPause
    /\ counts' = [counts EXCEPT !.pauses = @ + 1]
    /\ stopped' = counts.pauses + 1
    /\ Emits(Event("paused", counts.pauses + 1))

Continues ==
    /\ stopped # Running
    /\ stopped' = Running
    /\ Emits(Event("resumed", Running))
    /\ UNCHANGED counts

\* It pauses or goes on by itself: a breakpoint, a timer, a navigation.
DebuggeeMoves ==
    /\ Stops \/ Continues
    /\ UNCHANGED <<bps, armed, emits, queue, agentVars, published, hostVars>>

\* A scriptParsed or breakpointResolved: folded without effect, published anew.
DebuggeeNoise ==
    /\ emits
    /\ counts.noise < MaxNoise
    /\ counts' = [counts EXCEPT !.noise = @ + 1]
    /\ Emits(Event("other", Running))
    /\ UNCHANGED <<stopped, bps, armed, emits, queue, agentVars, published, hostVars>>

-----------------------------------------------------------------------------
(* AgentRegistry::register and run_agent *)

\* subscribe_domain, before attach.
Subscribes ==
    /\ agentPc = "new"
    /\ agentPc' = "subscribed"
    /\ UNCHANGED <<debuggeeVars, eventVars, agent, published, hostVars>>

\* Faulty: enables the domain before it subscribes.
BadEnables ==
    /\ \/ /\ agentPc = "subscribed"
          /\ emits
          /\ agentPc' = "enabled"
          /\ armed' = TRUE
          /\ agent' = [agent EXCEPT !.active = TRUE]
          /\ UNCHANGED emits
       \/ /\ agentPc = "new"
          /\ emits' = TRUE
          /\ UNCHANGED <<agentPc, armed, agent>>
    /\ UNCHANGED <<stopped, bps, counts, eventVars, published, hostVars>>

\* attach: Debugger.enable, then setBreakpointsActive.
Enables ==
    /\ agentPc = "subscribed"
    /\ IF emits
       THEN /\ agentPc' = "enabled"
            /\ armed' = TRUE
            /\ agent' = [agent EXCEPT !.active = TRUE]
            /\ UNCHANGED emits
       ELSE /\ emits' = TRUE
            /\ UNCHANGED <<agentPc, armed, agent>>
    /\ UNCHANGED <<stopped, bps, counts, eventVars, published, hostVars>>

\* attach returns an error: no agent, no model, and nobody reads the events.
AttachFails ==
    /\ agentPc = "subscribed"
    /\ agentPc' = "failed"
    /\ ring' = <<>>
    /\ queue' = <<>>
    /\ UNCHANGED <<debuggeeVars, lagged, agent, published, hostVars>>

\* The snapshot is seeded and the agent's task spawned; the host has it now.
Seeds ==
    /\ agentPc = "enabled"
    /\ agentPc' = "running"
    /\ published' = agent
    /\ UNCHANGED <<debuggeeVars, eventVars, agent, hostVars>>

\* on_event: a new pause starts at its top frame with nothing expanded.
Folded(m, e) ==
    IF e.kind = "other" THEN m
    ELSE [m EXCEPT !.paused = e.pause, !.frame = 0, !.values = Running]

\* Faulty: publishes before it folds.
BadAgentFolds ==
    /\ agentPc = "running"
    /\ queue # <<>>
    /\ agent' = Folded(agent, Head(queue))
    /\ published' = agent
    /\ queue' = Tail(queue)
    /\ UNCHANGED <<debuggeeVars, ring, lagged, agentPc, hostVars>>

\* run_agent: fold the next event, publish a copy of the private model.
AgentFolds ==
    /\ agentPc = "running"
    /\ queue # <<>>
    /\ agent' = Folded(agent, Head(queue))
    /\ published' = agent'
    /\ queue' = Tail(queue)
    /\ UNCHANGED <<debuggeeVars, ring, lagged, agentPc, hostVars>>

-----------------------------------------------------------------------------
(* handle_action *)

Begins(next) ==
    /\ op.step = "idle"
    /\ published # NoModel
    /\ actions < MaxActions
    /\ actions' = actions + 1
    /\ op' = next
    /\ UNCHANGED <<debuggeeVars, eventVars, agentVars, published>>

\* toggle_breakpoint with a mark on the line: the model loaded now is the one
\* that will be edited and stored, after the call.
TogglesOff(l) ==
    \E m \in published.marks :
        /\ m.line = l
        /\ Begins([Idle EXCEPT !.step = "call", !.kind = "remove", !.line = l,
                               !.id = m.id, !.held = published])

\* toggle_breakpoint without one: the loaded model is let go.
TogglesOn(l) ==
    /\ \A m \in published.marks : m.line # l
    /\ Begins([Idle EXCEPT !.step = "call", !.kind = "set", !.line = l])

SetsActive(b) ==
    Begins([Idle EXCEPT !.step = "call", !.kind = "active", !.ok = b])

\* expand_value: the model, with the tree of scope roots put in place, is held
\* across getProperties.
Expands ==
    /\ published.paused # Running
    /\ Begins([Idle EXCEPT !.step = "call", !.kind = "expand", !.held = published])

\* Step, Resume, Pause and ContinueTo call and edit nothing.
Commands(k) == Begins([Idle EXCEPT !.step = "call", !.kind = k])

\* SelectFrame, AddWatch, RemoveWatch and the edit of a breakpoint's spec call
\* nothing.
Edits(k) ==
    /\ k = "frame" => published.paused # Running
    /\ \E l \in Lines :
        /\ IF k = "spec" THEN \E m \in published.marks : m.line = l ELSE l = Idle.line
        /\ Begins([Idle EXCEPT !.step = "load", !.kind = k, !.line = l])

UserActs ==
    /\ published # NoModel
    /\ \/ \E l \in Lines : TogglesOff(l) \/ TogglesOn(l)
       \/ \E b \in BOOLEAN : SetsActive(b)
       \/ Expands
       \/ \E k \in {"resume", "pause"} : Commands(k)
       \/ \E k \in {"frame", "spec", "watch", "unwatch"} : Edits(k)

Answers(next) ==
    /\ op.step = "call"
    /\ op' = [next EXCEPT !.step = "answered"]
    /\ UNCHANGED <<emits, queue, agentVars, published, actions>>

\* The debuggee does what it was asked, or refuses; the host's call returns.
AnswersSet ==
    /\ op.kind = "set"
    /\ \/ /\ counts.ids < MaxBp
          /\ ~\E m \in bps : m.line = op.line
          /\ counts' = [counts EXCEPT !.ids = @ + 1]
          /\ bps' = bps \cup {[line |-> op.line, id |-> counts.ids + 1]}
          /\ Answers([op EXCEPT !.ok = TRUE, !.id = counts.ids + 1])
       \/ Answers(op) /\ UNCHANGED <<bps, counts>>
    /\ UNCHANGED <<stopped, armed, ring, lagged>>

AnswersRemove ==
    /\ op.kind = "remove"
    /\ bps' \in {bps, {m \in bps : m.id # op.id}}
    /\ Answers(op)
    /\ UNCHANGED <<stopped, armed, counts, ring, lagged>>

AnswersActive ==
    /\ op.kind = "active"
    /\ armed' \in {armed, op.ok}
    /\ Answers(op)
    /\ UNCHANGED <<stopped, bps, counts, ring, lagged>>

\* A handle of a pause that is over is refused.
AnswersExpand ==
    /\ op.kind = "expand"
    /\ Answers([op EXCEPT !.ok = (stopped = op.held.paused), !.id = stopped])
    /\ UNCHANGED <<stopped, bps, armed, counts, ring, lagged>>

AnswersCommand ==
    /\ op.kind \in {"resume", "pause"}
    /\ Answers(op)
    /\ \/ op.kind = "resume" /\ Continues
       \/ op.kind = "pause" /\ Stops
       \/ UNCHANGED <<stopped, counts, ring, lagged>>
    /\ UNCHANGED <<bps, armed>>

DebuggeeAnswers ==
    AnswersSet \/ AnswersRemove \/ AnswersActive \/ AnswersExpand \/ AnswersCommand

\* Faulty: an expansion is applied to whatever is published by then.
BadHostResumes ==
    /\ op.step = "answered"
    /\ op' = IF op.kind \in {"resume", "pause"} \/ (op.kind \in {"set", "expand"} /\ ~op.ok)
             THEN Idle
             ELSE [op EXCEPT !.step = IF op.kind = "remove" THEN "store" ELSE "load"]
    /\ UNCHANGED <<debuggeeVars, eventVars, agentVars, published, actions>>

\* The host has its reply.  What it edits it reloads first, except where the
\* model was held across the call.
HostResumes ==
    /\ op.step = "answered"
    /\ op' = IF op.kind \in {"resume", "pause"} \/ (op.kind \in {"set", "expand"} /\ ~op.ok)
             THEN Idle
             ELSE [op EXCEPT !.step = IF op.kind \in {"remove", "expand"} THEN "store" ELSE "load"]
    /\ UNCHANGED <<debuggeeVars, eventVars, agentVars, published, actions>>

HostLoads ==
    /\ op.step = "load"
    /\ op' = [op EXCEPT !.step = "store", !.held = published]
    /\ UNCHANGED <<debuggeeVars, eventVars, agentVars, published, actions>>

\* Faulty: a removal keeps the mark.
BadWithoutLine(marks, l) == marks

\* remove_line_bp.
WithoutLine(marks, l) == {m \in marks : m.line # l}

\* RemoveWatch: an index past the end removes nothing.
WithoutWatch(n) == IF n = 0 THEN 0 ELSE n - 1

\* What the action makes of the model it holds.
Edited(m) ==
    CASE op.kind = "set"     -> [m EXCEPT !.marks = @ \cup {[line |-> op.line, id |-> op.id]}]
      [] op.kind = "remove"  -> [m EXCEPT !.marks = WithoutLine(@, op.line)]
      [] op.kind = "active"  -> [m EXCEPT !.active = op.ok]
      [] op.kind = "frame"   -> [m EXCEPT !.frame = 1]
      [] op.kind = "spec"    -> m
      [] op.kind = "watch"   -> [m EXCEPT !.watches = @ + 1]
      [] op.kind = "unwatch" -> [m EXCEPT !.watches = WithoutWatch(@)]
      [] op.kind = "expand"  -> [m EXCEPT !.values = op.id]

\* The pause of the frame, or the breakpoint, may be gone since the click.
NothingToEdit(m) ==
    \/ op.kind = "frame" /\ m.paused = Running
    \/ op.kind = "spec" /\ \A mark \in m.marks : mark.line # op.line

HostStores ==
    /\ op.step = "store"
    /\ published' = IF NothingToEdit(op.held) THEN published ELSE Edited(op.held)
    /\ op' = Idle
    /\ UNCHANGED <<debuggeeVars, eventVars, agentVars, actions>>

HostStep == HostResumes \/ HostLoads \/ HostStores

-----------------------------------------------------------------------------
Next ==
    \/ Forwards
    \/ DebuggeeMoves \/ DebuggeeNoise \/ DebuggeeAnswers
    \/ Subscribes \/ Enables \/ AttachFails \/ Seeds \/ AgentFolds
    \/ UserActs \/ HostStep

Spec == Init /\ [][Next]_vars

\* The runtime's tasks go on and the debuggee answers; it need not pause and
\* the user need not act.
FairSpec ==
    /\ Spec
    /\ WF_vars(Forwards) /\ WF_vars(AgentFolds)
    /\ WF_vars(Subscribes) /\ WF_vars(Enables) /\ WF_vars(Seeds)
    /\ WF_vars(DebuggeeAnswers) /\ WF_vars(HostStep)

-----------------------------------------------------------------------------
\* The state has its declared shape; in particular no edit leaves the model
\* outside its range.  [DebugModel, AgentSnapshot]
TypeOK ==
    /\ stopped \in Pauses \cup {Running}
    /\ bps \subseteq Marks
    /\ armed \in BOOLEAN
    /\ emits \in BOOLEAN
    /\ counts \in [pauses : 0..MaxPause, ids : 0..MaxBp, noise : 0..MaxNoise]
    /\ ring \in Seq(Events) /\ Len(ring) <= Capacity
    /\ lagged \in BOOLEAN
    /\ queue \in Seq(Events)
    /\ agentPc \in AgentPcs
    /\ agent \in Models
    /\ published = NoModel \/ published \in Models
    /\ op \in [step : Steps, kind : OpKinds, line : Lines, id : 0..(MaxBp + MaxPause),
               ok : BOOLEAN, held : Models]
    /\ actions \in 0..MaxActions

\* Where folding events over a pause leads: to what the last of them that is
\* no idle one says, and nowhere without such an event.
Leads(from, events, to) ==
    LET moves == {k \in DOMAIN events : events[k].kind # "other"}
    IN  /\ moves = {} => from = to
        /\ \A k \in moves : (\A j \in moves : j <= k) => events[k].pause = to

\* Unless the ring overran, no pause or resume is lost on the way: folding
\* what is under way over the agent's model yields the debuggee's state, from
\* the first event Debugger.enable lets through.  [AgentRegistry::register,
\* "Domain subscriptions are opened **before** `attach`"; DebugAgent::on_event]
AgentCatchesUp ==
    (Subscribed /\ ~lagged) => Leads(agent.paused, queue \o ring, stopped)

\* Between actions every mark the gutter shows is a breakpoint the debuggee
\* holds: an edit stored late never brings back a removed one.
\* [toggle_breakpoint, expand_value]
MarksAreReal ==
    (op.step = "idle" /\ published # NoModel) => published.marks \subseteq bps

\* The values shown below a pause were fetched in that pause, though either
\* writer may have stored a model meanwhile.  [expand_value, which holds its
\* model across getProperties; DebugAgent::handle_paused]
ValuesOfThePauseShown ==
    published # NoModel => published.values \in {Running, published.paused}

OnItsWay(p) == Event("paused", p) \in ToSet(ring) \cup ToSet(queue)

\* A pause that was broadcast to the agent is shown at some time, whatever
\* the host loads and stores meanwhile, unless the ring overran or there is no
\* agent.  (It need not stay: see PauseShownIsReal.)  [run_agent]
PauseReachesUser ==
    \A p \in Pauses :
        OnItsWay(p) ~> \/ published # NoModel /\ published.paused = p
                       \/ lagged \/ agentPc = "failed"

-----------------------------------------------------------------------------
\* With every event folded and no action under way, what is shown as paused
\* is paused.  This does not hold: an edit that loaded before the agent folded
\* a resume is stored after it.  [expand_value, SelectFrame, AddWatch...]
PauseShownIsReal ==
    (op.step = "idle" /\ agentPc = "running" /\ ~lagged /\ ring = <<>> /\ queue = <<>>)
        => published.paused \in {Running, stopped}
=============================================================================
