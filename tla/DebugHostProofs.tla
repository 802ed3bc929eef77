-------------------------- MODULE DebugHostProofs --------------------------
(***************************************************************************)
(* Theorems about DebugHost, for every set of lines and every number of    *)
(* pauses, breakpoints and actions: what two writers who overwrite each    *)
(* other's models can still be relied upon not to show, and that no event  *)
(* is lost on its way to the first of them.  About HighlightCache, for     *)
(* every text, language and range of lines: what a frame is drawn with.    *)
(* And about Values, for objects of every shape and pages of every size:   *)
(* what the rows of a tree are.                                            *)
(***************************************************************************)
EXTENDS DebugHost, HighlightCache, Values, SequenceTheorems, TLAPS

\* The records' fields; what is in them the parts below say.
IsModel(m) ==
    m = [marks |-> m.marks, paused |-> m.paused, frame |-> m.frame, values |-> m.values,
         active |-> m.active, watches |-> m.watches]
IsOp(o) ==
    o = [step |-> o.step, kind |-> o.kind, line |-> o.line, id |-> o.id, ok |-> o.ok,
         held |-> o.held]

\* An action under way found a model.
HasModel == published # NoModel \/ op.step # "idle"

Records ==
    /\ IsModel(agent) /\ IsOp(op) /\ IsModel(op.held)
    /\ HasModel => IsModel(published)
    /\ counts = [pauses |-> counts.pauses, ids |-> counts.ids, noise |-> counts.noise]

\* The agent knows of no marks and fetches no values.
AgentKnowsLittle == agent.marks = {} /\ agent.values = Running

\* An id is given once.
IdsAreNew ==
    /\ counts.ids \in Nat
    /\ \A m \in bps : m.id \in 1..counts.ids
    /\ \A m, n \in bps : m.id = n.id => m = n

\* Which actions get how far.
Called == {"set", "remove", "active", "expand", "resume", "pause"}
Reloaded == {"set", "active", "frame", "spec", "watch", "unwatch"}
Progress ==
    /\ op.step = "idle" => op.kind = "none"
    /\ op.step \in {"call", "answered"} => op.kind \in Called
    /\ op.step = "load" => op.kind \in Reloaded
    /\ op.step = "store" => op.kind \in Reloaded \cup {"remove", "expand"}
    /\ (op.step \in {"load", "store"} /\ op.kind \in {"set", "expand"}) => op.ok

\* Marks that are breakpoints, or will be cut by the removal under way.
Known(marks) == \A m \in marks : m \in bps \/ (op.kind = "remove" /\ m.line = op.line)

MarksKnown ==
    /\ HasModel => Known(published.marks)
    /\ Known(op.held.marks)
    /\ op.kind = "remove" => \A m \in bps : m.id = op.id => m.line = op.line
    /\ (op.kind = "set" /\ op.ok) => [line |-> op.line, id |-> op.id] \in bps

\* Values of the pause the model itself shows.
Fits(m) == m.values \in {Running, m.paused}

ValuesFit ==
    /\ HasModel => Fits(published)
    /\ Fits(op.held)
    /\ (op.kind = "expand" /\ op.ok) => op.id = op.held.paused

HostInv ==
    Records /\ AgentKnowsLittle /\ IdsAreNew /\ Progress /\ MarksKnown /\ ValuesFit

-----------------------------------------------------------------------------
LEMMA FreshIs ==
    /\ IsModel(Fresh) /\ Fresh.marks = {} /\ Fits(Fresh)
    /\ IsOp(Idle) /\ Idle.step = "idle" /\ Idle.kind = "none" /\ Idle.ok = FALSE
    /\ Idle.held = Fresh
BY DEF IsModel, Fresh, Fits, IsOp, Idle

LEMMA TwoFields ==
    ASSUME NEW o, IsOp(o), NEW b, NEW n
    PROVE  [o EXCEPT !.ok = b, !.id = n]
             = [step |-> o.step, kind |-> o.kind, line |-> o.line, id |-> n, ok |-> b,
                held |-> o.held]
<1>1. [o EXCEPT !.ok = b] = [step |-> o.step, kind |-> o.kind, line |-> o.line, id |-> o.id,
                             ok |-> b, held |-> o.held]
  BY DEF IsOp
<1>2. [[o EXCEPT !.ok = b] EXCEPT !.id = n]
        = [step |-> o.step, kind |-> o.kind, line |-> o.line, id |-> n, ok |-> b,
           held |-> o.held]
  <2>1. PICK q : q = [o EXCEPT !.ok = b]  OBVIOUS
  <2>2. q = [step |-> o.step, kind |-> o.kind, line |-> o.line, id |-> o.id, ok |-> b,
             held |-> o.held]
    BY <1>1, <2>1
  <2>3. [q EXCEPT !.id = n] = [step |-> o.step, kind |-> o.kind, line |-> o.line, id |-> n,
                               ok |-> b, held |-> o.held]
    BY <2>2
  <2> QED BY <2>1, <2>3
<1>3. [o EXCEPT !.ok = b, !.id = n] = [[o EXCEPT !.ok = b] EXCEPT !.id = n]
  OBVIOUS
<1> QED BY <1>2, <1>3

LEMMA InitInv == Init => HostInv
<1> SUFFICES ASSUME Init PROVE HostInv
  OBVIOUS
<1>1. op = Idle /\ agent = Fresh /\ published = NoModel /\ bps = {}
      /\ counts = [pauses |-> 0, ids |-> 0, noise |-> 0]
  BY DEF Init
<1>2. Records  BY <1>1, FreshIs DEF Records, HasModel
<1>3. AgentKnowsLittle  BY <1>1 DEF AgentKnowsLittle, Fresh
<1>4. IdsAreNew  BY <1>1 DEF IdsAreNew
<1>5. Progress /\ MarksKnown /\ ValuesFit
  BY <1>1, FreshIs DEF Progress, MarksKnown, Known, ValuesFit, HasModel
<1> QED BY <1>2, <1>3, <1>4, <1>5 DEF HostInv

\* Where neither breakpoints nor models nor the action change.
LEMMA Undisturbed ==
    ASSUME HostInv, UNCHANGED <<bps, agent, published, op>>,
           counts' = [pauses |-> counts'.pauses, ids |-> counts.ids, noise |-> counts'.noise]
    PROVE  HostInv'
<1>1. counts'.ids = counts.ids
  BY DEF HostInv, Records, HasModel
<1>2. Records'  BY <1>1 DEF HostInv, Records, HasModel
<1>3. AgentKnowsLittle' /\ IdsAreNew'  BY <1>1 DEF HostInv, AgentKnowsLittle, IdsAreNew
<1>4. Progress' /\ MarksKnown' /\ ValuesFit'
  BY DEF HostInv, Progress, MarksKnown, Known, ValuesFit, HasModel
<1> QED BY <1>2, <1>3, <1>4 DEF HostInv

LEMMA OthersKeepInv ==
    ASSUME HostInv,
           Forwards \/ DebuggeeMoves \/ DebuggeeNoise \/ Subscribes \/ AttachFails
    PROVE  HostInv'
<1>1. UNCHANGED <<bps, agent, published, op>>
  BY DEF Forwards, DebuggeeMoves, DebuggeeNoise, Subscribes, AttachFails,
         debuggeeVars, agentVars, hostVars
<1>2. counts' = [pauses |-> counts'.pauses, ids |-> counts.ids, noise |-> counts'.noise]
  <2>1. counts = [pauses |-> counts.pauses, ids |-> counts.ids, noise |-> counts.noise]
    BY DEF HostInv, Records, HasModel
  <2>2. CASE counts' = counts  BY <2>1, <2>2
  <2>3. CASE counts' = [counts EXCEPT !.pauses = @ + 1]  BY <2>1, <2>3
  <2>4. CASE counts' = [counts EXCEPT !.noise = @ + 1]  BY <2>1, <2>4
  <2> QED BY <2>2, <2>3, <2>4
          DEF Forwards, DebuggeeMoves, Stops, Continues, DebuggeeNoise, Subscribes, AttachFails,
              debuggeeVars
<1> QED BY <1>1, <1>2, Undisturbed

\* The agent's models bring no marks and no values.
LEMMA AgentKeepsInv ==
    ASSUME HostInv, Enables \/ Seeds \/ AgentFolds
    PROVE  HostInv'
<1>1. UNCHANGED <<bps, counts, op>>
  BY DEF Enables, Seeds, AgentFolds, debuggeeVars, hostVars
<1>2. IsModel(agent') /\ agent'.marks = {} /\ agent'.values = Running
  <2>1. IsModel(agent) /\ agent.marks = {} /\ agent.values = Running
    BY DEF HostInv, Records, AgentKnowsLittle
  <2>2. CASE agent' = agent  BY <2>1, <2>2
  <2>3. CASE agent' = [agent EXCEPT !.active = TRUE]  BY <2>1, <2>3 DEF IsModel
  <2>4. CASE agent' = Folded(agent, Head(queue))
    <3>1. CASE Head(queue).kind = "other"  BY <2>1, <2>4, <3>1 DEF Folded
    <3>2. CASE Head(queue).kind # "other"
      <4>1. agent' = [[[agent EXCEPT !.paused = Head(queue).pause] EXCEPT !.frame = 0]
                        EXCEPT !.values = Running]
        BY <2>4, <3>2 DEF Folded
      <4> QED BY <2>1, <4>1 DEF IsModel
    <3> QED BY <3>1, <3>2
  <2> QED BY <2>2, <2>3, <2>4 DEF Enables, Seeds, AgentFolds
<1>3. published' = published \/ published' = agent'
  BY DEF Enables, Seeds, AgentFolds
<1>4. Records'  BY <1>1, <1>2, <1>3 DEF HostInv, Records, HasModel
<1>5. AgentKnowsLittle' /\ IdsAreNew'  BY <1>1, <1>2 DEF HostInv, AgentKnowsLittle, IdsAreNew
<1>6. Progress'  BY <1>1 DEF HostInv, Progress
<1>7. MarksKnown'  BY <1>1, <1>2, <1>3 DEF HostInv, MarksKnown, Known, HasModel
<1>8. ValuesFit'  BY <1>1, <1>2, <1>3 DEF HostInv, ValuesFit, Fits, HasModel
<1> QED BY <1>4, <1>5, <1>6, <1>7, <1>8 DEF HostInv

\* An action begins with the published model or with none.
LEMMA UserKeepsInv ==
    ASSUME HostInv, UserActs
    PROVE  HostInv'
<1>1. UNCHANGED <<bps, counts, agent, published>> /\ op.step = "idle" /\ published # NoModel
  BY DEF UserActs, TogglesOff, TogglesOn, SetsActive, Expands, Commands, Edits, Begins,
         debuggeeVars, agentVars
<1>2. op.kind = "none" /\ Known(published.marks) /\ Fits(published) /\ IsModel(published)
  BY <1>1 DEF HostInv, Progress, MarksKnown, ValuesFit, Records, HasModel
<1>3. \A m \in published.marks : m \in bps
  BY <1>2 DEF Known
<1>4. /\ IsOp(op') /\ op'.held \in {published, Fresh}
      /\ op'.step \in {"call", "load"} /\ op'.kind # "none"
      /\ op'.step = "call" => op'.kind \in Called
      /\ op'.step = "load" => op'.kind \in {"frame", "spec", "watch", "unwatch"}
      /\ op'.kind \in {"set", "expand"} => op'.ok = FALSE
      /\ op'.kind = "remove" =>
            \E m \in published.marks : m.id = op'.id /\ m.line = op'.line
  <2>1. ASSUME NEW l \in Lines, TogglesOff(l) PROVE <1>4
    <3>1. PICK m \in published.marks :
            m.line = l /\ op' = [Idle EXCEPT !.step = "call", !.kind = "remove", !.line = l,
                                             !.id = m.id, !.held = published]
      BY <2>1 DEF TogglesOff, Begins
    <3>2. op' = [step |-> "call", kind |-> "remove", line |-> l, id |-> m.id, ok |-> FALSE,
                 held |-> published]
      BY <3>1 DEF Idle
    <3> QED BY <3>1, <3>2 DEF IsOp, Called
  <2>2. ASSUME NEW l \in Lines, TogglesOn(l) PROVE <1>4
    <3>1. op' = [step |-> "call", kind |-> "set", line |-> l, id |-> 0, ok |-> FALSE,
                 held |-> Fresh]
      BY <2>2 DEF TogglesOn, Begins, Idle
    <3> QED BY <3>1 DEF IsOp, Called
  <2>3. ASSUME NEW b \in BOOLEAN, SetsActive(b) PROVE <1>4
    <3>1. op' = [step |-> "call", kind |-> "active", line |-> Idle.line, id |-> 0, ok |-> b,
                 held |-> Fresh]
      BY <2>3 DEF SetsActive, Begins, Idle
    <3> QED BY <3>1 DEF IsOp, Called
  <2>4. ASSUME Expands PROVE <1>4
    <3>1. op' = [step |-> "call", kind |-> "expand", line |-> Idle.line, id |-> 0, ok |-> FALSE,
                 held |-> published]
      BY <2>4 DEF Expands, Begins, Idle
    <3> QED BY <3>1 DEF IsOp, Called
  <2>5. ASSUME NEW k \in {"resume", "pause"}, Commands(k) PROVE <1>4
    <3>1. op' = [step |-> "call", kind |-> k, line |-> Idle.line, id |-> 0, ok |-> FALSE,
                 held |-> Fresh]
      BY <2>5 DEF Commands, Begins, Idle
    <3> QED BY <3>1 DEF IsOp, Called
  <2>6. ASSUME NEW k \in {"frame", "spec", "watch", "unwatch"}, Edits(k) PROVE <1>4
    <3>1. PICK l \in Lines : Begins([Idle EXCEPT !.step = "load", !.kind = k, !.line = l])
      BY <2>6 DEF Edits
    <3>2. op' = [step |-> "load", kind |-> k, line |-> l, id |-> 0, ok |-> FALSE,
                 held |-> Fresh]
      BY <3>1 DEF Begins, Idle
    <3> QED BY <3>2 DEF IsOp, Called
  <2> QED BY <2>1, <2>2, <2>3, <2>4, <2>5, <2>6 DEF UserActs
<1>5. IsModel(op'.held) /\ Fits(op'.held) /\ \A m \in op'.held.marks : m \in bps
  BY <1>2, <1>3, <1>4, FreshIs
<1>6. Records'  BY <1>1, <1>4, <1>5 DEF HostInv, Records, HasModel
<1>7. AgentKnowsLittle' /\ IdsAreNew'  BY <1>1 DEF HostInv, AgentKnowsLittle, IdsAreNew
<1>8. Progress'  BY <1>4 DEF Progress, Reloaded, Called
<1>9. MarksKnown'
  <2>1. op'.kind = "remove" => \A m \in bps : m.id = op'.id => m.line = op'.line
    BY <1>3, <1>4 DEF HostInv, IdsAreNew
  <2> QED BY <1>1, <1>3, <1>4, <1>5, <2>1 DEF MarksKnown, Known, HasModel
<1>10. ValuesFit'  BY <1>1, <1>2, <1>4, <1>5 DEF ValuesFit, Fits, HasModel
<1> QED BY <1>6, <1>7, <1>8, <1>9, <1>10 DEF HostInv

\* The debuggee's answers.  Only a removal takes a breakpoint away, and the
\* marks it leaves behind are on the line that is being cut.
LEMMA AnswerKeepsInv ==
    ASSUME HostInv, DebuggeeAnswers
    PROVE  HostInv'
<1>0. /\ IsOp(op) /\ op.step = "call"
      /\ UNCHANGED <<agent, published>>
      /\ counts = [pauses |-> counts.pauses, ids |-> counts.ids, noise |-> counts.noise]
  BY DEF HostInv, Records, DebuggeeAnswers, AnswersSet, AnswersRemove, AnswersActive, AnswersExpand,
         AnswersCommand, Answers, agentVars
<1>1. ASSUME NEW o, IsOp(o), Answers(o)
      PROVE  op' = [step |-> "answered", kind |-> o.kind, line |-> o.line, id |-> o.id,
                    ok |-> o.ok, held |-> o.held]
  BY <1>1 DEF Answers, IsOp
<1>2. AgentKnowsLittle'  BY <1>0 DEF HostInv, AgentKnowsLittle
<1>3. ASSUME op' = [step |-> "answered", kind |-> op.kind, line |-> op.line, id |-> op.id,
                    ok |-> op.ok, held |-> op.held],
             bps' \subseteq bps, op.kind \in {"set", "expand"} => bps' = bps,
             \A m \in bps : m \in bps' \/ (op.kind = "remove" /\ m.id = op.id),
             counts' = [pauses |-> counts'.pauses, ids |-> counts.ids, noise |-> counts'.noise]
      PROVE  HostInv'
  <2>1. /\ IsOp(op') /\ op'.kind = op.kind /\ op'.line = op.line /\ op'.id = op.id
        /\ op'.ok = op.ok /\ op'.held = op.held /\ op'.step = "answered"
    BY <1>3 DEF IsOp
  <2>2. counts'.ids = counts.ids  BY <1>0, <1>3
  <2>3. Records'  BY <1>0, <1>3, <2>1, <2>2 DEF HostInv, Records, HasModel
  <2>4. IdsAreNew'  BY <1>3, <2>2 DEF HostInv, IdsAreNew
  <2>5. Progress'  BY <1>0, <2>1 DEF HostInv, Progress
  <2>6. op.kind = "remove" => \A m \in bps : m.id = op.id => m.line = op.line
    BY DEF HostInv, MarksKnown, HasModel
  <2>7. MarksKnown'
    <3>1. HasModel' => (Known(published.marks))'
      <4>1. Known(published.marks)  BY <1>0 DEF HostInv, MarksKnown, HasModel
      <4> QED BY <1>0, <1>3, <2>1, <2>6, <4>1 DEF Known
    <3>2. (Known(op.held.marks))'
      <4>1. Known(op.held.marks)  BY DEF HostInv, MarksKnown, HasModel
      <4> QED BY <1>3, <2>1, <2>6, <4>1 DEF Known
    <3>3. op'.kind = "remove" => \A m \in bps' : m.id = op'.id => m.line = op'.line
      BY <1>3, <2>1, <2>6
    <3>4. (op'.kind = "set" /\ op'.ok) => [line |-> op'.line, id |-> op'.id] \in bps'
      BY <1>3, <2>1 DEF HostInv, MarksKnown, HasModel
    <3> QED BY <3>1, <3>2, <3>3, <3>4 DEF MarksKnown
  <2>8. ValuesFit'  BY <1>0, <2>1 DEF HostInv, ValuesFit, HasModel
  <2> QED BY <1>2, <2>3, <2>4, <2>5, <2>7, <2>8 DEF HostInv
<1>4. CASE AnswersSet
  <2>1. CASE Answers(op) /\ UNCHANGED <<bps, counts>>
    BY <1>0, <1>1, <1>3, <2>1
  <2>2. CASE /\ counts' = [counts EXCEPT !.ids = @ + 1]
             /\ bps' = bps \cup {[line |-> op.line, id |-> counts.ids + 1]}
             /\ Answers([op EXCEPT !.ok = TRUE, !.id = counts.ids + 1])
    <3>1. op.kind = "set"  BY <1>4 DEF AnswersSet
    <3>2. [op EXCEPT !.ok = TRUE, !.id = counts.ids + 1]
            = [step |-> "call", kind |-> "set", line |-> op.line, id |-> counts.ids + 1,
               ok |-> TRUE, held |-> op.held]
      <4>1. [op EXCEPT !.ok = TRUE, !.id = counts.ids + 1]
              = [step |-> op.step, kind |-> op.kind, line |-> op.line, id |-> counts.ids + 1,
                 ok |-> TRUE, held |-> op.held]
        BY ZenonT(30), <1>0, TwoFields
      <4> QED BY <1>0, <3>1, <4>1, Zenon
    <3>3. op' = [step |-> "answered", kind |-> "set", line |-> op.line, id |-> counts.ids + 1,
                 ok |-> TRUE, held |-> op.held]
      <4> DEFINE o == [op EXCEPT !.ok = TRUE, !.id = counts.ids + 1]
      <4>1. IsOp(o) /\ Answers(o)  BY <2>2, <3>2 DEF IsOp
      <4> HIDE DEF o
      <4>2. op' = [step |-> "answered", kind |-> o.kind, line |-> o.line, id |-> o.id,
                   ok |-> o.ok, held |-> o.held]
        BY <4>1, <1>1
      <4> QED BY <4>2, <3>2 DEF o
    <3>4. counts' = [pauses |-> counts.pauses, ids |-> counts.ids + 1, noise |-> counts.noise]
      BY <1>0, <2>2
    <3>5. /\ IsOp(op') /\ op'.kind = "set" /\ op'.line = op.line /\ op'.id = counts.ids + 1
          /\ op'.held = op.held /\ op'.step = "answered" /\ counts'.ids = counts.ids + 1
      BY <3>3, <3>4 DEF IsOp
    <3>6. Records'  BY <1>0, <3>4, <3>5 DEF HostInv, Records, HasModel
    <3>7. IdsAreNew'
      <4>1. IdsAreNew  BY DEF HostInv
      <4>2. \A m \in bps' : m.id \in 1..(counts.ids + 1) /\ (m.id = counts.ids + 1 => m \notin bps)
        BY <2>2, <4>1 DEF IdsAreNew
      <4>3. \A m, n \in bps' : m.id = n.id => m = n
        BY <2>2, <4>1, <4>2 DEF IdsAreNew
      <4>4. counts'.ids \in Nat  BY <3>5, <4>1 DEF IdsAreNew
      <4> QED BY <3>5, <4>2, <4>3, <4>4 DEF IdsAreNew
    <3>8. Progress'  BY <3>5 DEF Progress, Called
    <3>9. MarksKnown'
      <4>1. /\ \A m \in published.marks : m \in bps'
            /\ \A m \in op.held.marks : m \in bps'
        BY <1>0, <2>2, <3>1 DEF HostInv, MarksKnown, Known, HasModel
      <4>2. [line |-> op'.line, id |-> op'.id] \in bps'  BY <2>2, <3>5
      <4> QED BY <1>0, <3>5, <4>1, <4>2 DEF MarksKnown, Known, HasModel
    <3>10. ValuesFit'  BY <1>0, <3>5 DEF HostInv, ValuesFit, HasModel
    <3> QED BY <1>2, <3>6, <3>7, <3>8, <3>9, <3>10 DEF HostInv
  <2> QED BY <1>4, <2>1, <2>2 DEF AnswersSet
<1>5. CASE AnswersRemove
  <2>1. /\ op.kind = "remove" /\ bps' \in {bps, {m \in bps : m.id # op.id}}
        /\ Answers(op) /\ counts' = counts
    BY <1>5 DEF AnswersRemove
  <2>2. /\ bps' \subseteq bps
        /\ \A m \in bps : m \in bps' \/ m.id = op.id
    BY <2>1
  <2> QED BY <1>0, <1>1, <1>3, <2>1, <2>2
<1>6. CASE AnswersActive
  <2>1. Answers(op) /\ UNCHANGED <<bps, counts>>  BY <1>6 DEF AnswersActive
  <2> QED BY <1>0, <1>1, <1>3, <2>1
<1>7. CASE AnswersCommand
  <2>1. Answers(op) /\ bps' = bps  BY <1>7 DEF AnswersCommand
  <2>2. counts' = counts \/ counts' = [counts EXCEPT !.pauses = @ + 1]
    BY <1>7 DEF AnswersCommand, Continues, Stops
  <2>3. counts' = [pauses |-> counts'.pauses, ids |-> counts.ids, noise |-> counts'.noise]
    <3>1. CASE counts' = counts  BY <1>0, <3>1
    <3>2. CASE counts' = [counts EXCEPT !.pauses = @ + 1]  BY <1>0, <3>2
    <3> QED BY <2>2, <3>1, <3>2
  <2> QED BY <1>0, <1>1, <1>3, <2>1, <2>3
<1>8. CASE AnswersExpand
  <2> DEFINE o == [op EXCEPT !.ok = (stopped = op.held.paused), !.id = stopped]
  <2>1. op.kind = "expand" /\ UNCHANGED <<bps, counts>> /\ Answers(o)
    BY <1>8 DEF AnswersExpand
  <2>2. o = [step |-> "call", kind |-> "expand", line |-> op.line, id |-> stopped,
             ok |-> (stopped = op.held.paused), held |-> op.held]
    <3> DEFINE same == (stopped = op.held.paused)
    <3>0. o = [op EXCEPT !.ok = same, !.id = stopped]  OBVIOUS
    <3> HIDE DEF o, same
    <3>1. o = [step |-> op.step, kind |-> op.kind, line |-> op.line, id |-> stopped,
               ok |-> same, held |-> op.held]
      BY <1>0, <3>0, TwoFields, Zenon
    <3> USE DEF same
    <3> QED BY <1>0, <2>1, <3>1, Zenon
  <2>3. IsOp(o)  BY ZenonT(40), <2>2 DEF IsOp
  <2> HIDE DEF o
  <2>4. op' = [step |-> "answered", kind |-> "expand", line |-> op.line, id |-> stopped,
               ok |-> (stopped = op.held.paused), held |-> op.held]
    <3>1. op' = [step |-> "answered", kind |-> o.kind, line |-> o.line, id |-> o.id,
                 ok |-> o.ok, held |-> o.held]
      BY <1>1, <2>1, <2>3
    <3> QED BY <2>2, <3>1
  <2>5. /\ IsOp(op') /\ op'.kind = "expand" /\ op'.held = op.held /\ op'.step = "answered"
        /\ op'.id = stopped /\ (op'.ok => stopped = op.held.paused)
    BY <2>4 DEF IsOp
  <2>6. Records'  BY <1>0, <2>1, <2>5 DEF HostInv, Records, HasModel
  <2>7. IdsAreNew' /\ Progress'  BY <2>1, <2>5 DEF HostInv, IdsAreNew, Progress, Called
  <2>8. MarksKnown'  BY <1>0, <2>1, <2>5 DEF HostInv, MarksKnown, Known, HasModel
  <2>9. ValuesFit'  BY <1>0, <2>5 DEF HostInv, ValuesFit, HasModel
  <2> QED BY <1>2, <2>6, <2>7, <2>8, <2>9 DEF HostInv
<1> QED BY <1>4, <1>5, <1>6, <1>7, <1>8 DEF DebuggeeAnswers

\* The host has its answer, loads, or stores what it made of the model held.
LEMMA HostKeepsInv ==
    ASSUME HostInv, HostStep
    PROVE  HostInv'
<1>0. UNCHANGED <<bps, counts, agent>> /\ IsOp(op) /\ IsModel(op.held)
  BY DEF HostStep, HostResumes, HostLoads, HostStores, debuggeeVars, agentVars, HostInv, Records, HasModel
<1>1. AgentKnowsLittle' /\ IdsAreNew'  BY <1>0 DEF HostInv, AgentKnowsLittle, IdsAreNew
<1>2. CASE HostResumes
  <2>0. published' = published /\ op.step = "answered"  BY <1>2 DEF HostResumes
  <2>1. CASE op.kind \in {"resume", "pause"} \/ (op.kind \in {"set", "expand"} /\ ~op.ok)
    <3>1. op' = Idle  BY <1>2, <2>1 DEF HostResumes
    <3>2. IsOp(op') /\ op'.step = "idle" /\ op'.kind = "none" /\ op'.held = Fresh
      BY <3>1, FreshIs
    <3>3. Records'  BY <1>0, <2>0, <3>2, FreshIs DEF HostInv, Records, HasModel
    <3>4. Progress'  BY <3>2 DEF Progress
    <3>5. MarksKnown'  BY <1>0, <2>0, <2>1, <3>2, FreshIs DEF HostInv, MarksKnown, Known, HasModel
    <3>6. ValuesFit'  BY <2>0, <3>2, FreshIs DEF HostInv, ValuesFit, HasModel
    <3> QED BY <1>1, <3>3, <3>4, <3>5, <3>6 DEF HostInv
  <2>2. CASE ~(op.kind \in {"resume", "pause"} \/ (op.kind \in {"set", "expand"} /\ ~op.ok))
    <3>1. PICK s : /\ op' = [op EXCEPT !.step = s]
                   /\ s = IF op.kind \in {"remove", "expand"} THEN "store" ELSE "load"
      BY <1>2, <2>2 DEF HostResumes
    <3>2. op' = [step |-> s, kind |-> op.kind, line |-> op.line, id |-> op.id, ok |-> op.ok,
                 held |-> op.held]
      BY <1>0, <3>1 DEF IsOp
    <3>3. /\ IsOp(op') /\ op'.kind = op.kind /\ op'.line = op.line /\ op'.id = op.id
          /\ op'.ok = op.ok /\ op'.held = op.held /\ op'.step = s
      BY <3>2 DEF IsOp
    <3>4. Records'  BY <1>0, <2>0, <3>3 DEF HostInv, Records, HasModel
    <3>5. Progress'
      <4>1. op.kind \in {"set", "remove", "active", "expand"}
        BY <2>0, <2>2 DEF HostInv, Progress, Called
      <4> QED BY <2>2, <3>1, <3>3, <4>1 DEF Progress, Reloaded
    <3>6. MarksKnown'  BY <1>0, <2>0, <3>3 DEF HostInv, MarksKnown, Known, HasModel
    <3>7. ValuesFit'  BY <2>0, <3>3 DEF HostInv, ValuesFit, HasModel
    <3> QED BY <1>1, <3>4, <3>5, <3>6, <3>7 DEF HostInv
  <2> QED BY <2>1, <2>2
<1>3. CASE HostLoads
  <2>0. op.step = "load" /\ published' = published  BY <1>3 DEF HostLoads
  <2>1. op' = [[op EXCEPT !.step = "store"] EXCEPT !.held = published]
    BY <1>3 DEF HostLoads
  <2>2. op' = [step |-> "store", kind |-> op.kind, line |-> op.line, id |-> op.id, ok |-> op.ok,
               held |-> published]
    BY <1>0, <2>1 DEF IsOp
  <2>3. /\ IsOp(op') /\ op'.kind = op.kind /\ op'.line = op.line /\ op'.id = op.id
        /\ op'.ok = op.ok /\ op'.held = published /\ op'.step = "store"
    BY <2>2 DEF IsOp
  <2>4. Records'  BY <1>0, <2>0, <2>3 DEF HostInv, Records, HasModel
  <2>5. op.kind \in Reloaded /\ (op.kind \in {"set", "expand"} => op.ok)
    BY <2>0 DEF HostInv, Progress
  <2>6. Progress'  BY <2>3, <2>5 DEF Progress
  <2>7. MarksKnown'  BY <1>0, <2>0, <2>3 DEF HostInv, MarksKnown, Known, HasModel
  <2>8. ValuesFit'
    BY <2>0, <2>3, <2>5 DEF HostInv, ValuesFit, HasModel, Reloaded
  <2> QED BY <1>1, <2>4, <2>6, <2>7, <2>8 DEF HostInv
<1>5. CASE HostStores /\ NothingToEdit(op.held)
  <2>1. op.step = "store" /\ published' = published /\ op' = Idle  BY <1>5 DEF HostStores
  <2>2. IsOp(op') /\ op'.step = "idle" /\ op'.kind = "none" /\ op'.held = Fresh
    BY <2>1, FreshIs
  <2>3. op.kind \in {"frame", "spec"}  BY <1>5 DEF NothingToEdit
  <2>4. Records'  BY <1>0, <2>1, <2>2, FreshIs DEF HostInv, Records, HasModel
  <2>5. Progress'  BY <2>2 DEF Progress
  <2>6. MarksKnown'  BY <1>0, <2>1, <2>2, <2>3, FreshIs DEF HostInv, MarksKnown, Known, HasModel
  <2>7. ValuesFit'  BY <2>1, <2>2, FreshIs DEF HostInv, ValuesFit, HasModel
  <2> QED BY <1>1, <2>4, <2>5, <2>6, <2>7 DEF HostInv
<1>4. CASE HostStores /\ ~NothingToEdit(op.held)
  <2>1. op.step = "store" /\ published' = Edited(op.held) /\ op' = Idle
    BY <1>4 DEF HostStores
  <2>2. IsOp(op') /\ op'.step = "idle" /\ op'.kind = "none" /\ op'.held = Fresh
    BY <2>1, FreshIs
  <2>3. op.kind \in Reloaded \cup {"remove", "expand"}
        /\ (op.kind \in {"set", "expand"} => op.ok)
    BY <2>1 DEF HostInv, Progress
  <2>4. Known(op.held.marks) /\ Fits(op.held)
    BY DEF HostInv, MarksKnown, ValuesFit
  <2>5. IsModel(published') /\ Fits(published') /\ \A m \in published'.marks : m \in bps
    <3>1. CASE op.kind = "set"
      <4>1. published' = [op.held EXCEPT !.marks = @ \cup {[line |-> op.line, id |-> op.id]}]
        BY <2>1, <3>1 DEF Edited
      <4>2. published' = [marks |-> op.held.marks \cup {[line |-> op.line, id |-> op.id]},
                          paused |-> op.held.paused, frame |-> op.held.frame,
                          values |-> op.held.values, active |-> op.held.active,
                          watches |-> op.held.watches]
        BY <1>0, <4>1 DEF IsModel
      <4>3. [line |-> op.line, id |-> op.id] \in bps
        BY <2>3, <3>1 DEF HostInv, MarksKnown
      <4> QED BY <2>4, <3>1, <4>2, <4>3 DEF IsModel, Fits, Known
    <3>2. CASE op.kind = "remove"
      <4>1. published' = [op.held EXCEPT !.marks = {m \in op.held.marks : m.line # op.line}]
        BY <2>1, <3>2 DEF Edited, WithoutLine
      <4>2. published' = [marks |-> {m \in op.held.marks : m.line # op.line},
                          paused |-> op.held.paused, frame |-> op.held.frame,
                          values |-> op.held.values, active |-> op.held.active,
                          watches |-> op.held.watches]
        BY <1>0, <4>1 DEF IsModel
      <4> QED BY <2>4, <3>2, <4>2 DEF IsModel, Fits, Known
    <3>3. CASE op.kind \in {"active", "frame", "spec", "watch", "unwatch"}
      <4>1. \/ published' = op.held
            \/ \E x : published' = [op.held EXCEPT !.active = x]
            \/ \E x : published' = [op.held EXCEPT !.frame = x]
            \/ \E x : published' = [op.held EXCEPT !.watches = x]
        BY <2>1, <3>3 DEF Edited
      <4>2. /\ IsModel(published') /\ published'.marks = op.held.marks
            /\ published'.values = op.held.values /\ published'.paused = op.held.paused
        BY <1>0, <4>1 DEF IsModel
      <4> QED BY <2>4, <3>3, <4>2 DEF Fits, Known
    <3>4. CASE op.kind = "expand"
      <4>1. published' = [op.held EXCEPT !.values = op.id]
        BY <2>1, <3>4 DEF Edited
      <4>2. published' = [marks |-> op.held.marks, paused |-> op.held.paused,
                          frame |-> op.held.frame, values |-> op.id,
                          active |-> op.held.active, watches |-> op.held.watches]
        BY <1>0, <4>1 DEF IsModel
      <4>3. op.id = op.held.paused  BY <2>3, <3>4 DEF HostInv, ValuesFit
      <4> QED BY <2>4, <3>4, <4>2, <4>3 DEF IsModel, Fits, Known
    <3> QED BY <2>3, <3>1, <3>2, <3>3, <3>4 DEF Reloaded
  <2>6. Records'  BY <1>0, <2>2, <2>5, FreshIs DEF HostInv, Records
  <2>7. Progress'  BY <2>2 DEF Progress
  <2>8. MarksKnown'  BY <1>0, <2>2, <2>5, FreshIs DEF MarksKnown, Known
  <2>9. ValuesFit'  BY <2>2, <2>5, FreshIs DEF ValuesFit
  <2> QED BY <1>1, <2>6, <2>7, <2>8, <2>9 DEF HostInv
<1> QED BY <1>2, <1>3, <1>4, <1>5 DEF HostStep

LEMMA StepKeepsInv == HostInv /\ [Next]_vars => HostInv'
<1> SUFFICES ASSUME HostInv, [Next]_vars PROVE HostInv'
  OBVIOUS
<1>1. CASE Forwards \/ DebuggeeMoves \/ DebuggeeNoise \/ Subscribes \/ AttachFails
  BY <1>1, OthersKeepInv
<1>2. CASE Enables \/ Seeds \/ AgentFolds  BY <1>2, AgentKeepsInv
<1>3. CASE UserActs  BY <1>3, UserKeepsInv
<1>4. CASE DebuggeeAnswers  BY <1>4, AnswerKeepsInv
<1>5. CASE HostStep  BY <1>5, HostKeepsInv
<1>6. CASE UNCHANGED vars
  <2>1. UNCHANGED <<bps, agent, published, op, counts>>
    BY <1>6 DEF vars, debuggeeVars, agentVars, hostVars
  <2>2. counts' = [pauses |-> counts'.pauses, ids |-> counts.ids, noise |-> counts'.noise]
    BY <2>1 DEF HostInv, Records
  <2> QED BY <2>1, <2>2, Undisturbed
<1> QED BY <1>1, <1>2, <1>3, <1>4, <1>5, <1>6 DEF Next

\* The inductive invariant behind the theorems below.  [DebugAgent, SessionHost]
THEOREM InvariantHolds == Spec => []HostInv
<1> QED BY InitInv, StepKeepsInv, PTL DEF Spec

\* Between two actions every mark shown is a breakpoint the debuggee holds,
\* however late an edit of an older model is stored.  [toggle_breakpoint]
THEOREM MarksAreAlwaysReal == Spec => []MarksAreReal
<1>1. HostInv => MarksAreReal
  BY DEF HostInv, Progress, MarksKnown, Known, HasModel, MarksAreReal
<1> QED BY <1>1, InvariantHolds, PTL

\* Values are never shown below a pause they were not fetched in, whichever
\* of the two writers stored last.  [expand_value, handle_paused]
THEOREM ValuesAlwaysFit == Spec => []ValuesOfThePauseShown
<1>1. HostInv => ValuesOfThePauseShown
  BY DEF HostInv, ValuesFit, Fits, HasModel, ValuesOfThePauseShown
<1> QED BY <1>1, InvariantHolds, PTL
-----------------------------------------------------------------------------
(* The events on their way to the agent *)

\* Events with nothing assumed of the pauses they name.
News == [kind : {"paused", "resumed", "other"}, pause : Nat]

\* An event that moves decides where all of them lead.
LEMMA LeadsOn ==
    ASSUME NEW events \in Seq(News), NEW e \in News, e.kind # "other", NEW from
    PROVE  Leads(from, Append(events, e), e.pause)
<1> DEFINE n == Len(events) + 1
<1>1. /\ DOMAIN Append(events, e) = 1..n /\ n \in Nat
      /\ Append(events, e)[n] = e
  OBVIOUS
<1>2. n \in {k \in DOMAIN Append(events, e) : Append(events, e)[k].kind # "other"}
  BY <1>1
<1>3. \A k \in DOMAIN Append(events, e) : n <= k => k = n
  BY <1>1
<1> QED BY <1>1, <1>2, <1>3 DEF Leads

\* An idle one decides nothing.
LEMMA LeadsAcrossIdle ==
    ASSUME NEW events \in Seq(News), NEW e \in News, e.kind = "other", NEW from, NEW to,
           Leads(from, events, to)
    PROVE  Leads(from, Append(events, e), to)
<1>1. /\ DOMAIN Append(events, e) = DOMAIN events \cup {Len(events) + 1}
      /\ Append(events, e)[Len(events) + 1] = e
      /\ \A k \in DOMAIN events : Append(events, e)[k] = events[k]
  OBVIOUS
<1>2. {k \in DOMAIN Append(events, e) : Append(events, e)[k].kind # "other"}
        = {k \in DOMAIN events : events[k].kind # "other"}
  BY <1>1
<1> QED BY <1>1, <1>2 DEF Leads

\* Folding the first of them leaves the others leading where they did.
LEMMA LeadsFromNext ==
    ASSUME NEW events \in Seq(News), events # <<>>, NEW from, NEW to,
           Leads(from, events, to)
    PROVE  Leads(IF Head(events).kind = "other" THEN from ELSE Head(events).pause,
                 Tail(events), to)
<1> DEFINE rest == Tail(events)
           moves == {k \in DOMAIN events : events[k].kind # "other"}
           later == {k \in DOMAIN rest : rest[k].kind # "other"}
<1>1. /\ rest \in Seq(News) /\ DOMAIN rest \subseteq Nat /\ DOMAIN events \subseteq Nat
      /\ \A k \in DOMAIN rest : k + 1 \in DOMAIN events /\ rest[k] = events[k + 1]
      /\ \A k \in DOMAIN events : k = 1 \/ (k - 1 \in DOMAIN rest /\ rest[k - 1] = events[k])
      /\ 1 \in DOMAIN events /\ Head(events) = events[1]
  OBVIOUS
<1>2. \A k \in later : k + 1 \in moves
  BY <1>1
<1>3. \A k \in moves : k = 1 \/ k - 1 \in later
  BY <1>1
<1>4. ASSUME later = {}
      PROVE  (IF Head(events).kind = "other" THEN from ELSE Head(events).pause) = to
  <2>1. CASE Head(events).kind = "other"
    <3>1. moves = {}  BY <1>1, <1>3, <1>4, <2>1
    <3> QED BY <2>1, <3>1 DEF Leads
  <2>2. CASE Head(events).kind # "other"
    <3>1. 1 \in moves  BY <1>1, <2>2
    <3>2. \A j \in moves : j = 1  BY <1>3, <1>4
    <3>3. events[1].pause = to
      <4>1. \A j \in moves : j <= 1  BY <3>2
      <4> QED BY <3>1, <4>1 DEF Leads
    <3> QED BY <1>1, <2>2, <3>3
  <2> QED BY <2>1, <2>2
<1>5. ASSUME NEW k \in later, \A j \in later : j <= k
      PROVE  rest[k].pause = to
  <2>1. \A j \in moves : j <= k + 1
    <3> SUFFICES ASSUME NEW j \in moves PROVE j <= k + 1
      OBVIOUS
    <3>1. k \in Nat /\ j \in Nat  BY <1>1
    <3>2. j = 1 \/ j - 1 <= k  BY <1>3, <1>5
    <3> HIDE DEF moves, later, rest
    <3> QED BY <3>1, <3>2
  <2> QED BY <1>1, <1>2, <1>5, <2>1 DEF Leads
<1> QED BY <1>4, <1>5 DEF Leads

-----------------------------------------------------------------------------
\* What is under way to the agent, before it has a task and after.
OnTheWay ==
    /\ ring \in Seq(News) /\ queue \in Seq(News) /\ counts.pauses \in Nat
    /\ emits \/ stopped = Running
    /\ agentPc = "new" => ~emits /\ agent.paused = Running
    /\ ~Subscribed => ring = <<>> /\ queue = <<>>
    /\ AgentCatchesUp

\* An event is broadcast that says where the debuggee is now.
LEMMA BroadcastKeeps ==
    ASSUME OnTheWay, NEW e \in News, Emits(e), emits \/ stopped' = stopped,
           IF e.kind = "other" THEN stopped' = stopped ELSE stopped' = e.pause,
           UNCHANGED <<emits, queue, agentPc, agent>>,
           counts'.pauses \in Nat
    PROVE  OnTheWay'
<1>1. ring' \in Seq(News) /\ queue' \in Seq(News)
  <2>1. ring \in Seq(News) /\ queue' = queue /\ queue \in Seq(News)  BY DEF OnTheWay
  <2>2. Append(ring, e) \in Seq(News)  BY <2>1
  <2>3. Len(ring) = Capacity => Append(Tail(ring), e) \in Seq(News)
    <3>1. Len(ring) = Capacity => Tail(ring) \in Seq(News)  BY <2>1, HostConstants
    <3> QED BY <3>1
  <2> QED BY <2>1, <2>2, <2>3, Zenon DEF Emits
<1>2. ~Subscribed => ring' = <<>> /\ queue' = <<>>
  BY DEF OnTheWay, Emits
<1>3. AgentCatchesUp'
  <2> SUFFICES ASSUME Subscribed, ~lagged' PROVE Leads(agent.paused, queue \o ring', stopped')
    BY DEF AgentCatchesUp, Subscribed
  <2>1. CASE ~emits
    <3>1. ring' = ring /\ stopped' = stopped /\ lagged' = lagged
      BY <2>1 DEF Emits
    <3> QED BY <3>1 DEF OnTheWay, AgentCatchesUp
  <2>2. CASE emits
    <3>1. ring' = Append(ring, e) /\ ~lagged  BY <2>2 DEF Emits
    <3>2. queue \o ring' = Append(queue \o ring, e) /\ queue \o ring \in Seq(News)
      BY <3>1 DEF OnTheWay
    <3>3. Leads(agent.paused, queue \o ring, stopped)  BY <3>1 DEF OnTheWay, AgentCatchesUp
    <3>4. CASE e.kind = "other"
      BY <3>2, <3>3, <3>4, LeadsAcrossIdle
    <3>5. CASE e.kind # "other"
      BY <3>2, <3>5, LeadsOn
    <3> QED BY <3>4, <3>5
  <2> QED BY <2>1, <2>2
<1>4. (emits \/ stopped = Running)'  BY DEF OnTheWay
<1>5. (agentPc = "new" => ~emits /\ agent.paused = Running)'  BY DEF OnTheWay
<1> QED BY <1>1, <1>2, <1>3, <1>4, <1>5 DEF OnTheWay, Subscribed

\* Nothing on the way, the debuggee or the agent's own model changes.
LEMMA OthersKeepOnTheWay ==
    ASSUME OnTheWay,
           UNCHANGED <<ring, queue, lagged, stopped, emits, agentPc, agent>>,
           counts'.pauses = counts.pauses
    PROVE  OnTheWay'
BY DEF OnTheWay, AgentCatchesUp, Subscribed

\* What the debuggee does is broadcast if it changes its pause.
LEMMA DebuggeeKeepsOnTheWay ==
    ASSUME OnTheWay, Records, DebuggeeMoves \/ DebuggeeNoise \/ DebuggeeAnswers
    PROVE  OnTheWay'
<1>0. /\ UNCHANGED <<emits, queue, agentPc, agent>>
      /\ counts = [pauses |-> counts.pauses, ids |-> counts.ids, noise |-> counts.noise]
      /\ counts.pauses \in Nat
  BY DEF DebuggeeMoves, DebuggeeNoise, DebuggeeAnswers, AnswersSet, AnswersRemove, AnswersActive,
         AnswersExpand, AnswersCommand, Answers, agentVars, Records, OnTheWay
<1>1. CASE Stops
  <2>1. PICK n \in Nat : n = counts.pauses + 1  BY <1>0
  <2>2. counts' = [pauses |-> n, ids |-> counts.ids, noise |-> counts.noise]
    BY <1>0, <1>1, <2>1 DEF Stops
  <2>3. /\ Event("paused", n) \in News /\ Event("paused", n).kind = "paused"
        /\ Event("paused", n).pause = n
    BY DEF Event, News
  <2>4. emits /\ stopped' = n /\ Emits(Event("paused", n))
    BY <1>1, <2>1 DEF Stops
  <2> QED BY <1>0, <2>2, <2>3, <2>4, BroadcastKeeps
<1>2. CASE Continues
  <2>1. /\ Event("resumed", Running) \in News /\ Event("resumed", Running).kind = "resumed"
        /\ Event("resumed", Running).pause = Running
    BY DEF Event, News, Running
  <2>2. emits /\ stopped' = Running /\ Emits(Event("resumed", Running)) /\ counts' = counts
    BY <1>2 DEF Continues, OnTheWay
  <2> QED BY <1>0, <2>1, <2>2, BroadcastKeeps
<1>3. CASE DebuggeeNoise
  <2>1. Event("other", Running) \in News /\ Event("other", Running).kind = "other"
    BY DEF Event, News, Running
  <2>2. counts'.pauses = counts.pauses  BY <1>0, <1>3 DEF DebuggeeNoise
  <2> QED BY <1>0, <1>3, <2>1, <2>2, BroadcastKeeps DEF DebuggeeNoise
<1>4. ASSUME UNCHANGED <<ring, lagged, stopped>>,
             counts' = counts \/ counts' = [counts EXCEPT !.ids = @ + 1]
      PROVE  OnTheWay'
  <2>1. counts'.pauses = counts.pauses  BY <1>0, <1>4
  <2> QED BY <1>0, <1>4, <2>1, OthersKeepOnTheWay
<1>5. CASE AnswersSet \/ AnswersRemove \/ AnswersActive \/ AnswersExpand
  <2>1. UNCHANGED <<ring, lagged, stopped>>
    BY <1>5 DEF AnswersSet, AnswersRemove, AnswersActive, AnswersExpand
  <2>2. counts' = counts \/ counts' = [counts EXCEPT !.ids = @ + 1]
    BY <1>5 DEF AnswersSet, AnswersRemove, AnswersActive, AnswersExpand
  <2> QED BY <1>4, <2>1, <2>2
<1>6. CASE AnswersCommand
  BY <1>1, <1>2, <1>4, <1>6 DEF AnswersCommand
<1> QED BY <1>1, <1>2, <1>3, <1>5, <1>6 DEF DebuggeeMoves, DebuggeeAnswers

\* The way itself: forwarding, registering, folding.
LEMMA AgentKeepsOnTheWay ==
    ASSUME OnTheWay, Records,
           Forwards \/ Subscribes \/ Enables \/ AttachFails \/ Seeds \/ AgentFolds
    PROVE  OnTheWay'
<1>0. UNCHANGED <<stopped, counts>>
  BY DEF Forwards, Subscribes, Enables, AttachFails, Seeds, AgentFolds, debuggeeVars
<1>1. CASE Forwards
  <2>1. /\ ring \in Seq(News) /\ ring # <<>> /\ queue \in Seq(News)
        /\ queue' = Append(queue, Head(ring)) /\ ring' = Tail(ring)
        /\ UNCHANGED <<emits, lagged, agentPc, agent>>
    BY <1>1 DEF Forwards, OnTheWay, agentVars, debuggeeVars
  <2>2. queue' \o ring' = queue \o ring /\ queue' \in Seq(News) /\ ring' \in Seq(News)
    BY <2>1
  <2>3. AgentCatchesUp'
    <3>1. AgentCatchesUp  BY DEF OnTheWay
    <3>2. UNCHANGED <<queue \o ring, lagged, agentPc, agent, stopped>>
      BY <1>0, <2>1, <2>2
    <3> QED BY <3>1, <3>2 DEF AgentCatchesUp, Subscribed
  <2>4. Subscribed  BY <2>1 DEF OnTheWay
  <2> QED BY <1>0, <2>1, <2>2, <2>3, <2>4 DEF OnTheWay, Subscribed
<1>2. CASE Subscribes
  <2>1. /\ agentPc = "new" /\ agentPc' = "subscribed"
        /\ UNCHANGED <<emits, ring, queue, lagged, agent>>
    BY <1>2 DEF Subscribes, debuggeeVars, eventVars
  <2>2. ring = <<>> /\ queue = <<>> /\ ~emits /\ stopped = Running /\ agent.paused = Running
    BY <2>1 DEF OnTheWay, Subscribed
  <2>3. Leads(agent.paused, queue \o ring, stopped)
    <3>1. queue \o ring = <<>> /\ DOMAIN (queue \o ring) = {}  BY <2>2
    <3> QED BY <2>2, <3>1 DEF Leads
  <2> QED BY <1>0, <2>1, <2>2, <2>3 DEF OnTheWay, AgentCatchesUp, Subscribed
<1>3. CASE Enables
  <2>1. /\ agentPc = "subscribed" /\ agentPc' \in {"subscribed", "enabled"}
        /\ UNCHANGED <<ring, queue, lagged>> /\ emits'
    BY <1>3 DEF Enables, eventVars
  <2>2. agent'.paused = agent.paused
    BY <1>3 DEF Enables, Records, IsModel
  <2> QED BY <1>0, <2>1, <2>2 DEF OnTheWay, AgentCatchesUp, Subscribed
<1>4. CASE AttachFails
  BY <1>0, <1>4 DEF AttachFails, OnTheWay, AgentCatchesUp, Subscribed, debuggeeVars
<1>5. CASE Seeds
  BY <1>0, <1>5 DEF Seeds, OnTheWay, AgentCatchesUp, Subscribed, debuggeeVars, eventVars
<1>6. CASE AgentFolds
  <2>1. /\ queue \in Seq(News) /\ ring \in Seq(News) /\ queue # <<>>
        /\ queue' = Tail(queue) /\ agentPc = "running"
        /\ UNCHANGED <<emits, ring, lagged, agentPc>>
    BY <1>6 DEF AgentFolds, OnTheWay, debuggeeVars
  <2> DEFINE events == queue \o ring
  <2>2. /\ events \in Seq(News) /\ events # <<>> /\ Head(events) = Head(queue)
        /\ Tail(events) = queue' \o ring' /\ queue' \in Seq(News)
    BY <2>1
  <2>3. agent'.paused = IF Head(queue).kind = "other" THEN agent.paused ELSE Head(queue).pause
    <3>1. CASE Head(queue).kind = "other"  BY <1>6, <3>1 DEF AgentFolds, Folded
    <3>2. CASE Head(queue).kind # "other"
      <4>1. agent' = [[[agent EXCEPT !.paused = Head(queue).pause] EXCEPT !.frame = 0]
                        EXCEPT !.values = Running]
        BY <1>6, <3>2 DEF AgentFolds, Folded
      <4> QED BY <3>2, <4>1 DEF Records, IsModel
    <3> QED BY <3>1, <3>2
  <2>4. AgentCatchesUp'
    <3> SUFFICES ASSUME ~lagged PROVE Leads(agent'.paused, queue' \o ring', stopped')
      BY <2>1 DEF AgentCatchesUp
    <3>1. Leads(agent.paused, events, stopped)
      BY <2>1 DEF OnTheWay, AgentCatchesUp, Subscribed
    <3> HIDE DEF events
    <3>2. Leads(IF Head(events).kind = "other" THEN agent.paused ELSE Head(events).pause,
                Tail(events), stopped)
      BY <2>2, <3>1, LeadsFromNext
    <3> QED BY <1>0, <2>2, <2>3, <3>2
  <2> QED BY <1>0, <2>1, <2>2, <2>4 DEF OnTheWay, Subscribed
<1> QED BY <1>1, <1>2, <1>3, <1>4, <1>5, <1>6

LEMMA StepKeepsOnTheWay == HostInv /\ OnTheWay /\ [Next]_vars => OnTheWay'
<1> SUFFICES ASSUME HostInv, OnTheWay, [Next]_vars PROVE OnTheWay'
  OBVIOUS
<1>0. Records  BY DEF HostInv
<1>1. CASE DebuggeeMoves \/ DebuggeeNoise \/ DebuggeeAnswers
  BY <1>0, <1>1, DebuggeeKeepsOnTheWay
<1>2. CASE Forwards \/ Subscribes \/ Enables \/ AttachFails \/ Seeds \/ AgentFolds
  BY <1>0, <1>2, AgentKeepsOnTheWay
<1>3. CASE UserActs \/ HostStep \/ UNCHANGED vars
  <2>1. UNCHANGED <<ring, queue, lagged, stopped, emits, agentPc, agent, counts>>
    BY <1>3 DEF UserActs, TogglesOff, TogglesOn, SetsActive, Expands, Commands, Edits, Begins,
                HostStep, HostResumes, HostLoads, HostStores, vars, debuggeeVars, eventVars,
                agentVars, hostVars
  <2> QED BY <2>1, OthersKeepOnTheWay
<1> QED BY <1>1, <1>2, <1>3 DEF Next

\* The private model is never wrong but late: with what is on its way folded
\* in it shows the debuggee's pause, from the first event that Debugger.enable
\* lets through, for every length of ring and queue.  [AgentRegistry::register]
THEOREM AgentAlwaysCatchesUp == Spec => []AgentCatchesUp
<1>1. Init => OnTheWay
  <2> SUFFICES ASSUME Init PROVE OnTheWay
    OBVIOUS
  <2>1. <<>> \in Seq(News)  OBVIOUS
  <2> QED BY <2>1, FreshIs DEF Init, OnTheWay, AgentCatchesUp, Subscribed, Fresh
<1>2. OnTheWay => AgentCatchesUp  BY DEF OnTheWay
<1> QED BY <1>1, <1>2, InvariantHolds, StepKeepsOnTheWay, PTL DEF Spec

-----------------------------------------------------------------------------
(* The highlighter's cache *)

\* The lines that are asked for, cut to the text; those that are parsed.
ShownOf(asked, count) ==
    LET from == Smallest(asked.from, count)
    IN  LineRange(from, Largest(from, Smallest(asked.to, count)))
ParsedOf(shown, count) ==
    LineRange(Less(shown.from, ParseMargin), Smallest(shown.to + ParseMargin, count))

\* The spans of a text that was never seen.
TreeOf(text, kind, asked) ==
    IF kind = "plain" THEN NoTree
    ELSE [text |-> text, kind |-> kind, included |-> ParsedOf(ShownOf(asked, text.lines), text.lines)]
SpansOf(text, kind, asked) ==
    [i \in 1..(ShownOf(asked, text.lines).to - ShownOf(asked, text.lines).from) |->
        [tree |-> TreeOf(text, kind, asked), cut |-> text,
         line |-> ShownOf(asked, text.lines).from + i - 1]]
FreshSpans(text, kind, asked) ==
    IF ShownOf(asked, text.lines).from = ShownOf(asked, text.lines).to THEN <<>>
    ELSE SpansOf(text, kind, asked)

\* A cached source is a record; what it holds is its own text's and language's,
\* and its spans are those of a text that was never seen.
IsSource(s) ==
    s = [text |-> s.text, kind |-> s.kind, tree |-> s.tree, window |-> s.window, spans |-> s.spans]
TreeIsItsOwn(s) ==
    s.tree = NoTree \/ s.tree = [text |-> s.text, kind |-> s.kind, included |-> s.tree.included]
SpansAreFresh(s) == s.window = NoLines \/ s.spans = FreshSpans(s.text, s.kind, s.window)

IsRange(r) == r = LineRange(r.from, r.to) /\ r.from \in Nat /\ r.to \in Nat

\* Unless another text with its fingerprint was shown.
SourceIsFresh(s, id, texts) ==
    /\ IsSource(s)
    /\ s.text \in ViewedTexts
    /\ <<id, s.text>> \in texts
    /\ ToldApart(texts, id, s.text.print) => TreeIsItsOwn(s) /\ SpansAreFresh(s)

CacheIsFresh ==
    /\ highlighter = [sources |-> highlighter.sources, kinds |-> highlighter.kinds]
    /\ \A id \in DOMAIN highlighter.sources : SourceIsFresh(highlighter.sources[id], id, seen)

\* What was drawn is the window of the lines shown before.
DrawnIsFresh ==
    drawn.stands =>
        /\ drawn.text \in ViewedTexts
        /\ IsRange(drawn.asked) /\ drawn.asked # NoLines /\ drawn.asked.to <= drawn.text.lines
        /\ visible.to <= drawn.text.lines
        /\ ToldApart(seen, drawn.id, drawn.text.print) =>
             drawn.spans = FreshSpans(drawn.text, drawn.kind, drawn.asked)

ViewInv ==
    /\ IsRange(visible) /\ visible.from <= visible.to
    /\ CacheIsFresh
    /\ DrawnIsFresh

\* Lines that are shown are in the text.
LEMMA ShownIsWithin ==
    ASSUME NEW asked, NEW count \in Nat, asked.from \in Nat, asked.to \in Nat
    PROVE  LET shown == ShownOf(asked, count) IN
           /\ shown.from \in Nat /\ shown.to \in Nat
           /\ shown.from <= shown.to /\ shown.to <= count /\ shown.from <= count
           /\ asked.from < count => shown.from = asked.from
           /\ (asked.from < count /\ asked.from <= asked.to /\ asked.to <= count) => shown.to = asked.to
  BY SMT DEF ShownOf, LineRange, Smallest, Largest

\* Lines that are parsed are some, and so not "none".
LEMMA ParsedAreSome ==
    ASSUME NEW shown, NEW count \in Nat, shown.from \in Nat, shown.to \in Nat,
           shown.from < shown.to, shown.to <= count
    PROVE  ParsedOf(shown, count) # NoLines
  <1>1. ParsedOf(shown, count).to >= 1
    <2>1. ParseMargin \in Nat
      BY ViewConstants, Zenon
    <2> QED BY <2>1, SMT DEF ParsedOf, LineRange, Smallest, Less
  <1>2. NoLines.to = 0
    BY DEF NoLines, LineRange
  <1> QED BY <1>1, <1>2, SMT

\* What is asked for is a window of the text.
LEMMA WindowIsRange ==
    ASSUME NEW lines, NEW count \in Nat, IsRange(lines), lines.from <= lines.to
    PROVE  LET asked == Window(lines, count) IN
           IsRange(asked) /\ asked # NoLines /\ asked.to <= count
  <1> DEFINE asked == Window(lines, count)
  <1>1. CASE count = 0
    <2>1. asked = LineRange(0, 0)
      BY <1>1 DEF Window
    <2>2. asked.from = 0 /\ asked.to = 0 /\ IsRange(asked)
      BY <2>1, SMT DEF LineRange, IsRange
    <2>3. NoLines.from = 1
      BY DEF NoLines, LineRange
    <2> QED BY <2>2, <2>3, <1>1, SMT
  <1>2. CASE count # 0
    <2>1. asked = LineRange(Less(lines.from, ViewMargin), Smallest(lines.to + ViewMargin, count))
      BY <1>2 DEF Window
    <2>2. lines.from \in Nat /\ lines.to \in Nat
      BY DEF IsRange
    <2>3. /\ asked.from = Less(lines.from, ViewMargin)
          /\ asked.to = Smallest(lines.to + ViewMargin, count)
      BY <2>1 DEF LineRange
    <2>4. /\ Less(lines.from, ViewMargin) \in Nat
          /\ Smallest(lines.to + ViewMargin, count) \in Nat
          /\ Smallest(lines.to + ViewMargin, count) <= count
          /\ Smallest(lines.to + ViewMargin, count) = 0 => Less(lines.from, ViewMargin) = 0
      <3>1. ViewMargin \in Nat
        BY ViewConstants, Zenon
      <3>2. PICK a, b, m \in Nat : a = lines.from /\ b = lines.to /\ m = ViewMargin
        BY <2>2, <3>1, Zenon
      <3>3. /\ Less(a, m) \in Nat
            /\ Smallest(b + m, count) \in Nat
            /\ Smallest(b + m, count) <= count
            /\ Smallest(b + m, count) = 0 => Less(a, m) = 0
        <4>1. a <= b
          BY <3>2, Zenon
        <4>2. Less(a, m) = IF a > m THEN a - m ELSE 0
          BY DEF Less
        <4>3. Smallest(b + m, count) = IF b + m < count THEN b + m ELSE count
          BY DEF Smallest
        <4> HIDE <3>2
        <4> QED BY <1>2, <4>1, <4>2, <4>3, SMT
      <3> QED BY <3>2, <3>3, Zenon
    <2>5. IsRange(asked)
      BY <2>1, <2>3, <2>4, Zenon DEF IsRange
    <2>6. NoLines.from = 1 /\ NoLines.to = 0
      BY DEF NoLines, LineRange
    <2> QED BY <2>3, <2>4, <2>5, <2>6, SMT
  <1> QED BY <1>1, <1>2

\* What is computed without a cache.
LEMMA FreshIsFresh ==
    ASSUME NEW id, NEW text \in ViewedTexts, NEW kind, NEW asked,
           asked.from \in Nat, asked.to \in Nat
    PROVE  HighlightWindow(NoEntries, id, text, kind, asked).spans = FreshSpans(text, kind, asked)
  <1> DEFINE count == text.lines
             shown == ShownOf(asked, count)
             fresh == IndexedAs(text, kind)
             source == IF kind = "plain" THEN Uncoloured(fresh, shown, asked)
                       ELSE Coloured(fresh, text, shown, asked, count)
  <1>1. ~Cached(NoEntries, id, text)
    BY DEF Cached, NoEntries
  <1>2. HighlightWindow(NoEntries, id, text, kind, asked).spans =
          IF shown.from = shown.to THEN <<>> ELSE source.spans
    BY <1>1, Zenon DEF HighlightWindow, ShownOf
  <1>3. count \in Nat
    BY ViewConstants
  <1>4. SUFFICES ASSUME shown.from # shown.to
                 PROVE  source.spans = SpansOf(text, kind, asked)
    BY <1>2, Zenon DEF FreshSpans
  <1>5. /\ shown.from \in Nat /\ shown.to \in Nat
        /\ shown.from <= shown.to /\ shown.to <= count
    BY <1>3, ShownIsWithin, Zenon
  <1>6. ParsedOf(shown, count) # NoLines
    <2>1. shown.from < shown.to
      BY <1>4, <1>5, SMT
    <2> QED BY <1>3, <1>5, <2>1, ParsedAreSome, Zenon
  <1>7. CASE kind = "plain"
    <2>1. source.spans = [i \in 1..(shown.to - shown.from) |->
                            [tree |-> NoTree, cut |-> fresh.text, line |-> shown.from + i - 1]]
      BY <1>7 DEF Uncoloured, IndexedAs
    <2>2. fresh.text = text
      BY DEF IndexedAs
    <2> QED BY <1>7, <2>1, <2>2, Zenon DEF SpansOf, TreeOf
  <1>8. CASE kind # "plain"
    <2> DEFINE tree == [text |-> text, kind |-> kind, included |-> ParsedOf(shown, count)]
    <2>1. fresh.tree.included = NoLines /\ fresh.text = text /\ fresh.kind = kind
      BY DEF IndexedAs, NoTree
    <2>2. source = [fresh EXCEPT !.tree = tree, !.window = asked,
                       !.spans = [i \in 1..(shown.to - shown.from) |->
                                   [tree |-> tree, cut |-> text, line |-> shown.from + i - 1]]]
      BY <1>8, <1>6, <2>1, Zenon DEF Coloured, ParsedOf
    <2>3. source.spans = [i \in 1..(shown.to - shown.from) |->
                            [tree |-> tree, cut |-> text, line |-> shown.from + i - 1]]
      BY <2>2 DEF IndexedAs
    <2> QED BY <1>8, <2>3, Zenon DEF SpansOf, TreeOf
  <1> QED BY <1>7, <1>8

\* Nothing is cached, nothing drawn.
LEMMA ViewInitInv == ViewInit => ViewInv
  <1> SUFFICES ASSUME ViewInit PROVE ViewInv
    OBVIOUS
  <1>1. visible.from = 0 /\ visible.to = 0 /\ visible = LineRange(0, 0)
    BY DEF ViewInit, LineRange
  <1>2. IsRange(visible) /\ visible.from <= visible.to
    BY <1>1, SMT DEF IsRange
  <1>3. highlighter = [sources |-> NoEntries, kinds |-> NoEntries] /\ DOMAIN NoEntries = {}
    BY DEF ViewInit, NewHighlighter, NoEntries
  <1>4. CacheIsFresh
    <2>1. highlighter.sources = NoEntries /\ highlighter.kinds = NoEntries
      BY <1>3
    <2> QED BY <1>3, <2>1, Zenon DEF CacheIsFresh
  <1>5. DrawnIsFresh
    <2>1. drawn.stands = FALSE
      BY DEF ViewInit
    <2> QED BY <2>1 DEF DrawnIsFresh
  <1> QED BY <1>2, <1>4, <1>5 DEF ViewInv

\* Texts that are told apart were told apart before.
LEMMA ToldApartBefore ==
    ASSUME NEW id, NEW print, NEW texts, NEW more, texts \subseteq more, ToldApart(more, id, print)
    PROVE  ToldApart(texts, id, print)
  BY Zenon DEF ToldApart

\* What was fresh stays so, whatever else is shown.
LEMMA StaysFresh ==
    ASSUME NEW s, NEW id, NEW texts, NEW more, texts \subseteq more, SourceIsFresh(s, id, texts)
    PROVE  SourceIsFresh(s, id, more)
  BY ToldApartBefore, Zenon DEF SourceIsFresh

\* A source whose language changed has neither tree nor spans; others are kept.
LEMMA SetKindKeeps ==
    ASSUME ViewInv, NEW id, NEW kind, LearnsKind(id, kind)
    PROVE  ViewInv'
  <1> DEFINE old == highlighter.sources
             new == highlighter'.sources
  <1>1. /\ highlighter' = SetKind(highlighter, id, kind)
        /\ visible' = visible /\ seen' = seen /\ drawn' = [stands |-> FALSE]
    BY DEF LearnsKind
  <1>2. /\ DOMAIN new = DOMAIN old
        /\ highlighter' = [sources |-> new, kinds |-> highlighter'.kinds]
        /\ \A s \in DOMAIN old : new[s] =
             IF s = id /\ old[s].kind # kind
             THEN [old[s] EXCEPT !.kind = kind, !.tree = NoTree, !.window = NoLines, !.spans = <<>>]
             ELSE old[s]
    BY <1>1 DEF SetKind
  <1>3. ASSUME NEW s \in DOMAIN old
        PROVE  SourceIsFresh(new[s], s, seen)
    <2>1. SourceIsFresh(old[s], s, seen)
      BY Zenon DEF ViewInv, CacheIsFresh
    <2>2. CASE s = id /\ old[s].kind # kind
      <3>1. PICK o : o = old[s]
        OBVIOUS
      <3>2. new[s] = [o EXCEPT !.kind = kind, !.tree = NoTree, !.window = NoLines, !.spans = <<>>]
        BY <1>2, <2>2, <3>1, Zenon
      <3>3. o = [text |-> o.text, kind |-> o.kind, tree |-> o.tree, window |-> o.window, spans |-> o.spans]
        BY <2>1, <3>1, Zenon DEF IsSource, SourceIsFresh
      <3>4. PICK t : t = o.text
        OBVIOUS
      <3>5. new[s] = [text |-> t, kind |-> kind, tree |-> NoTree, window |-> NoLines, spans |-> <<>>]
        BY <3>2, <3>3, <3>4
      <3>6. IsSource(new[s]) /\ new[s].text = t /\ new[s].tree = NoTree /\ new[s].window = NoLines
        BY <3>5 DEF IsSource
      <3> QED BY <2>1, <3>1, <3>4, <3>6, Zenon DEF TreeIsItsOwn, SpansAreFresh, SourceIsFresh
    <2>3. CASE ~(s = id /\ old[s].kind # kind)
      BY <1>2, <2>1, <2>3, Zenon
    <2> QED BY <2>2, <2>3
  <1>4. CacheIsFresh'
    BY <1>1, <1>2, <1>3, Zenon DEF CacheIsFresh
  <1>5. DrawnIsFresh'
    BY <1>1 DEF DrawnIsFresh
  <1> QED BY <1>1, <1>4, <1>5, Zenon DEF ViewInv

\* A source that is dropped takes nothing of the others along.
LEMMA DropKeeps ==
    ASSUME ViewInv, NEW id, DropsSource(id)
    PROVE  ViewInv'
  <1> DEFINE old == highlighter.sources
             new == highlighter'.sources
  <1>1. /\ highlighter' = Invalidate(highlighter, id)
        /\ visible' = visible /\ seen' = seen /\ drawn' = [stands |-> FALSE]
    BY DEF DropsSource
  <1>2. /\ DOMAIN new = DOMAIN old \ {id}
        /\ highlighter' = [sources |-> new, kinds |-> highlighter'.kinds]
        /\ \A s \in DOMAIN new : new[s] = old[s]
    BY <1>1 DEF Invalidate, Dropped
  <1>3. CacheIsFresh'
    <2>1. \A s \in DOMAIN new : SourceIsFresh(new[s], s, seen)
      BY <1>2, Zenon DEF ViewInv, CacheIsFresh
    <2> QED BY <1>1, <1>2, <2>1, Zenon DEF CacheIsFresh
  <1>4. DrawnIsFresh'
    BY <1>1 DEF DrawnIsFresh
  <1> QED BY <1>1, <1>3, <1>4, Zenon DEF ViewInv

\* A source whose spans are of a tree of its own is as fresh.
FreshSource(s, text, kind) ==
    IsSource(s) /\ s.text = text /\ s.kind = kind /\ TreeIsItsOwn(s) /\ SpansAreFresh(s)

BaseFits(s, text, kind) == IsSource(s) /\ s.text = text /\ s.kind = kind /\ TreeIsItsOwn(s)
IsWindow(asked) == asked.from \in Nat /\ asked.to \in Nat
HasLines(asked, text) == ShownOf(asked, text.lines).from # ShownOf(asked, text.lines).to
IsColouredFresh(s, text, kind, asked) ==
    FreshSource(s, text, kind) /\ s.spans = FreshSpans(text, kind, asked)

\* Lines that are highlighted are so as if nothing was cached, if a source that is
\* cached has this text.
LEMMA ColouredFresh ==
    ASSUME NEW source, NEW text \in ViewedTexts, NEW kind, NEW asked,
           kind # "plain", IsWindow(asked), BaseFits(source, text, kind), HasLines(asked, text)
    PROVE  IsColouredFresh(Coloured(source, text, ShownOf(asked, text.lines), asked, text.lines),
                           text, kind, asked)
  <1> DEFINE count == text.lines
             shown == ShownOf(asked, count)
             included == ParsedOf(shown, count)
             own == [text |-> text, kind |-> kind, included |-> included]
             tree == IF source.tree.included = included THEN source.tree
                     ELSE [text |-> text, kind |-> source.kind, included |-> included]
             spans == [i \in 1..(shown.to - shown.from) |->
                         [tree |-> tree, cut |-> source.text, line |-> shown.from + i - 1]]
             got == Coloured(source, text, shown, asked, count)
  <1> USE DEF BaseFits, IsWindow, HasLines
  <1>1. count \in Nat
    BY ViewConstants
  <1>2. /\ shown.from \in Nat /\ shown.to \in Nat
        /\ shown.from <= shown.to /\ shown.to <= count
    BY <1>1, ShownIsWithin, Zenon
  <1>3. included # NoLines
    <2>1. shown.from < shown.to
      BY <1>2, SMT
    <2> QED BY <1>1, <1>2, <2>1, ParsedAreSome, Zenon
  <1>4. tree = own
    <2>1. CASE source.tree.included = included
      <3>1. NoTree.included = NoLines
        BY DEF NoTree
      <3>2. source.tree # NoTree
        BY <1>3, <2>1, <3>1, Zenon
      <3> QED BY <2>1, <3>2, Zenon DEF TreeIsItsOwn
    <2>2. CASE source.tree.included # included
      BY <2>2, Zenon
    <2> QED BY <2>1, <2>2
  <1>5. got = [source EXCEPT !.tree = tree, !.window = asked, !.spans = spans]
    BY Zenon DEF Coloured, ParsedOf
  <1>6. PICK tr, sp : tr = tree /\ sp = spans
    BY Zenon
  <1>7. source = [text |-> text, kind |-> kind, tree |-> source.tree,
                  window |-> source.window, spans |-> source.spans]
    BY Zenon DEF IsSource
  <1>8. got = [text |-> text, kind |-> kind, tree |-> tr, window |-> asked, spans |-> sp]
    <2>1. got = [source EXCEPT !.tree = tr, !.window = asked, !.spans = sp]
      BY <1>5, <1>6, Zenon
    <2> HIDE DEF got, tree, spans
    <2> QED BY <2>1, <1>7
  <1>9. sp = FreshSpans(text, kind, asked)
    <2>1. TreeOf(text, kind, asked) = tree
      BY <1>4, Zenon DEF TreeOf
    <2>2. spans = SpansOf(text, kind, asked)
      BY <2>1, Zenon DEF SpansOf
    <2> QED BY <1>6, <2>2, Zenon DEF FreshSpans
  <1>10. /\ IsSource(got) /\ got.text = text /\ got.kind = kind /\ got.tree = tr
         /\ got.window = asked /\ got.spans = sp
    BY <1>8 DEF IsSource
  <1>11. tr.included = included
    BY <1>4, <1>6
  <1>12. TreeIsItsOwn(got)
    <2>1. tr = [text |-> text, kind |-> kind, included |-> tr.included]
      BY <1>4, <1>6, <1>11, Zenon
    <2> HIDE DEF got
    <2> QED BY <1>10, <2>1, Zenon DEF TreeIsItsOwn
  <1>13. SpansAreFresh(got)
    BY <1>9, <1>10, Zenon DEF SpansAreFresh
  <1> QED BY <1>9, <1>10, <1>12, <1>13, Zenon DEF FreshSource, IsColouredFresh

\* Without a language likewise.
LEMMA UncolouredFresh ==
    ASSUME NEW text \in ViewedTexts, NEW kind, NEW asked, kind = "plain", HasLines(asked, text)
    PROVE  IsColouredFresh(Uncoloured(IndexedAs(text, kind), ShownOf(asked, text.lines), asked),
                           text, kind, asked)
  <1> DEFINE shown == ShownOf(asked, text.lines)
             spans == [i \in 1..(shown.to - shown.from) |->
                         [tree |-> NoTree, cut |-> text, line |-> shown.from + i - 1]]
             got == Uncoloured(IndexedAs(text, kind), shown, asked)
  <1>1. PICK sp : sp = spans
    BY Zenon
  <1>2. got = [text |-> text, kind |-> kind, tree |-> NoTree, window |-> asked, spans |-> sp]
    <2>1. IndexedAs(text, kind) =
            [text |-> text, kind |-> kind, tree |-> NoTree, window |-> NoLines, spans |-> <<>>]
      BY Zenon DEF IndexedAs
    <2>2. IndexedAs(text, kind).text = text
      BY DEF IndexedAs
    <2>3. got = [IndexedAs(text, kind) EXCEPT !.window = asked, !.spans = sp]
      BY <1>1, <2>2, Zenon DEF Uncoloured
    <2>4. PICK o : o = IndexedAs(text, kind)
      BY Zenon
    <2>5. PICK n : n = got
      BY Zenon
    <2>6. n = [o EXCEPT !.window = asked, !.spans = sp]
      BY <2>3, <2>4, <2>5, Zenon
    <2>7. o = [text |-> text, kind |-> kind, tree |-> NoTree, window |-> NoLines, spans |-> <<>>]
      BY <2>1, <2>4, Zenon
    <2>8. n = [text |-> text, kind |-> kind, tree |-> NoTree, window |-> asked, spans |-> sp]
      BY <2>6, <2>7
    <2> QED BY <2>5, <2>8, Zenon
  <1>3. sp = FreshSpans(text, kind, asked)
    BY <1>1, Zenon DEF FreshSpans, SpansOf, TreeOf, HasLines
  <1>4. /\ IsSource(got) /\ got.text = text /\ got.kind = kind /\ got.tree = NoTree
        /\ got.window = asked /\ got.spans = sp
    BY <1>2 DEF IsSource
  <1> HIDE DEF got
  <1>5. TreeIsItsOwn(got)
    BY <1>4, Zenon DEF TreeIsItsOwn
  <1>6. SpansAreFresh(got)
    BY <1>3, <1>4, Zenon DEF SpansAreFresh
  <1>7. FreshSource(got, text, kind) /\ got.spans = FreshSpans(text, kind, asked)
    BY <1>3, <1>4, <1>5, <1>6, Zenon DEF FreshSource
  <1> QED BY <1>7, Zenon DEF got, IsColouredFresh

\* A text with the fingerprint of one that was shown is that one, if they are
\* told apart.
LEMMA SamePrintSameText ==
    ASSUME NEW id, NEW a, NEW b, NEW texts, <<id, a>> \in texts, <<id, b>> \in texts,
           a.print = b.print, ToldApart(texts, id, b.print)
    PROVE  a = b
  <1>1. PICK p \in texts, q \in texts : p = <<id, a>> /\ q = <<id, b>>
    BY Zenon
  <1>2. p[1] = id /\ q[1] = id /\ p[2] = a /\ q[2] = b
    BY <1>1
  <1>3. p = q
    BY <1>2, Zenon DEF ToldApart
  <1> QED BY <1>2, <1>3, Zenon

\* The cached source that is highlighted, or the new one; how many lines it has.
KeepsTrees(sources, id, text, kind) == Cached(sources, id, text) /\ sources[id].kind = kind
BaseOf(sources, id, text, kind) ==
    IF KeepsTrees(sources, id, text, kind) THEN sources[id] ELSE IndexedAs(text, kind)
CountOf(sources, id, text) == IF Cached(sources, id, text) THEN sources[id].text.lines ELSE text.lines
HighlightedAs(sources, id, text, kind, asked) ==
    LET shown == ShownOf(asked, CountOf(sources, id, text)) IN
    IF kind = "plain" THEN Uncoloured(IndexedAs(text, kind), shown, asked)
    ELSE Coloured(BaseOf(sources, id, text, kind), text, shown, asked, CountOf(sources, id, text))

\* highlight_window in these terms.
LEMMA WindowIs ==
    ASSUME NEW sources, NEW id, NEW text, NEW kind, NEW asked
    PROVE  LET shown == ShownOf(asked, CountOf(sources, id, text))
               got == HighlightedAs(sources, id, text, kind, asked)
           IN  HighlightWindow(sources, id, text, kind, asked) =
                 IF KeepsTrees(sources, id, text, kind) /\ sources[id].window = asked
                 THEN [sources |-> sources, spans |-> sources[id].spans]
                 ELSE IF shown.from = shown.to THEN [sources |-> sources, spans |-> <<>>]
                 ELSE [sources |-> Kept(sources, id, got), spans |-> got.spans]
  BY Zenon DEF HighlightWindow, KeepsTrees, BaseOf, CountOf, HighlightedAs, ShownOf

\* A source of these fields; one whose spans, and tree, are set.
SourceOf(t, k, tr, w, sp) == [text |-> t, kind |-> k, tree |-> tr, window |-> w, spans |-> sp]
SpansSet(o, w, sp) == [o EXCEPT !.window = w, !.spans = sp]
TreeSet(o, tr, w, sp) == [o EXCEPT !.tree = tr, !.window = w, !.spans = sp]

\* What such a source is.
LEMMA SourceOfFields ==
    ASSUME NEW t, NEW k, NEW tr, NEW w, NEW sp
    PROVE  IsSource(SourceOf(t, k, tr, w, sp)) /\ SourceOf(t, k, tr, w, sp).text = t
  BY DEF IsSource, SourceOf

\* What is set, and what is kept.
LEMMA SourceOfSet ==
    ASSUME NEW t, NEW k, NEW r, NEW v, NEW u, NEW tr, NEW w, NEW sp
    PROVE  /\ SpansSet(SourceOf(t, k, r, v, u), w, sp) = SourceOf(t, k, r, w, sp)
           /\ TreeSet(SourceOf(t, k, r, v, u), tr, w, sp) = SourceOf(t, k, tr, w, sp)
  <1>1. PICK o, m, n : /\ o = SourceOf(t, k, r, v, u)
                       /\ m = SpansSet(o, w, sp) /\ n = TreeSet(o, tr, w, sp)
    BY Zenon
  <1>2. m = SourceOf(t, k, r, w, sp)
    BY <1>1 DEF SourceOf, SpansSet
  <1>3. n = SourceOf(t, k, tr, w, sp)
    BY <1>1 DEF SourceOf, TreeSet
  <1> QED BY <1>1, <1>2, <1>3

\* Its text is kept.
LEMMA SetKeepsText ==
    ASSUME NEW o, NEW tr, NEW w, NEW sp, IsSource(o)
    PROVE  /\ IsSource(SpansSet(o, w, sp)) /\ SpansSet(o, w, sp).text = o.text
           /\ IsSource(TreeSet(o, tr, w, sp)) /\ TreeSet(o, tr, w, sp).text = o.text
  <1>1. PICK t, k, r, v, u : o = SourceOf(t, k, r, v, u)
    BY Zenon DEF IsSource, SourceOf
  <1>2. o.text = t
    BY <1>1, SourceOfFields
  <1>3. SpansSet(o, w, sp) = SourceOf(t, k, r, w, sp) /\ TreeSet(o, tr, w, sp) = SourceOf(t, k, tr, w, sp)
    BY <1>1, SourceOfSet
  <1> QED BY <1>2, <1>3, SourceOfFields

\* Whatever is highlighted keeps the text that is cached, or has the new one.
LEMMA HighlightedShape ==
    ASSUME NEW sources, NEW id, NEW text, NEW kind, NEW asked,
           id \in DOMAIN sources => IsSource(sources[id])
    PROVE  LET got == HighlightedAs(sources, id, text, kind, asked) IN
           IsSource(got) /\ got.text \in {text} \cup
             (IF KeepsTrees(sources, id, text, kind) THEN {sources[id].text} ELSE {})
  <1> DEFINE shown == ShownOf(asked, CountOf(sources, id, text))
             base == BaseOf(sources, id, text, kind)
             got == HighlightedAs(sources, id, text, kind, asked)
  <1>1. IsSource(IndexedAs(text, kind)) /\ IndexedAs(text, kind).text = text
    BY DEF IndexedAs, IsSource
  <1>2. CASE kind = "plain"
    <2>1. got = Uncoloured(IndexedAs(text, kind), shown, asked)
      BY <1>2, Zenon DEF HighlightedAs
    <2>2. PICK o, n, sp : o = IndexedAs(text, kind) /\ n = got /\ n = SpansSet(o, asked, sp)
      BY <2>1, Zenon DEF Uncoloured, SpansSet
    <2>3. IsSource(n) /\ n.text = text
      <3>1. IsSource(o) /\ o.text = text
        BY <1>1, <2>2, Zenon
      <3>3. IsSource(n) /\ n.text = o.text
        BY <2>2, <3>1, SetKeepsText
      <3> QED BY <3>1, <3>3
    <2> QED BY <2>2, <2>3, Zenon
  <1>3. CASE kind # "plain"
    <2>1. got = Coloured(base, text, shown, asked, CountOf(sources, id, text))
      BY <1>3, Zenon DEF HighlightedAs
    <2>2. IsSource(base)
      BY <1>1, Zenon DEF BaseOf, KeepsTrees, Cached
    <2>3. PICK o, n, tr, sp : /\ o = base /\ n = got
                              /\ n = TreeSet(o, tr, asked, sp)
      BY <2>1, Zenon DEF Coloured, TreeSet
    <2>4. IsSource(n) /\ n.text = base.text
      <3>1. IsSource(o) /\ o.text = base.text
        BY <2>2, <2>3, Zenon
      <3>3. IsSource(n) /\ n.text = o.text
        BY <2>3, <3>1, SetKeepsText
      <3> QED BY <3>1, <3>3, Zenon
    <2>5. base.text = IF KeepsTrees(sources, id, text, kind) THEN sources[id].text ELSE text
      BY <1>1, Zenon DEF BaseOf
    <2> QED BY <2>3, <2>4, <2>5, Zenon
  <1> QED BY <1>2, <1>3

HighlightsRight(sources, id, text, kind, asked) ==
    /\ CountOf(sources, id, text) = text.lines
    /\ Cached(sources, id, text) => sources[id].text = text
    /\ HasLines(asked, text) =>
         IsColouredFresh(HighlightedAs(sources, id, text, kind, asked), text, kind, asked)

\* The text with which the highlighted source ends up, told apart, is this one,
\* and so the source is fresh.
LEMMA HighlightedFresh ==
    ASSUME NEW sources, NEW id, NEW text \in ViewedTexts, NEW kind, NEW asked, NEW more,
           IsWindow(asked), <<id, text>> \in more,
           \A s \in DOMAIN sources : SourceIsFresh(sources[s], s, more),
           ToldApart(more, id, text.print)
    PROVE  HighlightsRight(sources, id, text, kind, asked)
  <1>1. Cached(sources, id, text) => sources[id].text = text
    BY SamePrintSameText, Zenon DEF Cached, SourceIsFresh
  <1>2. CountOf(sources, id, text) = text.lines
    BY <1>1, Zenon DEF CountOf
  <1>3. ASSUME HasLines(asked, text)
        PROVE  IsColouredFresh(HighlightedAs(sources, id, text, kind, asked), text, kind, asked)
    <2> DEFINE shown == ShownOf(asked, text.lines)
               base == BaseOf(sources, id, text, kind)
    <2>1. CASE kind = "plain"
      <3>1. HighlightedAs(sources, id, text, kind, asked) = Uncoloured(IndexedAs(text, kind), shown, asked)
        BY <1>2, <2>1, Zenon DEF HighlightedAs
      <3> QED BY <1>3, <2>1, <3>1, UncolouredFresh, Zenon
    <2>2. CASE kind # "plain"
      <3>1. HighlightedAs(sources, id, text, kind, asked) = Coloured(base, text, shown, asked, text.lines)
        BY <1>2, <2>2, Zenon DEF HighlightedAs
      <3>2. BaseFits(base, text, kind)
        <4>1. CASE KeepsTrees(sources, id, text, kind)
          <5>1. base = sources[id] /\ base.text = text /\ base.kind = kind /\ id \in DOMAIN sources
            BY <1>1, <4>1, Zenon DEF BaseOf, KeepsTrees, Cached
          <5>2. SourceIsFresh(base, id, more)
            BY <5>1, Zenon
          <5> QED BY <5>1, <5>2, Zenon DEF SourceIsFresh, BaseFits
        <4>2. CASE ~KeepsTrees(sources, id, text, kind)
          <5>1. base = IndexedAs(text, kind)
            BY <4>2, Zenon DEF BaseOf
          <5>2. IndexedAs(text, kind) = SourceOf(text, kind, NoTree, NoLines, <<>>)
            BY Zenon DEF IndexedAs, SourceOf
          <5>3. /\ SourceOf(text, kind, NoTree, NoLines, <<>>).kind = kind
                /\ SourceOf(text, kind, NoTree, NoLines, <<>>).tree = NoTree
            BY DEF SourceOf
          <5>4. /\ IsSource(SourceOf(text, kind, NoTree, NoLines, <<>>))
                /\ SourceOf(text, kind, NoTree, NoLines, <<>>).text = text
            BY SourceOfFields
          <5> QED BY <5>1, <5>2, <5>3, <5>4, Zenon DEF TreeIsItsOwn, BaseFits
        <4> QED BY <4>1, <4>2
      <3> QED BY <1>3, <2>2, <3>1, <3>2, ColouredFresh, Zenon
    <2> QED BY <2>1, <2>2
  <1> QED BY <1>1, <1>2, <1>3, Zenon DEF HighlightsRight

AllFresh(sources, texts) == \A s \in DOMAIN sources : SourceIsFresh(sources[s], s, texts)
GotFresh(got, id, text, kind, asked, texts) ==
    /\ AllFresh(got.sources, texts)
    /\ ToldApart(texts, id, text.print) => got.spans = FreshSpans(text, kind, asked)

\* A table of fresh sources stays one, and what is handed out is fresh, if the
\* text is told apart.
LEMMA WindowIsFresh ==
    ASSUME NEW sources, NEW id, NEW text \in ViewedTexts, NEW kind, NEW asked, NEW texts,
           IsRange(asked), asked # NoLines,
           AllFresh(sources, texts)
    PROVE  GotFresh(HighlightWindow(sources, id, text, kind, asked), id, text, kind, asked,
                    texts \cup {<<id, text>>})
  <1> DEFINE got == HighlightWindow(sources, id, text, kind, asked)
             more == texts \cup {<<id, text>>}
             shown == ShownOf(asked, CountOf(sources, id, text))
             new == HighlightedAs(sources, id, text, kind, asked)
             hit == KeepsTrees(sources, id, text, kind) /\ sources[id].window = asked
  <1>1. \A s \in DOMAIN sources : SourceIsFresh(sources[s], s, more)
    BY StaysFresh, Zenon DEF AllFresh
  <1>2. asked.from \in Nat /\ asked.to \in Nat /\ <<id, text>> \in more
    BY Zenon DEF IsRange
  <1>3. ToldApart(more, id, text.print) => HighlightsRight(sources, id, text, kind, asked)
    <2> HIDE DEF more
    <2> QED BY <1>1, <1>2, HighlightedFresh, Zenon DEF IsWindow
  <1>4. got = IF hit THEN [sources |-> sources, spans |-> sources[id].spans]
              ELSE IF shown.from = shown.to THEN [sources |-> sources, spans |-> <<>>]
              ELSE [sources |-> Kept(sources, id, new), spans |-> new.spans]
    BY WindowIs, Zenon
  <1> HIDE DEF got, more, new
  <1>5. CASE hit
    <2>1. got.sources = sources /\ got.spans = sources[id].spans
      BY <1>4, <1>5
    <2>2. ASSUME ToldApart(more, id, text.print)
          PROVE  got.spans = FreshSpans(text, kind, asked)
      <3>1. id \in DOMAIN sources /\ sources[id].text = text /\ sources[id].kind = kind
        BY <1>3, <1>5, <2>2, Zenon DEF KeepsTrees, Cached, HighlightsRight
      <3>2. SpansAreFresh(sources[id])
        BY <1>1, <2>2, <3>1, Zenon DEF SourceIsFresh
      <3> QED BY <1>5, <2>1, <3>1, <3>2, Zenon DEF SpansAreFresh
    <2> QED BY <1>1, <2>1, <2>2, Zenon DEF got, more, AllFresh, GotFresh
  <1>6. CASE ~hit /\ shown.from = shown.to
    <2>1. got.sources = sources /\ got.spans = <<>>
      BY <1>4, <1>6
    <2>2. ToldApart(more, id, text.print) => FreshSpans(text, kind, asked) = <<>>
      BY <1>3, <1>6, Zenon DEF FreshSpans, HighlightsRight
    <2> QED BY <1>1, <2>1, <2>2, Zenon DEF got, more, AllFresh, GotFresh
  <1>7. CASE ~hit /\ shown.from # shown.to
    <2>1. got.sources = Kept(sources, id, new) /\ got.spans = new.spans
      BY <1>4, <1>7
    <2>2. ToldApart(more, id, text.print) =>
            FreshSource(new, text, kind) /\ new.spans = FreshSpans(text, kind, asked)
      BY <1>3, <1>7, Zenon DEF HighlightsRight, HasLines, IsColouredFresh, new
    <2>3. SourceIsFresh(new, id, more)
      <3>1. id \in DOMAIN sources => IsSource(sources[id])
        BY <1>1, Zenon DEF SourceIsFresh
      <3>2. IsSource(new) /\ new.text \in {text} \cup
              (IF KeepsTrees(sources, id, text, kind) THEN {sources[id].text} ELSE {})
        BY <3>1, HighlightedShape, Zenon DEF new
      <3>3. \/ new.text = text
            \/ Cached(sources, id, text) /\ new.text = sources[id].text
        BY <3>2, Zenon DEF KeepsTrees
      <3>4. new.text.print = text.print /\ new.text \in ViewedTexts /\ <<id, new.text>> \in more
        BY <1>1, <1>2, <3>3, Zenon DEF Cached, SourceIsFresh
      <3>5. ToldApart(more, id, new.text.print) => TreeIsItsOwn(new) /\ SpansAreFresh(new)
        BY <2>2, <3>4, Zenon DEF FreshSource
      <3> QED BY <3>2, <3>4, <3>5, Zenon DEF SourceIsFresh
    <2>4. /\ DOMAIN Kept(sources, id, new) = DOMAIN sources \cup {id}
          /\ \A s \in DOMAIN Kept(sources, id, new) :
               Kept(sources, id, new)[s] = IF s = id THEN new ELSE sources[s]
      BY DEF Kept
    <2>5. \A s \in DOMAIN got.sources : SourceIsFresh(got.sources[s], s, more)
      BY <1>1, <2>1, <2>3, <2>4, Zenon
    <2> QED BY <2>1, <2>2, <2>5, Zenon DEF got, more, AllFresh, GotFresh
  <1> QED BY <1>5, <1>6, <1>7

\* A frame is drawn with what is fresh, and caches it.
LEMMA DrawKeeps ==
    ASSUME ViewInv, NEW id, NEW text \in ViewedTexts, NEW screen \in Screens,
           DrawsFrame(id, text, screen)
    PROVE  ViewInv'
  <1> DEFINE asked == Window(visible, text.lines)
             kind == KindOf(highlighter, id, text)
             got == HighlightWindow(highlighter.sources, id, text, kind, asked)
  <1>1. /\ screen.to <= text.lines
        /\ highlighter' = [highlighter EXCEPT !.sources = got.sources]
        /\ visible' = screen
        /\ seen' = seen \cup {<<id, text>>}
        /\ drawn' = [stands |-> TRUE, id |-> id, text |-> text, kind |-> kind,
                      asked |-> asked, spans |-> got.spans]
    BY Zenon DEF DrawsFrame
  <1>2. text.lines \in Nat
    BY ViewConstants, Zenon
  <1>3. IsRange(asked) /\ asked # NoLines /\ asked.to <= text.lines
    BY <1>2, WindowIsRange, Zenon DEF ViewInv
  <1>4. \A s \in DOMAIN highlighter.sources : SourceIsFresh(highlighter.sources[s], s, seen)
    BY Zenon DEF ViewInv, CacheIsFresh
  <1>5. PICK k, w : k = kind /\ w = asked
    BY Zenon
  <1>6. /\ \A s \in DOMAIN got.sources : SourceIsFresh(got.sources[s], s, seen')
        /\ ToldApart(seen', id, text.print) => got.spans = FreshSpans(text, kind, asked)
    <2>1. IsRange(w) /\ w # NoLines
      BY <1>3, <1>5, Zenon
    <2>2. PICK sources, texts : sources = highlighter.sources /\ texts = seen
      BY Zenon
    <2>3. AllFresh(sources, texts)
      BY <1>4, <2>2, Zenon DEF AllFresh
    <2>4. GotFresh(HighlightWindow(sources, id, text, k, w), id, text, k, w, texts \cup {<<id, text>>})
      BY <2>1, <2>3, WindowIsFresh, Zenon
    <2> QED BY <1>1, <1>5, <2>2, <2>4, Zenon DEF GotFresh, AllFresh
  <1>7. PICK g : g = got
    BY Zenon
  <1>8. CacheIsFresh'
    <2>1. highlighter = [sources |-> highlighter.sources, kinds |-> highlighter.kinds]
      BY Zenon DEF ViewInv, CacheIsFresh
    <2>2. highlighter' = [highlighter EXCEPT !.sources = g.sources]
      BY <1>1, <1>7, Zenon
    <2>3. highlighter' = [sources |-> g.sources, kinds |-> highlighter.kinds]
      BY <2>1, <2>2
    <2>4. highlighter'.sources = g.sources /\ highlighter'.kinds = highlighter.kinds
      BY <2>3
    <2> QED BY <1>6, <1>7, <2>3, <2>4, Zenon DEF CacheIsFresh
  <1>9. /\ drawn'.text = text /\ drawn'.id = id /\ drawn'.kind = k /\ drawn'.asked = w
        /\ drawn'.spans = g.spans
    <2>1. drawn' = [stands |-> TRUE, id |-> id, text |-> text, kind |-> k, asked |-> w, spans |-> g.spans]
      BY <1>1, <1>5, <1>7, Zenon
    <2> QED BY <2>1
  <1>10. DrawnIsFresh'
    BY <1>1, <1>3, <1>5, <1>6, <1>7, <1>9, Zenon DEF DrawnIsFresh
  <1>11. IsRange(visible') /\ visible'.from <= visible'.to
    <2>1. screen \in [from : Nat, to : Nat] /\ screen.from <= screen.to
      BY ViewConstants, Zenon
    <2>2. screen = [from |-> screen.from, to |-> screen.to] /\ screen.from \in Nat /\ screen.to \in Nat
      BY <2>1
    <2> QED BY <1>1, <2>1, <2>2, Zenon DEF IsRange, LineRange
  <1> QED BY <1>8, <1>10, <1>11, Zenon DEF ViewInv

\* ViewInv is inductive.
LEMMA ViewStaysFresh == ViewInv /\ [ViewNext]_viewVars => ViewInv'
  <1> SUFFICES ASSUME ViewInv, [ViewNext]_viewVars PROVE ViewInv'
    OBVIOUS
  <1>1. CASE ViewNext
    <2>1. PICK id \in ViewedIds :
            \/ \E text \in ViewedTexts, screen \in Screens : DrawsFrame(id, text, screen)
            \/ \E kind \in Languages : LearnsKind(id, kind)
            \/ DropsSource(id)
      BY <1>1, Zenon DEF ViewNext
    <2> QED BY <2>1, DrawKeeps, SetKindKeeps, DropKeeps, Zenon
  <1>2. CASE UNCHANGED viewVars
    <2>1. /\ highlighter' = highlighter /\ visible' = visible /\ drawn' = drawn /\ seen' = seen
      BY <1>2, Zenon DEF viewVars
    <2> QED BY <2>1, Zenon DEF ViewInv, CacheIsFresh, DrawnIsFresh
  <1> QED BY <1>1, <1>2

\* Fresh spans of the lines asked for are those of the lines now shown, as far as
\* they reach.
LEMMA FreshLines ==
    ASSUME ViewInv, drawn.stands, drawn.spans = FreshSpans(drawn.text, drawn.kind, drawn.asked)
    PROVE  LinesHaveTheirColours
  <1> DEFINE count == drawn.text.lines
             shown == ShownOf(drawn.asked, count)
  <1>1. PICK n, from, to, first, last \in Nat :
          /\ n = count /\ from = drawn.asked.from /\ to = drawn.asked.to
          /\ first = visible.from /\ last = visible.to
          /\ to <= n /\ last <= n
    <2>1. count \in Nat
      BY ViewConstants, Zenon DEF ViewInv, DrawnIsFresh
    <2> QED BY <2>1, Zenon DEF ViewInv, DrawnIsFresh, IsRange
  <1>2. PICK a, b \in Nat : a = shown.from /\ b = shown.to
    BY <1>1, ShownIsWithin, Zenon
  <1>3. /\ a <= b /\ b <= n
        /\ from < n => a = from
        /\ (from < n /\ from <= to) => b = to
    BY <1>1, <1>2, ShownIsWithin, Zenon
  <1> SUFFICES ASSUME NEW line \in first..(last - 1)
               PROVE  /\ \A i \in DOMAIN PaintedWith(line) :
                            PaintedWith(line)[i].line = line /\ PaintedWith(line)[i].cut = drawn.text
                      /\ (from <= line /\ line < to) => PaintedWith(line) # <<>>
    BY <1>1, Zenon DEF LinesHaveTheirColours
  <1>4. line \in Nat /\ line < n
    BY <1>1, SMT
  <1>5. CASE from <= line /\ line + 1 - from \in DOMAIN drawn.spans
    <2>1. PICK i \in Nat : i = line + 1 - from
      BY <1>4, <1>5, SMT
    <2>2. PaintedWith(line) = <<drawn.spans[i]>>
      BY <1>1, <1>5, <2>1, Zenon DEF PaintedWith
    <2>3. a = from
      BY <1>3, <1>4, <1>5, SMT
    <2>4. a # b
      <3>1. SUFFICES ASSUME a = b PROVE FALSE
        OBVIOUS
      <3>2. drawn.spans = <<>>
        BY <1>2, <3>1, Zenon DEF FreshSpans
      <3>3. DOMAIN drawn.spans = {}
        BY <3>2
      <3> QED BY <1>5, <3>3, Zenon
    <2>5. drawn.spans = SpansOf(drawn.text, drawn.kind, drawn.asked)
      BY <1>2, <2>4, Zenon DEF FreshSpans
    <2>6. drawn.spans[i].line = a + i - 1 /\ drawn.spans[i].cut = drawn.text
      <3>1. i \in 1..(shown.to - shown.from)
        BY <1>5, <2>1, <2>5, Zenon DEF SpansOf
      <3>2. drawn.spans[i] = [tree |-> TreeOf(drawn.text, drawn.kind, drawn.asked),
                              cut |-> drawn.text, line |-> shown.from + i - 1]
        BY <2>5, <3>1, Zenon DEF SpansOf
      <3> QED BY <1>2, <3>2
    <2>7. a + i - 1 = line
      BY <1>4, <2>1, <2>3, SMT
    <2>8. PICK p : p = drawn.spans[i]
      OBVIOUS
    <2>9. PaintedWith(line) = <<p>> /\ p.line = line /\ p.cut = drawn.text
      BY <2>2, <2>6, <2>7, <2>8, Zenon
    <2> QED BY <2>9
  <1>6. CASE ~(from <= line /\ line + 1 - from \in DOMAIN drawn.spans)
    <2>1. PaintedWith(line) = <<>>
      BY <1>1, <1>6, Zenon DEF PaintedWith
    <2>2. ~(from <= line /\ line < to)
      <3>1. SUFFICES ASSUME from <= line, line < to PROVE FALSE
        OBVIOUS
      <3>2. a = from /\ b = to /\ a # b /\ line + 1 - from \in 1..(b - a)
        BY <1>3, <1>4, <3>1, SMT
      <3>3. drawn.spans = SpansOf(drawn.text, drawn.kind, drawn.asked)
        BY <1>2, <3>2, Zenon DEF FreshSpans
      <3>4. line + 1 - from \in DOMAIN drawn.spans
        BY <1>2, <3>2, <3>3, Zenon DEF SpansOf
      <3> QED BY <1>6, <3>1, <3>4, Zenon
    <2>3. DOMAIN PaintedWith(line) = {}
      BY <2>1
    <2> QED BY <2>2, <2>3, Zenon
  <1> QED BY <1>5, <1>6

\* What is fresh is what the view promises.
LEMMA FreshShows == ViewInv => LinesShowTheirColours
  <1> SUFFICES ASSUME ViewInv, drawn.stands, ToldApart(seen, drawn.id, drawn.text.print)
               PROVE  CachedAsFresh /\ LinesHaveTheirColours
    BY Zenon DEF LinesShowTheirColours
  <1>1. /\ drawn.text \in ViewedTexts /\ drawn.asked.from \in Nat /\ drawn.asked.to \in Nat
        /\ drawn.spans = FreshSpans(drawn.text, drawn.kind, drawn.asked)
    BY Zenon DEF ViewInv, DrawnIsFresh, IsRange
  <1>2. CachedAsFresh
    <2>1. PICK id, text, kind, asked :
            id = drawn.id /\ text = drawn.text /\ kind = drawn.kind /\ asked = drawn.asked
      BY Zenon
    <2>2. text \in ViewedTexts /\ asked.from \in Nat /\ asked.to \in Nat
      BY <1>1, <2>1, Zenon
    <2>3. HighlightWindow(NoEntries, id, text, kind, asked).spans = FreshSpans(text, kind, asked)
      BY <2>2, FreshIsFresh, Zenon
    <2> QED BY <1>1, <2>1, <2>3, Zenon DEF CachedAsFresh
  <1>3. LinesHaveTheirColours
    BY <1>1, FreshLines, Zenon
  <1> QED BY <1>2, <1>3

\* Whatever texts, languages and windows came before, and for every margin, a frame
\* is drawn with the spans an empty cache would give, and each line shown is
\* painted with its own, as long as fingerprints tell the source's texts apart.
\* [highlight_window, set_kind, CodeView::paint]
THEOREM LinesAlwaysShowTheirColours == ViewSpec => []LinesShowTheirColours
  BY ViewInitInv, ViewStaysFresh, FreshShows, PTL DEF ViewSpec

-----------------------------------------------------------------------------
(* The tree of values *)

Node ==
    [row : Rows, children : Seq(Nat), listed : BOOLEAN, fetched : Nat, more : BOOLEAN,
     total : Nat \cup {NoTotal}, open : BOOLEAN]
Tree(nodes, roots, watches) == [nodes |-> nodes, roots |-> roots, watches |-> watches]

\* What a node's rows are to be.
Size(o) == Len(Props[o])
Due(o, fetched) == Internals[o] \o SubSeq(Props[o], 1, fetched)

\* Node `n`, in the place `id` of a tree of these nodes, has its object's rows.
RightAs(nodes, id, n) ==
    /\ ~n.listed => n.children = <<>> /\ n.fetched = 0
    /\ n.listed =>
         /\ ~n.row.accessor /\ n.row.object \in Objects
         /\ n.fetched <= Size(n.row.object)
         /\ ~n.more => n.fetched = Size(n.row.object)
         /\ Len(n.children) = Len(Internals[n.row.object]) + n.fetched
         /\ \A i \in 1..Len(n.children) :
              Same(nodes[n.children[i]].row, Due(n.row.object, n.fetched)[i])
    /\ \A i \in 1..Len(n.children) : n.children[i] \in (id + 1)..Len(nodes)

\* Each place is in one list of children, or of roots, once.
RootsApart(nodes, roots, watches) ==
    /\ watches <= Len(roots)
    /\ \A i \in 1..Len(roots) : roots[i] \in 1..Len(nodes)
    /\ \A i, j \in 1..Len(roots) : roots[i] = roots[j] => i = j
    /\ \A id \in 1..Len(nodes) : \A i \in 1..Len(nodes[id].children), j \in 1..Len(roots) :
         nodes[id].children[i] # roots[j]
ChildrenApart(nodes) ==
    \A id, other \in 1..Len(nodes) :
        \A i \in 1..Len(nodes[id].children), j \in 1..Len(nodes[other].children) :
            nodes[id].children[i] = nodes[other].children[j] => id = other /\ i = j

LEMMA TreeFields ==
    ASSUME NEW nodes, NEW roots, NEW watches
    PROVE  /\ Tree(nodes, roots, watches).nodes = nodes
           /\ Tree(nodes, roots, watches).roots = roots
           /\ Tree(nodes, roots, watches).watches = watches
  BY DEF Tree

\* What is due, row by row.
LEMMA DueIs ==
    ASSUME NEW o \in Objects, NEW fetched \in 0..Size(o)
    PROVE  /\ Internals[o] \in Seq(Rows) /\ Props[o] \in Seq(Rows)
           /\ Size(o) \in Nat /\ Len(Internals[o]) \in Nat
           /\ Due(o, fetched) \in Seq(Rows)
           /\ Len(Due(o, fetched)) = Len(Internals[o]) + fetched
           /\ \A i \in 1..(Len(Internals[o]) + fetched) :
                Due(o, fetched)[i] = IF i <= Len(Internals[o]) THEN Internals[o][i]
                                     ELSE Props[o][i - Len(Internals[o])]
  <1>1. Internals[o] \in Seq(Rows) /\ Props[o] \in Seq(Rows)
    BY ValuesConstants, Zenon
  <1>2. PICK p \in Seq(Rows), q \in Seq(Rows) : p = Props[o] /\ q = Internals[o]
    BY <1>1, Zenon
  <1>3. Len(p) \in Nat /\ Len(q) \in Nat /\ fetched \in Nat /\ fetched <= Len(p)
    BY <1>2, LenProperties, SMT DEF Size
  <1>4. \A i \in 1..fetched : p[i] \in Rows
    BY <1>3, ElementOfSeq, SMT
  <1>5. PICK s : s = SubSeq(p, 1, fetched)
    OBVIOUS
  <1>6. /\ s \in Seq(Rows) /\ Len(s) = fetched
        /\ \A i \in 1..fetched : s[i] = p[i]
    <2>1. /\ SubSeq(p, 1, fetched) \in Seq(Rows)
          /\ Len(SubSeq(p, 1, fetched)) = IF 1 <= fetched THEN fetched - 1 + 1 ELSE 0
          /\ \A i \in 1..(fetched - 1 + 1) : SubSeq(p, 1, fetched)[i] = p[1 + i - 1]
      BY <1>3, <1>4, SubSeqProperties
    <2> QED BY <1>3, <1>5, <2>1, SMT
  <1>7. /\ q \o s \in Seq(Rows) /\ Len(q \o s) = Len(q) + Len(s)
        /\ \A i \in 1..(Len(q) + Len(s)) : (q \o s)[i] = IF i <= Len(q) THEN q[i] ELSE s[i - Len(q)]
    BY <1>6, ConcatProperties, Zenon
  <1>8. Due(o, fetched) = q \o s
    BY <1>2, <1>5, Zenon DEF Due
  <1>9. \A i \in 1..(Len(q) + fetched) :
          (q \o s)[i] = IF i <= Len(q) THEN q[i] ELSE p[i - Len(q)]
    <2> TAKE i \in 1..(Len(q) + fetched)
    <2>1. CASE i <= Len(q)
      BY <1>6, <1>7, <2>1, Zenon
    <2>2. CASE ~(i <= Len(q))
      <3>1. i - Len(q) \in 1..fetched
        BY <1>3, <2>2, SMT
      <3> QED BY <1>6, <1>7, <2>2, <3>1, Zenon
    <2> QED BY <2>1, <2>2
  <1> QED BY <1>1, <1>2, <1>3, <1>6, <1>7, <1>8, <1>9, Zenon DEF Size

\* What was due stays due.
LEMMA DueGrows ==
    ASSUME NEW o \in Objects, NEW few \in 0..Size(o), NEW many \in 0..Size(o), few <= many,
           NEW i \in 1..(Len(Internals[o]) + few)
    PROVE  Due(o, few)[i] = Due(o, many)[i]
  <1>1. Len(Internals[o]) \in Nat /\ Size(o) \in Nat
    BY DueIs, Zenon
  <1>2. i \in 1..(Len(Internals[o]) + many)
    BY <1>1, SMT
  <1>3. ASSUME NEW fetched \in 0..Size(o), i \in 1..(Len(Internals[o]) + fetched)
        PROVE  Due(o, fetched)[i] = IF i <= Len(Internals[o]) THEN Internals[o][i]
                                    ELSE Props[o][i - Len(Internals[o])]
    BY <1>3, DueIs, Zenon
  <1>4. PICK due : due = IF i <= Len(Internals[o]) THEN Internals[o][i]
                         ELSE Props[o][i - Len(Internals[o])]
    OBVIOUS
  <1>5. Due(o, few)[i] = due /\ Due(o, many)[i] = due
    BY <1>2, <1>3, <1>4
  <1> QED BY <1>5, Zenon

\* A getter may become its value, and what was right stays so.
LEMMA SameStays ==
    ASSUME NEW was, NEW now, NEW row, Same(was, row), now = was \/ (was.accessor /\ ~now.accessor)
    PROVE  Same(now, row)
  BY Zenon DEF Same
-----------------------------------------------------------------------------
(* More nodes, other roots, another node in a place *)

Sound(nodes, roots, watches) ==
    /\ nodes \in Seq(Node) /\ roots \in Seq(Nat) /\ watches \in Nat
    /\ \A id \in 1..Len(nodes) : RightAs(nodes, id, nodes[id])
    /\ ChildrenApart(nodes)
    /\ RootsApart(nodes, roots, watches)

Grown(nodes, more, rows) ==
    /\ more \in Seq(Node) /\ Len(more) = Len(nodes) + Len(rows)
    /\ \A i \in 1..Len(nodes) : more[i] = nodes[i]
    /\ \A i \in 1..Len(rows) : more[Len(nodes) + i] = NewNode(rows[i])

LEMMA NewNodeIs ==
    ASSUME NEW row \in Rows
    PROVE  /\ NewNode(row) \in Node
           /\ NewNode(row).row = row /\ ~NewNode(row).listed
           /\ NewNode(row).children = <<>> /\ NewNode(row).fetched = 0
           /\ NewNode(row).total = NoTotal
  <1>1. <<>> \in Seq(Nat)
    OBVIOUS
  <1>2. row.accessor \in BOOLEAN /\ (~row.accessor /\ row.object # NoObject) \in BOOLEAN
    BY DEF Rows
  <1> QED BY <1>1, <1>2 DEF NewNode, Node

LEMMA AllocGrows ==
    ASSUME NEW nodes \in Seq(Node), NEW rows \in Seq(Rows), NEW more,
           more = nodes \o [i \in DOMAIN rows |-> NewNode(rows[i])]
    PROVE  Grown(nodes, more, rows)
  <1>1. PICK fresh : fresh = [i \in DOMAIN rows |-> NewNode(rows[i])]
    OBVIOUS
  <1>2. Len(rows) \in Nat /\ DOMAIN rows = 1..Len(rows) /\ \A i \in 1..Len(rows) : rows[i] \in Rows
    BY LenProperties, ElementOfSeq
  <1>3. \A i \in 1..Len(rows) : NewNode(rows[i]) \in Node
    BY <1>2, NewNodeIs, Zenon
  <1>4. /\ fresh \in Seq(Node) /\ Len(fresh) = Len(rows)
        /\ \A i \in 1..Len(rows) : fresh[i] = NewNode(rows[i])
    BY <1>1, <1>2, <1>3, SMT
  <1>5. /\ nodes \o fresh \in Seq(Node) /\ Len(nodes \o fresh) = Len(nodes) + Len(fresh)
        /\ \A i \in 1..(Len(nodes) + Len(fresh)) :
             (nodes \o fresh)[i] = IF i <= Len(nodes) THEN nodes[i] ELSE fresh[i - Len(nodes)]
    BY <1>4, ConcatProperties, Zenon
  <1>6. Len(nodes) \in Nat
    BY LenProperties
  <1>7. more \in Seq(Node) /\ Len(more) = Len(nodes) + Len(rows)
    BY <1>1, <1>4, <1>5, Zenon
  <1>8. ASSUME NEW i \in 1..Len(nodes) PROVE more[i] = nodes[i]
    <2>1. i \in 1..(Len(nodes) + Len(fresh)) /\ i <= Len(nodes)
      BY <1>2, <1>4, <1>6, SMT
    <2> QED BY <1>1, <1>5, <2>1, Zenon
  <1>9. ASSUME NEW i \in 1..Len(rows) PROVE more[Len(nodes) + i] = NewNode(rows[i])
    <2>1. /\ Len(nodes) + i \in 1..(Len(nodes) + Len(fresh)) /\ ~(Len(nodes) + i <= Len(nodes))
          /\ Len(nodes) + i - Len(nodes) = i
      BY <1>2, <1>4, <1>6, SMT
    <2>2. (nodes \o fresh)[Len(nodes) + i] = fresh[Len(nodes) + i - Len(nodes)]
      BY <1>5, <2>1, SMT
    <2> QED BY <1>1, <1>4, <2>1, <2>2
  <1> QED BY <1>7, <1>8, <1>9, Zenon DEF Grown

LEMMA Lengths ==
    ASSUME NEW nodes \in Seq(Node)
    PROVE  /\ Len(nodes) \in Nat
           /\ \A id \in 1..Len(nodes) :
                /\ nodes[id] \in Node /\ nodes[id].row \in Rows
                /\ nodes[id].children \in Seq(Nat) /\ Len(nodes[id].children) \in Nat
                /\ \A i \in 1..Len(nodes[id].children) : nodes[id].children[i] \in Nat
                /\ nodes[id].fetched \in Nat
  <1>1. Len(nodes) \in Nat /\ \A id \in 1..Len(nodes) : nodes[id] \in Node
    BY LenProperties, ElementOfSeq
  <1>2. \A n \in Node : n.row \in Rows /\ n.children \in Seq(Nat) /\ n.fetched \in Nat
    BY DEF Node
  <1>3. \A s \in Seq(Nat) : Len(s) \in Nat /\ \A i \in 1..Len(s) : s[i] \in Nat
    BY LenProperties, ElementOfSeq
  <1> QED BY <1>1, <1>2, <1>3, Zenon

\* A place in the tree: where it is and which place it names.
LEMMA RightStays ==
    ASSUME NEW nodes, NEW more, NEW id \in Nat, NEW n,
           Len(nodes) \in Nat, Len(more) \in Nat, Len(nodes) <= Len(more),
           RightAs(nodes, id, n),
           \A k \in 1..Len(nodes) :
              \/ more[k].row = nodes[k].row
              \/ nodes[k].row.accessor /\ ~more[k].row.accessor
    PROVE  RightAs(more, id, n)
  <1>1. \A i \in 1..Len(n.children) : n.children[i] \in (id + 1)..Len(nodes)
    BY Zenon DEF RightAs
  <1>2. \A k : k \in (id + 1)..Len(nodes) => k \in 1..Len(nodes) /\ k \in (id + 1)..Len(more)
    BY SMT
  <1>3. ASSUME n.listed, NEW i \in 1..Len(n.children)
        PROVE  Same(more[n.children[i]].row, Due(n.row.object, n.fetched)[i])
    <2>1. n.children[i] \in 1..Len(nodes)
      BY <1>1, <1>2, Zenon
    <2>2. Same(nodes[n.children[i]].row, Due(n.row.object, n.fetched)[i])
      BY <1>3, Zenon DEF RightAs
    <2> QED BY <2>1, <2>2, SameStays, Zenon
  <1> QED BY <1>1, <1>2, <1>3, Zenon DEF RightAs

LEMMA GrownIsSound ==
    ASSUME NEW nodes, NEW roots, NEW watches, NEW more, NEW rows \in Seq(Rows),
           Sound(nodes, roots, watches), Grown(nodes, more, rows)
    PROVE  /\ Sound(more, roots, watches)
           /\ \A id \in 1..Len(more) :
                /\ id > Len(nodes) => more[id].children = <<>>
                /\ \A i \in 1..Len(more[id].children) : more[id].children[i] \in 1..Len(nodes)
  <1> DEFINE old == 1..Len(nodes)
  <1>1. /\ nodes \in Seq(Node) /\ more \in Seq(Node) /\ Len(more) = Len(nodes) + Len(rows)
        /\ \A i \in old : more[i] = nodes[i]
    BY Zenon DEF Sound, Grown
  <1>2. Len(nodes) \in Nat /\ Len(more) \in Nat /\ Len(rows) \in Nat
    BY <1>1, Lengths, LenProperties
  <1>3. ASSUME NEW id \in 1..Len(more), id \notin old
        PROVE  more[id].children = <<>> /\ ~more[id].listed /\ more[id].fetched = 0
    <2>1. PICK i \in 1..Len(rows) : id = Len(nodes) + i
      <3>1. id - Len(nodes) \in 1..Len(rows) /\ id = Len(nodes) + (id - Len(nodes))
        BY <1>1, <1>2, <1>3, SMT
      <3> QED BY <3>1, Zenon
    <2>2. rows[i] \in Rows
      BY ElementOfSeq
    <2> QED BY <2>1, <2>2, NewNodeIs, Zenon DEF Grown
  <1>4. Len(<<>>) = 0 /\ 1..0 = {}
    OBVIOUS
  <1>5. ASSUME NEW id \in 1..Len(more) PROVE RightAs(more, id, more[id])
    <2>1. CASE id \in old
      <3>1. RightAs(nodes, id, nodes[id])
        BY <2>1, Zenon DEF Sound
      <3>2. id \in Nat /\ Len(nodes) <= Len(more)
        BY <1>1, <1>2, SMT
      <3>3. RightAs(more, id, nodes[id])
        BY <1>1, <1>2, <3>1, <3>2, RightStays, Zenon
      <3> QED BY <1>1, <2>1, <3>3, Zenon
    <2>2. CASE id \notin old
      BY <1>3, <1>4, <2>2, Zenon DEF RightAs
    <2> QED BY <2>1, <2>2, Zenon
  <1>6. ASSUME NEW id \in 1..Len(more), NEW i \in 1..Len(more[id].children)
        PROVE  id \in old /\ more[id] = nodes[id] /\ i \in 1..Len(nodes[id].children)
    <2>1. id \in old
      BY <1>3, <1>4, <1>6, Zenon
    <2> QED BY <1>1, <1>6, <2>1, Zenon
  <1>7. ChildrenApart(more)
    <2>1. ChildrenApart(nodes)
      BY Zenon DEF Sound
    <2> SUFFICES ASSUME NEW id \in 1..Len(more), NEW other \in 1..Len(more),
                        NEW i \in 1..Len(more[id].children), NEW j \in 1..Len(more[other].children),
                        more[id].children[i] = more[other].children[j]
                 PROVE  id = other /\ i = j
      BY Zenon DEF ChildrenApart
    <2>2. /\ id \in old /\ more[id] = nodes[id] /\ i \in 1..Len(nodes[id].children)
          /\ other \in old /\ more[other] = nodes[other] /\ j \in 1..Len(nodes[other].children)
      BY <1>6, Zenon
    <2>3. nodes[id].children[i] = nodes[other].children[j]
      BY <2>2, SMT
    <2>4. \A a \in 1..Len(nodes[id].children), b \in 1..Len(nodes[other].children) :
             nodes[id].children[a] = nodes[other].children[b] => id = other /\ a = b
      BY <2>1, <2>2, Zenon DEF ChildrenApart
    <2> QED BY <2>2, <2>3, <2>4, Zenon
  <1>8. RootsApart(more, roots, watches)
    <2>1. RootsApart(nodes, roots, watches)
      BY Zenon DEF Sound
    <2>2. \A k : k \in 1..Len(nodes) => k \in 1..Len(more)
      BY <1>1, <1>2, SMT
    <2>3. ASSUME NEW id \in 1..Len(more), NEW i \in 1..Len(more[id].children), NEW j \in 1..Len(roots)
          PROVE  more[id].children[i] # roots[j]
      <3>1. id \in old /\ more[id] = nodes[id] /\ i \in 1..Len(nodes[id].children)
        BY <1>6, <2>3, Zenon
      <3>2. nodes[id].children[i] # roots[j]
        BY <2>1, <3>1, Zenon DEF RootsApart
      <3> QED BY <3>1, <3>2, SMT
    <2> QED BY <2>1, <2>2, <2>3, Zenon DEF RootsApart
  <1>9. ASSUME NEW id \in 1..Len(more), NEW i \in 1..Len(more[id].children)
        PROVE  more[id].children[i] \in 1..Len(nodes)
    <2>1. id \in old /\ more[id] = nodes[id] /\ i \in 1..Len(nodes[id].children)
      BY <1>6, <1>9, Zenon
    <2>2. nodes[id].children[i] \in (id + 1)..Len(nodes)
      BY <2>1, Zenon DEF Sound, RightAs
    <2>3. nodes[id].children[i] \in 1..Len(nodes)
      BY <1>2, <2>1, <2>2, SMT
    <2> QED BY <2>1, <2>3, SMT
  <1>10. \A id \in 1..Len(more) : id > Len(nodes) => more[id].children = <<>>
    <2>1. \A id \in 1..Len(more) : id > Len(nodes) => id \notin old
      BY <1>2, SMT
    <2> QED BY <1>3, <2>1, Zenon
  <1> QED BY <1>1, <1>5, <1>7, <1>8, <1>9, <1>10, Zenon DEF Sound

\* What node `n` lists is nobody else's.
OnlyHere(nodes, roots, id, n) ==
    /\ \A i, j \in 1..Len(n.children) : n.children[i] = n.children[j] => i = j
    /\ \A i \in 1..Len(n.children), j \in 1..Len(roots) : n.children[i] # roots[j]
    /\ \A other \in 1..Len(nodes) : other # id =>
         \A i \in 1..Len(n.children), j \in 1..Len(nodes[other].children) :
            n.children[i] # nodes[other].children[j]

LEMMA NodeIsSound ==
    ASSUME NEW nodes, NEW roots, NEW watches, NEW id \in 1..Len(nodes), NEW n \in Node, NEW now,
           Sound(nodes, roots, watches), now = [nodes EXCEPT ![id] = n],
           RightAs(nodes, id, n), OnlyHere(nodes, roots, id, n),
           n.row = nodes[id].row \/ (nodes[id].row.accessor /\ ~n.row.accessor)
    PROVE  Sound(now, roots, watches)
  <1>1. nodes \in Seq(Node) /\ Len(nodes) \in Nat
    BY Lengths DEF Sound
  <1>2. now \in Seq(Node) /\ Len(now) = Len(nodes)
    BY <1>1, ExceptSeq
  <1>3. now[id] = n /\ \A k \in 1..Len(nodes) : k # id => now[k] = nodes[k]
    BY <1>1, ExceptSeq
  <1>4. \A k \in 1..Len(nodes) :
           \/ now[k].row = nodes[k].row
           \/ nodes[k].row.accessor /\ ~now[k].row.accessor
    BY <1>3, Zenon
  <1>5. ASSUME NEW k \in 1..Len(now) PROVE RightAs(now, k, now[k])
    <2>1. RightAs(nodes, k, now[k])
      BY <1>2, <1>3, Zenon DEF Sound
    <2>2. k \in Nat /\ Len(now) \in Nat /\ Len(nodes) <= Len(now)
      BY <1>1, <1>2, SMT
    <2> QED BY <1>1, <1>4, <2>1, <2>2, RightStays, Zenon
  <1>6. ChildrenApart(now)
    <2> SUFFICES ASSUME NEW k \in 1..Len(now), NEW other \in 1..Len(now),
                        NEW i \in 1..Len(now[k].children), NEW j \in 1..Len(now[other].children),
                        now[k].children[i] = now[other].children[j]
                 PROVE  k = other /\ i = j
      BY Zenon DEF ChildrenApart
    <2>1. CASE k = id /\ other = id
      BY <1>3, <2>1, SMT DEF OnlyHere
    <2>2. CASE k = id /\ other # id
      <3>1. now[k] = n /\ now[other] = nodes[other] /\ other \in 1..Len(nodes)
        BY <1>2, <1>3, <2>2, Zenon
      <3> QED BY <2>2, <3>1, SMT DEF OnlyHere
    <2>3. CASE k # id /\ other = id
      <3>1. now[other] = n /\ now[k] = nodes[k] /\ k \in 1..Len(nodes)
        BY <1>2, <1>3, <2>3, Zenon
      <3> QED BY <2>3, <3>1, SMT DEF OnlyHere
    <2>4. CASE k # id /\ other # id
      <3>1. /\ now[k] = nodes[k] /\ k \in 1..Len(nodes)
            /\ now[other] = nodes[other] /\ other \in 1..Len(nodes)
        BY <1>2, <1>3, <2>4, Zenon
      <3>2. ChildrenApart(nodes)
        BY Zenon DEF Sound
      <3>3. \A a \in 1..Len(nodes[k].children), b \in 1..Len(nodes[other].children) :
               nodes[k].children[a] = nodes[other].children[b] => k = other /\ a = b
        BY <3>1, <3>2, Zenon DEF ChildrenApart
      <3> QED BY <3>1, <3>3, SMT
    <2> QED BY <2>1, <2>2, <2>3, <2>4, Zenon
  <1>7. RootsApart(now, roots, watches)
    <2>1. RootsApart(nodes, roots, watches)
      BY Zenon DEF Sound
    <2>2. ASSUME NEW k \in 1..Len(now), NEW i \in 1..Len(now[k].children), NEW j \in 1..Len(roots)
          PROVE  now[k].children[i] # roots[j]
      <3>1. CASE k = id
        BY <1>3, <2>2, <3>1, SMT DEF OnlyHere
      <3>2. CASE k # id
        <4>1. now[k] = nodes[k] /\ k \in 1..Len(nodes)
          BY <1>2, <1>3, <2>2, <3>2, Zenon
        <4> QED BY <2>1, <2>2, <4>1, SMT DEF RootsApart
      <3> QED BY <3>1, <3>2, Zenon
    <2> QED BY <1>2, <2>1, <2>2, Zenon DEF RootsApart
  <1> QED BY <1>2, <1>5, <1>6, <1>7, Zenon DEF Sound
-----------------------------------------------------------------------------
(* The operations *)

TreeInv(t) == t = Tree(t.nodes, t.roots, t.watches) /\ Sound(t.nodes, t.roots, t.watches)

LEMMA TreeIs ==
    ASSUME NEW nodes, NEW roots, NEW watches, Sound(nodes, roots, watches)
    PROVE  TreeInv(Tree(nodes, roots, watches))
  BY TreeFields DEF TreeInv

LEMMA IdsAre ==
    ASSUME NEW t, NEW rows \in Seq(Rows), Len(t.nodes) \in Nat
    PROVE  /\ NewIds(t, rows) \in Seq(Nat) /\ Len(NewIds(t, rows)) = Len(rows)
           /\ \A i \in 1..Len(rows) : NewIds(t, rows)[i] = Len(t.nodes) + i
  <1>1. Len(rows) \in Nat /\ DOMAIN rows = 1..Len(rows)
    BY LenProperties
  <1>2. PICK N \in Nat : N = Len(t.nodes)
    OBVIOUS
  <1>3. NewIds(t, rows) = [i \in 1..Len(rows) |-> N + i]
    BY <1>1, <1>2, Zenon DEF NewIds
  <1>4. /\ [i \in 1..Len(rows) |-> N + i] \in Seq(Nat)
        /\ Len([i \in 1..Len(rows) |-> N + i]) = Len(rows)
        /\ \A i \in 1..Len(rows) : [j \in 1..Len(rows) |-> N + j][i] = N + i
    BY <1>1, SMT
  <1> QED BY <1>2, <1>3, <1>4, SMT

\* alloc.
LEMMA AllocIs ==
    ASSUME NEW t, NEW rows \in Seq(Rows), TreeInv(t)
    PROVE  \E more : /\ Grown(t.nodes, more, rows)
                     /\ Alloc(t, rows) = Tree(more, t.roots, t.watches)
  <1>1. PICK more : more = t.nodes \o [i \in DOMAIN rows |-> NewNode(rows[i])]
    OBVIOUS
  <1>2. Grown(t.nodes, more, rows)
    BY <1>1, AllocGrows, Zenon DEF TreeInv, Sound
  <1>3. PICK a : a = Alloc(t, rows)
    OBVIOUS
  <1>4. a = [t EXCEPT !.nodes = more]
    BY <1>1, <1>3 DEF Alloc
  <1>5. t = [nodes |-> t.nodes, roots |-> t.roots, watches |-> t.watches]
    BY Zenon DEF TreeInv, Tree
  <1>6. a = [nodes |-> more, roots |-> t.roots, watches |-> t.watches]
    BY <1>4, <1>5
  <1> QED BY <1>2, <1>3, <1>6, Zenon DEF Tree

\* A step that makes rows and lists them among the roots, before or after others.
LEMMA FreshRoots ==
    ASSUME NEW t, NEW rows \in Seq(Rows), TreeInv(t), NEW more, Grown(t.nodes, more, rows),
           NEW roots \in Seq(Nat), NEW watches \in Nat, watches <= Len(roots),
           \A i \in 1..Len(roots) :
              \/ \E j \in 1..Len(rows) : roots[i] = Len(t.nodes) + j
              \/ \E j \in 1..Len(t.roots) : roots[i] = t.roots[j],
           \A i, j \in 1..Len(roots) : roots[i] = roots[j] => i = j
    PROVE  Sound(more, roots, watches)
  <1>1. /\ Sound(t.nodes, t.roots, t.watches) /\ t.nodes \in Seq(Node)
        /\ RootsApart(t.nodes, t.roots, t.watches)
    BY Zenon DEF TreeInv, Sound
  <1>2. Sound(more, t.roots, t.watches)
    BY <1>1, GrownIsSound, Zenon
  <1>3. /\ Len(t.nodes) \in Nat /\ Len(rows) \in Nat /\ Len(more) = Len(t.nodes) + Len(rows)
        /\ Len(roots) \in Nat
    BY <1>1, Lengths, LenProperties, Zenon DEF Grown
  <1>4. ASSUME NEW i \in 1..Len(roots) PROVE roots[i] \in 1..Len(more)
    <2>1. CASE \E j \in 1..Len(rows) : roots[i] = Len(t.nodes) + j
      BY <1>3, <2>1, SMT
    <2>2. CASE \E j \in 1..Len(t.roots) : roots[i] = t.roots[j]
      <3>1. roots[i] \in 1..Len(t.nodes)
        BY <1>1, <2>2, Zenon DEF RootsApart
      <3> QED BY <1>3, <3>1, SMT
    <2> QED BY <2>1, <2>2, <1>4, Zenon
  <1>5. ASSUME NEW id \in 1..Len(more), NEW i \in 1..Len(more[id].children), NEW j \in 1..Len(roots)
        PROVE  more[id].children[i] # roots[j]
    <2>1. CASE \E k \in 1..Len(rows) : roots[j] = Len(t.nodes) + k
      <3>1. more[id].children[i] \in 1..Len(t.nodes)
        BY <1>1, <1>5, GrownIsSound, Zenon
      <3>2. ~(roots[j] \in 1..Len(t.nodes))
        BY <1>3, <2>1, SMT
      <3> QED BY <3>1, <3>2, Zenon
    <2>2. CASE \E k \in 1..Len(t.roots) : roots[j] = t.roots[k]
      <3>1. PICK k \in 1..Len(t.roots) : roots[j] = t.roots[k]
        BY <2>2, Zenon
      <3>2. more[id].children[i] # t.roots[k]
        <4>1. RootsApart(more, t.roots, t.watches)
          BY <1>2, Zenon DEF Sound
        <4>2. \A a \in 1..Len(more[id].children), b \in 1..Len(t.roots) :
                 more[id].children[a] # t.roots[b]
          BY <4>1, Zenon DEF RootsApart
        <4> QED BY <1>5, <3>1, <4>2, Zenon
      <3> QED BY <3>1, <3>2, Zenon
    <2> QED BY <1>5, <2>1, <2>2, Zenon
  <1>6. RootsApart(more, roots, watches)
    BY <1>4, <1>5, Zenon DEF RootsApart
  <1> QED BY <1>2, <1>6, Zenon DEF Sound

LEMMA PushRootKeeps ==
    ASSUME NEW t, TreeInv(t), NEW row \in Rows
    PROVE  TreeInv(PushRoot(t, row))
  <1>1. PICK rows \in Seq(Rows) : rows = <<row>> /\ Len(rows) = 1
    <2>1. <<row>> \in Seq(Rows) /\ Len(<<row>>) = 1
      OBVIOUS
    <2> QED BY <2>1, Zenon
  <1>2. PICK more : Grown(t.nodes, more, rows) /\ Alloc(t, rows) = Tree(more, t.roots, t.watches)
    BY AllocIs, Zenon
  <1>3. PICK ids : ids = NewIds(t, rows)
    OBVIOUS
  <1>4. /\ t.nodes \in Seq(Node) /\ t.roots \in Seq(Nat) /\ t.watches \in Nat
        /\ RootsApart(t.nodes, t.roots, t.watches)
    BY Zenon DEF TreeInv, Sound
  <1>5. Len(t.nodes) \in Nat /\ Len(t.roots) \in Nat /\ t.watches <= Len(t.roots)
    BY <1>4, Lengths, LenProperties, Zenon DEF RootsApart
  <1>6. ids \in Seq(Nat) /\ Len(ids) = 1 /\ ids[1] = Len(t.nodes) + 1
    <2>1. /\ ids \in Seq(Nat) /\ Len(ids) = Len(rows)
          /\ \A i \in 1..Len(rows) : ids[i] = Len(t.nodes) + i
      BY <1>3, <1>5, IdsAre, Zenon
    <2>2. 1 \in 1..Len(rows)
      BY <1>1
    <2> QED BY <1>1, <2>1, <2>2, Zenon
  <1>7. PICK roots : roots = t.roots \o ids
    OBVIOUS
  <1>8. /\ roots \in Seq(Nat) /\ Len(roots) = Len(t.roots) + 1
        /\ \A i \in 1..Len(t.roots) : roots[i] = t.roots[i]
        /\ roots[Len(t.roots) + 1] = Len(t.nodes) + 1
    <2>1. /\ roots \in Seq(Nat) /\ Len(roots) = Len(t.roots) + Len(ids)
          /\ \A i \in 1..(Len(t.roots) + Len(ids)) :
               roots[i] = IF i <= Len(t.roots) THEN t.roots[i] ELSE ids[i - Len(t.roots)]
      BY <1>4, <1>6, <1>7, ConcatProperties, Zenon
    <2>2. PICK n \in Nat : n = Len(t.roots)
      BY <1>5, Zenon
    <2>3. \A i \in 1..(n + 1) : roots[i] = IF i <= n THEN t.roots[i] ELSE ids[i - n]
      BY <1>6, <2>1, <2>2, Zenon
    <2>4. (\A i \in 1..n : roots[i] = t.roots[i]) /\ roots[n + 1] = ids[1]
      BY <2>3, SMT
    <2> QED BY <1>6, <2>1, <2>2, <2>4, Zenon
  <1>9. ASSUME NEW i \in 1..Len(roots)
        PROVE  \/ i = Len(t.roots) + 1 /\ roots[i] = Len(t.nodes) + 1
               \/ i \in 1..Len(t.roots) /\ roots[i] = t.roots[i] /\ t.roots[i] \in 1..Len(t.nodes)
    <2>1. i = Len(t.roots) + 1 \/ i \in 1..Len(t.roots)
      BY <1>5, <1>8, SMT
    <2> QED BY <1>4, <1>8, <2>1, Zenon DEF RootsApart
  <1>10. \A i, j \in 1..Len(roots) : roots[i] = roots[j] => i = j
    <2> SUFFICES ASSUME NEW i \in 1..Len(roots), NEW j \in 1..Len(roots), roots[i] = roots[j]
                 PROVE  i = j
      BY Zenon
    <2>1. \A a, b \in 1..Len(t.roots) : t.roots[a] = t.roots[b] => a = b
      BY <1>4, Zenon DEF RootsApart
    <2>2. ~(Len(t.nodes) + 1 \in 1..Len(t.nodes))
      BY <1>5, SMT
    <2>3. CASE i = Len(t.roots) + 1 /\ roots[i] = Len(t.nodes) + 1
      <3>1. ~(roots[j] \in 1..Len(t.nodes))
        BY <2>2, <2>3, Zenon
      <3>2. j = Len(t.roots) + 1
        BY <1>9, <3>1, Zenon
      <3> QED BY <2>3, <3>2, Zenon
    <2>4. CASE i \in 1..Len(t.roots) /\ roots[i] = t.roots[i] /\ t.roots[i] \in 1..Len(t.nodes)
      <3>1. roots[j] \in 1..Len(t.nodes)
        BY <2>4, Zenon
      <3>2. j \in 1..Len(t.roots) /\ roots[j] = t.roots[j]
        BY <1>9, <2>2, <3>1, Zenon
      <3> QED BY <2>1, <2>4, <3>2, Zenon
    <2> QED BY <1>9, <2>3, <2>4, Zenon
  <1>11. \A i \in 1..Len(roots) :
            \/ \E j \in 1..Len(rows) : roots[i] = Len(t.nodes) + j
            \/ \E j \in 1..Len(t.roots) : roots[i] = t.roots[j]
    <2>1. 1 \in 1..Len(rows)
      BY <1>1
    <2> QED BY <1>9, <2>1, Zenon
  <1>12. t.watches <= Len(roots)
    BY <1>4, <1>5, <1>8, SMT
  <1>13. Sound(more, roots, t.watches)
    BY <1>2, <1>4, <1>8, <1>10, <1>11, <1>12, FreshRoots, Zenon
  <1>14. PushRoot(t, row) = Tree(more, roots, t.watches)
    <2>1. PICK a : a = Alloc(t, rows)
      OBVIOUS
    <2>2. PICK b : b = PushRoot(t, row)
      OBVIOUS
    <2>3. a = [nodes |-> more, roots |-> t.roots, watches |-> t.watches]
      BY <1>2, <2>1, Zenon DEF Tree
    <2>4. b = [a EXCEPT !.roots = @ \o ids]
      BY <1>1, <1>3, <2>1, <2>2, Zenon DEF PushRoot
    <2>5. b = [nodes |-> more, roots |-> t.roots \o ids, watches |-> t.watches]
      BY <2>3, <2>4
    <2> QED BY <1>7, <2>2, <2>5, Zenon DEF Tree
  <1> QED BY <1>13, <1>14, TreeIs, Zenon
LEMMA SetWatchRootsKeeps ==
    ASSUME NEW t, TreeInv(t), NEW rows \in Seq(Rows)
    PROVE  TreeInv(SetWatchRoots(t, rows))
  <1>1. PICK more : Grown(t.nodes, more, rows) /\ Alloc(t, rows) = Tree(more, t.roots, t.watches)
    BY AllocIs, Zenon
  <1>2. PICK ids : ids = NewIds(t, rows)
    OBVIOUS
  <1>3. PICK scopes : scopes = ScopeRoots(t)
    OBVIOUS
  <1>4. /\ t.nodes \in Seq(Node) /\ t.roots \in Seq(Nat) /\ t.watches \in Nat
        /\ RootsApart(t.nodes, t.roots, t.watches)
    BY Zenon DEF TreeInv, Sound
  <1>5. /\ Len(t.nodes) \in Nat /\ Len(t.roots) \in Nat /\ t.watches <= Len(t.roots)
        /\ Len(rows) \in Nat
    BY <1>4, Lengths, LenProperties, Zenon DEF RootsApart
  <1>6. PICK N \in Nat, L \in Nat, w \in Nat, R \in Nat :
          N = Len(t.nodes) /\ L = Len(t.roots) /\ w = t.watches /\ R = Len(rows)
    BY <1>4, <1>5, Zenon
  <1>7. /\ ids \in Seq(Nat) /\ Len(ids) = R
        /\ \A i \in 1..R : ids[i] = N + i
    BY <1>2, <1>5, <1>6, IdsAre, Zenon
  <1>8. PICK before : before = t.roots
    OBVIOUS
  <1>9. /\ before \in Seq(Nat) /\ Len(before) = L /\ w <= L
        /\ scopes = SubSeq(before, w + 1, L)
        /\ \A i \in 1..L : before[i] \in 1..N
        /\ \A i, j \in 1..L : before[i] = before[j] => i = j
    BY <1>3, <1>4, <1>5, <1>6, <1>8, Zenon DEF ScopeRoots, RootsApart
  <1>10. /\ scopes \in Seq(Nat) /\ Len(scopes) = L - w
         /\ \A i \in 1..(L - w) : scopes[i] = before[w + i]
    <2>1. w + 1 \in Int /\ L \in Int /\ \A i \in (w + 1)..L : before[i] \in Nat
      BY <1>9, ElementOfSeq, SMT
    <2>2. PICK first \in Int : first = w + 1
      BY SMT
    <2>3. /\ SubSeq(before, first, L) \in Seq(Nat)
          /\ Len(SubSeq(before, first, L)) = IF first <= L THEN L - first + 1 ELSE 0
          /\ \A i \in 1..(L - first + 1) : SubSeq(before, first, L)[i] = before[first + i - 1]
      BY <2>1, <2>2, SubSeqProperties
    <2>4. \A i \in 1..(L - w) : i \in 1..(L - first + 1) /\ first + i - 1 = w + i
      BY <2>2, SMT
    <2>5. \A i \in 1..(L - w) : SubSeq(before, first, L)[i] = before[w + i]
      BY <2>3, <2>4
    <2>6. Len(SubSeq(before, first, L)) = L - w
      BY <1>9, <2>2, <2>3, SMT
    <2> QED BY <1>9, <2>2, <2>3, <2>5, <2>6, Zenon
  <1>11. PICK roots : roots = ids \o scopes
    OBVIOUS
  <1>12. /\ roots \in Seq(Nat) /\ Len(roots) = R + (L - w)
         /\ \A i \in 1..(R + (L - w)) : roots[i] = IF i <= R THEN ids[i] ELSE scopes[i - R]
    <2>1. /\ roots \in Seq(Nat) /\ Len(roots) = Len(ids) + Len(scopes)
          /\ \A i \in 1..(Len(ids) + Len(scopes)) :
               roots[i] = IF i <= Len(ids) THEN ids[i] ELSE scopes[i - Len(ids)]
      BY <1>7, <1>10, <1>11, ConcatProperties, Zenon
    <2> QED BY <1>7, <1>10, <2>1, Zenon
  <1>13. ASSUME NEW i \in 1..Len(roots)
         PROVE  \/ i \in 1..R /\ roots[i] = N + i
                \/ /\ i - R + w \in 1..L /\ roots[i] = before[i - R + w]
                   /\ before[i - R + w] \in 1..N
    <2>1. CASE i <= R
      <3>1. i \in 1..R /\ i \in 1..(R + (L - w))
        BY <1>9, <1>12, <2>1, SMT
      <3> QED BY <1>7, <1>12, <2>1, <3>1, Zenon
    <2>2. CASE ~(i <= R)
      <3>1. i \in 1..(R + (L - w)) /\ i - R \in 1..(L - w) /\ i - R + w \in 1..L
            /\ w + (i - R) = i - R + w
        BY <1>9, <1>12, <2>2, SMT
      <3>2. roots[i] = scopes[i - R]
        BY <1>12, <2>2, <3>1, Zenon
      <3>3. scopes[i - R] = before[w + (i - R)]
        BY <1>10, <3>1, Zenon
      <3>4. scopes[i - R] = before[i - R + w]
        BY <3>1, <3>3, Zenon
      <3> QED BY <1>9, <3>1, <3>2, <3>4, Zenon
    <2> QED BY <2>1, <2>2, Zenon
  <1>14. ASSUME NEW i \in 1..Len(roots), NEW j \in 1..Len(roots), roots[i] = roots[j]
         PROVE  i = j
    <2>1. /\ i \in Nat /\ j \in Nat
      BY <1>12, <1>14, SMT
    <2>2. CASE i \in 1..R /\ roots[i] = N + i
      <3>1. roots[j] \notin 1..N
        BY <1>14, <2>1, <2>2, SMT
      <3>2. roots[j] = N + j
        BY <1>13, <3>1, Zenon
      <3>3. N + i = N + j
        BY <1>14, <2>2, <3>2, Zenon
      <3> QED BY <2>1, <3>3, SMT
    <2>3. CASE /\ i - R + w \in 1..L /\ roots[i] = before[i - R + w]
               /\ before[i - R + w] \in 1..N
      <3>1. ~(j \in 1..R /\ roots[j] = N + j)
        BY <1>14, <2>1, <2>3, SMT
      <3>2. j - R + w \in 1..L /\ roots[j] = before[j - R + w]
        BY <1>13, <3>1, Zenon
      <3>3. i - R + w = j - R + w
        BY <1>9, <1>14, <2>3, <3>2, Zenon
      <3> QED BY <2>1, <3>3, SMT
    <2> QED BY <1>13, <2>2, <2>3, Zenon
  <1>15. \A i \in 1..Len(roots) :
            \/ \E j \in 1..Len(rows) : roots[i] = Len(t.nodes) + j
            \/ \E j \in 1..Len(t.roots) : roots[i] = t.roots[j]
    BY <1>6, <1>8, <1>13, Zenon
  <1>16. Len(rows) <= Len(roots)
    BY <1>6, <1>9, <1>12, SMT
  <1>17. Sound(more, roots, Len(rows))
    BY <1>1, <1>5, <1>12, <1>14, <1>15, <1>16, FreshRoots, Zenon
  <1>18. SetWatchRoots(t, rows) = Tree(more, roots, Len(rows))
    <2>1. PICK a : a = Alloc(t, rows)
      OBVIOUS
    <2>2. PICK b : b = SetWatchRoots(t, rows)
      OBVIOUS
    <2>3. a = [nodes |-> more, roots |-> t.roots, watches |-> t.watches]
      BY <1>1, <2>1, Zenon DEF Tree
    <2>4. b = [a EXCEPT !.roots = ids \o scopes, !.watches = Len(rows)]
      BY <1>2, <1>3, <2>1, <2>2, Zenon DEF SetWatchRoots
    <2>5. b = [nodes |-> more, roots |-> ids \o scopes, watches |-> Len(rows)]
      BY <2>3, <2>4
    <2> QED BY <1>11, <2>2, <2>5, Zenon DEF Tree
  <1> QED BY <1>17, <1>18, TreeIs, Zenon

\* A node takes another's place where it was.
LEMMA PlaceKeeps ==
    ASSUME NEW t, TreeInv(t), NEW id \in 1..Len(t.nodes), NEW n \in Node, NEW now,
           now = [t EXCEPT !.nodes[id] = n],
           RightAs(t.nodes, id, n), OnlyHere(t.nodes, t.roots, id, n),
           n.row = t.nodes[id].row \/ (t.nodes[id].row.accessor /\ ~n.row.accessor)
    PROVE  TreeInv(now)
  <1>1. PICK nodes : nodes = [t.nodes EXCEPT ![id] = n]
    OBVIOUS
  <1>2. Sound(nodes, t.roots, t.watches)
    BY <1>1, NodeIsSound, Zenon DEF TreeInv
  <1>3. t = [nodes |-> t.nodes, roots |-> t.roots, watches |-> t.watches]
    BY Zenon DEF TreeInv, Tree
  <1>4. now = [nodes |-> nodes, roots |-> t.roots, watches |-> t.watches]
    BY <1>1, <1>3
  <1>5. TreeInv(Tree(nodes, t.roots, t.watches))
    BY <1>2, TreeIs, Zenon
  <1>6. now = Tree(nodes, t.roots, t.watches)
    BY <1>4, Zenon DEF Tree
  <1> QED BY <1>5, <1>6, Zenon

LEMMA GetterKeeps ==
    ASSUME NEW t, TreeInv(t), NEW id \in DOMAIN t.nodes, NEW object \in Objects \cup {NoObject}
    PROVE  TreeInv(ApplyGetterResult(t, id, object))
  <1>1. t.nodes \in Seq(Node) /\ id \in 1..Len(t.nodes)
    BY LenProperties DEF TreeInv, Sound
  <1> SUFFICES ASSUME t.nodes[id].row.accessor
               PROVE  TreeInv(ApplyGetterResult(t, id, object))
    BY Zenon DEF ApplyGetterResult
  <1>2. PICK row \in Rows : row = [object |-> object, accessor |-> FALSE]
    <2>1. [object |-> object, accessor |-> FALSE] \in Rows
      BY DEF Rows
    <2> QED BY <2>1, Zenon
  <1>3. PICK fresh \in Node : fresh = NewNode(row)
    BY NewNodeIs, Zenon
  <1>4. PICK total \in Nat \cup {NoTotal} :
          total = IF object = NoObject THEN NoTotal ELSE Reported[object]
    <2>1. \A o \in Objects : Reported[o] \in Nat \cup {NoTotal}
      BY ValuesConstants, Zenon
    <2> QED BY <2>1, Zenon
  <1>5. PICK n : n = [fresh EXCEPT !.total = total]
    OBVIOUS
  <1>6. /\ n \in Node /\ n.row = fresh.row /\ n.listed = fresh.listed
        /\ n.children = fresh.children /\ n.fetched = fresh.fetched
    BY <1>5 DEF Node
  <1>7. n.row = row /\ ~n.listed /\ n.children = <<>> /\ n.fetched = 0 /\ ~row.accessor
    BY <1>2, <1>3, <1>6, NewNodeIs
  <1>8. Len(<<>>) = 0 /\ 1..0 = {}
    OBVIOUS
  <1>9. RightAs(t.nodes, id, n)
    BY <1>7, <1>8, Zenon DEF RightAs
  <1>10. OnlyHere(t.nodes, t.roots, id, n)
    BY <1>7, <1>8, Zenon DEF OnlyHere
  <1>11. PICK now : now = ApplyGetterResult(t, id, object)
    OBVIOUS
  <1>12. now = [t EXCEPT !.nodes[id] = n]
    BY <1>2, <1>3, <1>4, <1>5, <1>11, Zenon DEF ApplyGetterResult
  <1> QED BY <1>1, <1>6, <1>7, <1>9, <1>10, <1>11, <1>12, PlaceKeeps, Zenon

LEMMA OwnIsOnlyHere ==
    ASSUME NEW t, TreeInv(t), NEW id \in 1..Len(t.nodes)
    PROVE  /\ RightAs(t.nodes, id, t.nodes[id]) /\ OnlyHere(t.nodes, t.roots, id, t.nodes[id])
  <1>1. /\ ChildrenApart(t.nodes) /\ RootsApart(t.nodes, t.roots, t.watches)
        /\ RightAs(t.nodes, id, t.nodes[id])
    BY Zenon DEF TreeInv, Sound
  <1>2. \A other \in 1..Len(t.nodes) :
          \A i \in 1..Len(t.nodes[id].children), j \in 1..Len(t.nodes[other].children) :
            t.nodes[id].children[i] = t.nodes[other].children[j] => id = other /\ i = j
    BY <1>1, Zenon DEF ChildrenApart
  <1> QED BY <1>1, <1>2, Zenon DEF RootsApart, OnlyHere

LEMMA KnownTotalKeeps ==
    ASSUME NEW t, TreeInv(t), NEW id \in DOMAIN t.nodes, NEW total \in Nat
    PROVE  TreeInv(SetKnownTotal(t, id, total))
  <1>1. t.nodes \in Seq(Node) /\ id \in 1..Len(t.nodes) /\ id \in DOMAIN t.nodes
    BY LenProperties DEF TreeInv, Sound
  <1>2. PICK was \in Node : was = t.nodes[id]
    BY <1>1, Lengths, Zenon
  <1>3. PICK n : n = [was EXCEPT !.total = total]
    OBVIOUS
  <1>4. /\ n \in Node /\ n.row = was.row /\ n.listed = was.listed /\ n.more = was.more
        /\ n.children = was.children /\ n.fetched = was.fetched
    BY <1>3 DEF Node
  <1>5. RightAs(t.nodes, id, n) /\ OnlyHere(t.nodes, t.roots, id, n)
    <2>1. RightAs(t.nodes, id, was) /\ OnlyHere(t.nodes, t.roots, id, was)
      BY <1>1, <1>2, OwnIsOnlyHere
    <2> QED BY <1>4, <2>1, SMT DEF RightAs, OnlyHere
  <1>6. PICK now : now = SetKnownTotal(t, id, total)
    OBVIOUS
  <1>7. now = [t EXCEPT !.nodes[id] = n]
    <2>1. now = [t EXCEPT !.nodes[id].total = total]
      BY <1>1, <1>6, Zenon DEF SetKnownTotal
    <2>2. [t EXCEPT !.nodes[id].total = total] = [t EXCEPT !.nodes[id] = [was EXCEPT !.total = total]]
      BY <1>2
    <2> QED BY <1>3, <2>1, <2>2, Zenon
  <1> QED BY <1>1, <1>2, <1>4, <1>5, <1>6, <1>7, PlaceKeeps, Zenon
-----------------------------------------------------------------------------
(* A page of properties *)

IsPage(object, start, props, rows) ==
    /\ object \in Objects /\ start \in 0..Size(object)
    /\ props = Page(object, start, PageSize)
    /\ rows = IF start = 0 THEN Internals[object] \o props ELSE props

LEMMA PageIs ==
    ASSUME NEW object, NEW start, NEW props, NEW rows, IsPage(object, start, props, rows)
    PROVE  /\ object \in Objects /\ start \in 0..Size(object)
           /\ props \in Seq(Rows)
           /\ start + Len(props) <= Size(object) /\ Len(props) \in Nat
           /\ ~FullPage(Len(props), PageSize) => start + Len(props) = Size(object)
           /\ \A i \in 1..Len(props) : props[i] = Props[object][start + i]
  <1>0. /\ object \in Objects /\ start \in 0..Size(object)
        /\ props = Page(object, start, PageSize)
    BY Zenon DEF IsPage
  <1>1. PICK all \in Seq(Rows) : all = Props[object]
    BY <1>0, ValuesConstants, Zenon
  <1>2. PICK L \in Nat : L = Len(all) /\ L = Size(object)
    BY <1>1, LenProperties, Zenon DEF Size
  <1>3. PageSize \in Nat \ {0}
    BY ValuesConstants, Zenon
  <1>4. PICK last \in Nat : last = IF start + PageSize < L THEN start + PageSize ELSE L
    <2>1. start \in 0..L
      BY <1>0, <1>2, Zenon
    <2> QED BY <1>3, <2>1, SMT
  <1>5. props = SubSeq(all, start + 1, last)
    BY <1>0, <1>1, <1>2, <1>4, Zenon DEF Page
  <1>6. /\ start \in Nat /\ start <= last /\ last <= L
        /\ \A i \in (start + 1)..last : all[i] \in Rows
    <2>1. \A i \in 1..L : all[i] \in Rows
      BY <1>2, ElementOfSeq
    <2>2. start \in 0..L
      BY <1>0, <1>2, Zenon
    <2>3. start \in Nat /\ start <= last /\ last <= L
      BY <1>3, <1>4, <2>2, SMT
    <2>4. \A i \in (start + 1)..last : i \in 1..L
      BY <2>3, SMT
    <2> QED BY <2>1, <2>3, <2>4, Zenon
  <1>7. /\ SubSeq(all, start + 1, last) \in Seq(Rows)
        /\ Len(SubSeq(all, start + 1, last)) =
             IF start + 1 <= last THEN last - (start + 1) + 1 ELSE 0
        /\ \A i \in 1..(last - (start + 1) + 1) :
             SubSeq(all, start + 1, last)[i] = all[start + 1 + i - 1]
    <2>1. PICK first \in Int : first = start + 1
      BY <1>6, SMT
    <2>2. last \in Int
      BY SMT
    <2>3. /\ SubSeq(all, first, last) \in Seq(Rows)
          /\ Len(SubSeq(all, first, last)) = IF first <= last THEN last - first + 1 ELSE 0
          /\ \A i \in 1..(last - first + 1) : SubSeq(all, first, last)[i] = all[first + i - 1]
      BY <1>6, <2>1, <2>2, SubSeqProperties
    <2> QED BY <2>1, <2>3, Zenon
  <1>8. props \in Seq(Rows) /\ Len(props) = last - start
    BY <1>5, <1>6, <1>7, SMT
  <1>9. \A i \in 1..Len(props) : props[i] = all[start + i]
    BY <1>5, <1>6, <1>7, <1>8, SMT
  <1>10. ~FullPage(Len(props), PageSize) => start + Len(props) = L
    BY <1>2, <1>3, <1>4, <1>6, <1>8, SMT DEF FullPage
  <1>11. start + Len(props) <= L /\ Len(props) \in Nat
    BY <1>2, <1>4, <1>6, <1>8, SMT
  <1> QED BY <1>0, <1>1, <1>2, <1>8, <1>9, <1>10, <1>11, Zenon

\* How many rows were there before.
Had(object, start) == IF start = 0 THEN 0 ELSE Len(Internals[object]) + start
AddsDue(object, start, props, rows, had) ==
    /\ rows \in Seq(Rows) /\ had \in Nat
    /\ had + Len(rows) = Len(Internals[object]) + (start + Len(props))
    /\ \A i \in 1..Len(rows) : rows[i] = Due(object, start + Len(props))[had + i]

\* The rows a page adds are those that are due next.
LEMMA RowsAreDue ==
    ASSUME NEW object, NEW start, NEW props, NEW rows, IsPage(object, start, props, rows)
    PROVE  AddsDue(object, start, props, rows, Had(object, start))
  <1> SUFFICES ASSUME NEW had, had = Had(object, start)
               PROVE  AddsDue(object, start, props, rows, had)
    BY Zenon
  <1> USE DEF AddsDue
  <1>0. /\ object \in Objects /\ start \in 0..Size(object)
        /\ props = Page(object, start, PageSize)
        /\ rows = IF start = 0 THEN Internals[object] \o props ELSE props
        /\ had = IF start = 0 THEN 0 ELSE Len(Internals[object]) + start
    BY Zenon DEF IsPage, Had
  <1>1. /\ props \in Seq(Rows) /\ start + Len(props) <= Size(object) /\ Len(props) \in Nat
        /\ \A i \in 1..Len(props) : props[i] = Props[object][start + i]
    BY PageIs
  <1>2. PICK fetched : fetched = start + Len(props)
    OBVIOUS
  <1>3. Size(object) \in Nat
    BY <1>0, ValuesConstants, LenProperties DEF Size
  <1>4. fetched \in 0..Size(object) /\ start \in Nat
    BY <1>0, <1>1, <1>2, <1>3, SMT
  <1>5. PICK inner \in Seq(Rows) : inner = Internals[object]
    BY <1>0, ValuesConstants, Zenon
  <1>6. PICK I \in Nat : I = Len(inner)
    BY LenProperties, Zenon
  <1>7. PICK due : due = Due(object, fetched)
    OBVIOUS
  <1>8. PICK all : all = Props[object]
    OBVIOUS
  <1>9. \A i \in 1..(I + fetched) : due[i] = IF i <= I THEN inner[i] ELSE all[i - I]
    BY <1>0, <1>4, <1>5, <1>6, <1>7, <1>8, DueIs, Zenon
  <1>10. PICK P \in Nat : P = Len(props)
    BY <1>1, Zenon
  <1>11. \A i \in 1..P : props[i] = all[start + i]
    BY <1>1, <1>8, <1>10, Zenon
  <1>12. CASE start = 0
    <2>1. /\ inner \o props \in Seq(Rows) /\ Len(inner \o props) = I + P
          /\ \A i \in 1..(I + P) : (inner \o props)[i] = IF i <= I THEN inner[i] ELSE props[i - I]
      <3>1. /\ inner \o props \in Seq(Rows) /\ Len(inner \o props) = Len(inner) + Len(props)
            /\ \A i \in 1..(Len(inner) + Len(props)) :
                 (inner \o props)[i] = IF i <= Len(inner) THEN inner[i] ELSE props[i - Len(inner)]
        BY <1>1, ConcatProperties, Zenon
      <3> QED BY <1>6, <1>10, <3>1
    <2>2. rows = inner \o props /\ had = 0
      BY <1>0, <1>5, <1>12, Zenon
    <2>3. fetched = P
      BY <1>2, <1>10, <1>12, SMT
    <2>4. ASSUME NEW i \in 1..(I + P) PROVE rows[i] = due[had + i]
      <3>1. had + i = i /\ i \in 1..(I + fetched)
        BY <2>2, <2>3, SMT
      <3>2. CASE i <= I
        <4>1. rows[i] = inner[i]
          BY <2>1, <2>2, <3>2, Zenon
        <4>2. due[i] = inner[i]
          BY <1>9, <3>1, <3>2, Zenon
        <4> QED BY <3>1, <4>1, <4>2, Zenon
      <3>3. CASE ~(i <= I)
        <4>1. i - I \in 1..P /\ start + (i - I) = i - I
          BY <1>12, <3>3, SMT
        <4>2. rows[i] = props[i - I]
          BY <2>1, <2>2, <3>3, Zenon
        <4>3. props[i - I] = all[start + (i - I)]
          BY <1>11, <4>1, Zenon
        <4>4. due[i] = all[i - I]
          BY <1>9, <3>1, <3>3, Zenon
        <4> QED BY <3>1, <4>1, <4>2, <4>3, <4>4, Zenon
      <3> QED BY <3>2, <3>3, Zenon
    <2>5. Len(rows) = I + P /\ rows \in Seq(Rows)
      BY <2>1, <2>2, Zenon
    <2>6. had \in Nat /\ had + Len(rows) = I + fetched
      BY <2>2, <2>3, <2>5, SMT
    <2> QED BY <1>2, <1>5, <1>6, <1>7, <2>4, <2>5, <2>6, Zenon
  <1>13. CASE start # 0
    <2>1. rows = props /\ had = I + start
      BY <1>0, <1>5, <1>6, <1>13, Zenon
    <2>2. ASSUME NEW i \in 1..P PROVE rows[i] = due[had + i]
      <3>1. /\ had + i \in 1..(I + fetched) /\ ~(had + i <= I) /\ had + i - I = start + i
        <4>1. start \in Nat /\ start # 0 /\ fetched = start + P
          BY <1>2, <1>4, <1>10, <1>13, Zenon
        <4>2. \A s, f : s \in Nat /\ s # 0 /\ f = s + P
                 => I + s + i \in 1..(I + f) /\ ~(I + s + i <= I) /\ I + s + i - I = s + i
          BY SMT
        <4> QED BY <2>1, <4>1, <4>2, Zenon
      <3>2. due[had + i] = all[start + i]
        <4>1. PICK k : k = had + i
          OBVIOUS
        <4>2. k \in 1..(I + fetched) /\ ~(k <= I) /\ k - I = start + i
          <5>1. k = I + start + i /\ start \in Nat /\ start # 0 /\ fetched = start + P
            BY <1>2, <1>4, <1>10, <1>13, <2>1, <4>1, Zenon
          <5> QED BY <5>1, SMT
        <4>3. due[k] = all[k - I]
          BY <1>9, <4>2, Zenon
        <4> QED BY <4>1, <4>2, <4>3
      <3> QED BY <1>11, <2>1, <3>2, Zenon
    <2>3. Len(rows) = P /\ rows \in Seq(Rows) /\ fetched = start + P
      BY <1>1, <1>2, <1>10, <2>1, Zenon
    <2>4. had \in Nat /\ had + Len(rows) = I + fetched
      <3>1. \A s, f : s \in Nat /\ f = s + P => I + s \in Nat /\ I + s + P = I + f
        BY SMT
      <3>2. I + start \in Nat /\ I + start + P = I + fetched
        BY <1>4, <2>3, <3>1, Zenon
      <3> QED BY <2>1, <2>3, <3>2
    <2> QED BY <1>2, <1>5, <1>6, <1>7, <2>2, <2>3, <2>4, Zenon
  <1> QED BY <1>12, <1>13, Zenon
\* The node a page was applied to.
IsNow(n, start, props, before, ids, now) ==
    /\ before = IF start = 0 THEN <<>> ELSE n.children
    /\ now = [n EXCEPT !.children = before \o ids, !.listed = TRUE,
                       !.fetched = start + Len(props),
                       !.more = FullPage(Len(props), PageSize),
                       !.open = FullPage(Len(props), PageSize) \/ start + Len(props) > 0]

PageMeets(t, id, n, object, start, props, rows, more, ids, before, now) ==
    /\ id \in 1..Len(t.nodes) /\ n = t.nodes[id]
    /\ object = n.row.object /\ ~n.row.accessor /\ start = n.fetched
    /\ IsPage(object, start, props, rows)
    /\ Grown(t.nodes, more, rows) /\ ids = NewIds(t, rows)
    /\ IsNow(n, start, props, before, ids, now)

LEMMA PageKeeps ==
    ASSUME NEW t, TreeInv(t), NEW id, NEW n, NEW object, NEW start, NEW props, NEW rows,
           NEW more, NEW ids, NEW before, NEW now,
           PageMeets(t, id, n, object, start, props, rows, more, ids, before, now)
    PROVE  /\ rows \in Seq(Rows) /\ now \in Node /\ now.row = more[id].row
           /\ RightAs(more, id, now) /\ OnlyHere(more, t.roots, id, now)
  <1>0. /\ id \in 1..Len(t.nodes) /\ n = t.nodes[id]
        /\ object = n.row.object /\ ~n.row.accessor /\ start = n.fetched
        /\ IsPage(object, start, props, rows)
        /\ Grown(t.nodes, more, rows) /\ ids = NewIds(t, rows)
        /\ IsNow(n, start, props, before, ids, now)
    BY Zenon DEF PageMeets
  <1>1. /\ Sound(t.nodes, t.roots, t.watches) /\ t.nodes \in Seq(Node)
        /\ RootsApart(t.nodes, t.roots, t.watches) /\ ChildrenApart(t.nodes)
        /\ RightAs(t.nodes, id, n) /\ OnlyHere(t.nodes, t.roots, id, n)
    BY <1>0, OwnIsOnlyHere, Zenon DEF TreeInv, Sound
  <1>2. PICK N \in Nat : N = Len(t.nodes)
    BY <1>1, Lengths, Zenon
  <1>3. PICK had : had = Had(object, start)
    OBVIOUS
  <1>4. /\ rows \in Seq(Rows) /\ had \in Nat
        /\ had + Len(rows) = Len(Internals[object]) + (start + Len(props))
        /\ \A i \in 1..Len(rows) : rows[i] = Due(object, start + Len(props))[had + i]
    <2>1. AddsDue(object, start, props, rows, Had(object, start))
      BY <1>0, RowsAreDue, Zenon
    <2>2. AddsDue(object, start, props, rows, had)
      BY <1>3, <2>1, Zenon
    <2> QED BY <2>2, Zenon DEF AddsDue
  <1>5. /\ start + Len(props) <= Size(object) /\ Len(props) \in Nat
        /\ ~FullPage(Len(props), PageSize) => start + Len(props) = Size(object)
        /\ object \in Objects /\ start \in 0..Size(object)
    BY <1>0, PageIs, Zenon
  <1>6. PICK R \in Nat : R = Len(rows)
    BY <1>4, LenProperties, Zenon
  <1>7. n \in Node /\ n.children \in Seq(Nat)
    BY <1>0, <1>1, Lengths
  <1>8. start # 0 => n.listed
    BY <1>0, <1>1, Zenon DEF RightAs
  <1>9. before \in Seq(Nat) /\ Len(before) = had /\ (start # 0 => before = n.children)
    <2>1. CASE start = 0
      <3>1. <<>> \in Seq(Nat) /\ Len(<<>>) = 0
        OBVIOUS
      <3> QED BY <1>0, <1>3, <2>1, <3>1, Zenon DEF IsNow, Had
    <2>2. CASE start # 0
      <3>1. before = n.children /\ had = Len(Internals[object]) + start
        BY <1>0, <1>3, <2>2, Zenon DEF IsNow, Had
      <3>2. Len(n.children) = Len(Internals[n.row.object]) + n.fetched
        BY <1>1, <1>8, <2>2, Zenon DEF RightAs
      <3> QED BY <1>0, <1>7, <3>1, <3>2, Zenon
    <2> QED BY <2>1, <2>2, Zenon
  <1>10. /\ ids \in Seq(Nat) /\ Len(ids) = R
         /\ \A i \in 1..R : ids[i] = N + i
    <2>1. Len(t.nodes) \in Nat
      BY <1>2, Zenon
    <2> QED BY <1>0, <1>2, <1>4, <1>6, <2>1, IdsAre, Zenon
  <1>11. PICK all : all = before \o ids
    OBVIOUS
  <1>12. /\ all \in Seq(Nat) /\ Len(all) = had + R
         /\ \A i \in 1..(had + R) : all[i] = IF i <= had THEN before[i] ELSE ids[i - had]
    <2>1. /\ all \in Seq(Nat) /\ Len(all) = Len(before) + Len(ids)
          /\ \A i \in 1..(Len(before) + Len(ids)) :
               all[i] = IF i <= Len(before) THEN before[i] ELSE ids[i - Len(before)]
      BY <1>9, <1>10, <1>11, ConcatProperties, Zenon
    <2> QED BY <1>9, <1>10, <2>1, Zenon
  <1>13. /\ more \in Seq(Node) /\ Len(more) = N + R
         /\ \A i \in 1..N : more[i] = t.nodes[i]
         /\ \A i \in 1..R : more[N + i] = NewNode(rows[i])
    BY <1>0, <1>2, <1>6, Zenon DEF Grown
  <1>14. /\ Sound(more, t.roots, t.watches)
         /\ \A k \in 1..Len(more) :
              /\ k > N => more[k].children = <<>>
              /\ \A i \in 1..Len(more[k].children) : more[k].children[i] \in 1..N
    <2>1. /\ Sound(more, t.roots, t.watches)
          /\ \A k \in 1..Len(more) :
               /\ k > Len(t.nodes) => more[k].children = <<>>
               /\ \A i \in 1..Len(more[k].children) : more[k].children[i] \in 1..Len(t.nodes)
      BY <1>0, <1>1, <1>4, GrownIsSound, Zenon
    <2> QED BY <1>2, <2>1
  \* A row below it is one it had, or new.
  <1>15. ASSUME NEW i \in 1..Len(all)
         PROVE  \/ /\ start # 0 /\ i \in 1..Len(n.children) /\ all[i] = n.children[i]
                   /\ all[i] \in (id + 1)..N /\ all[i] \in 1..N
                \/ i - had \in 1..R /\ all[i] = N + (i - had) /\ had + (i - had) = i
    <2>1. CASE i <= had
      <3>1. i \in 1..had /\ i \in 1..(had + R) /\ had # 0
        BY <1>4, <1>12, <2>1, SMT
      <3>2. start # 0 /\ before = n.children
        BY <1>3, <1>9, <3>1, Zenon DEF Had
      <3>3. all[i] = n.children[i] /\ i \in 1..Len(n.children)
        BY <1>9, <1>12, <2>1, <3>1, <3>2, Zenon
      <3>4. n.children[i] \in (id + 1)..N
        BY <1>1, <1>2, <3>3, Zenon DEF RightAs
      <3>5. n.children[i] \in 1..N
        BY <1>0, <1>2, <3>4, SMT
      <3> QED BY <3>2, <3>3, <3>4, <3>5, Zenon
    <2>2. CASE ~(i <= had)
      <3>1. i \in 1..(had + R) /\ i - had \in 1..R /\ had + (i - had) = i
        BY <1>4, <1>12, <2>2, SMT
      <3>2. all[i] = ids[i - had]
        BY <1>12, <2>2, <3>1, Zenon
      <3> QED BY <1>10, <3>1, <3>2, Zenon
    <2> QED BY <2>1, <2>2, Zenon
  <1>16. PICK fetched : fetched = start + Len(props)
    OBVIOUS
  <1>17. fetched \in Nat /\ start \in Nat /\ fetched \in 0..Size(object) /\ start <= fetched
    <2>1. Size(object) \in Nat
      BY ValuesConstants, LenProperties DEF Size
    <2> HIDE DEF Size
    <2> QED BY <1>5, <1>16, <2>1, SMT
  <1>18. /\ now \in Node /\ now.row = n.row /\ now.children = all /\ now.listed
         /\ now.fetched = fetched /\ now.more = FullPage(Len(props), PageSize)
    <2>1. FullPage(Len(props), PageSize) \in BOOLEAN
      BY DEF FullPage
    <2>2. PICK full \in BOOLEAN : full = FullPage(Len(props), PageSize)
      BY <2>1, Zenon
    <2>3. PICK open \in BOOLEAN : open = (full \/ fetched > 0)
      BY Zenon
    <2>4. now = [n EXCEPT !.children = all, !.listed = TRUE, !.fetched = fetched,
                          !.more = full, !.open = open]
      BY <1>0, <1>11, <1>16, <2>2, <2>3, Zenon DEF IsNow
    <2>5. all \in Seq(Nat) /\ fetched \in Nat
      BY <1>12, <1>17, Zenon
    <2> QED BY <1>7, <2>2, <2>4, <2>5 DEF Node
  <1>19. now.row = more[id].row
    <2>1. id \in 1..N
      BY <1>0, <1>2, Zenon
    <2> QED BY <1>0, <1>13, <1>18, <2>1, Zenon
  <1>20. ASSUME NEW i \in 1..Len(all) PROVE Same(more[all[i]].row, Due(object, fetched)[i])
    <2>1. CASE start # 0 /\ i \in 1..Len(n.children) /\ all[i] = n.children[i] /\ all[i] \in 1..N
      <3>1. n.listed /\ Same(t.nodes[all[i]].row, Due(object, start)[i])
        <4>1. Same(t.nodes[n.children[i]].row, Due(n.row.object, n.fetched)[i])
          BY <1>1, <1>8, <2>1, Zenon DEF RightAs
        <4> QED BY <1>0, <1>8, <2>1, <4>1, Zenon
      <3>2. more[all[i]] = t.nodes[all[i]]
        BY <1>13, <2>1, Zenon
      <3>3. Due(object, start)[i] = Due(object, fetched)[i]
        <4>1. Len(n.children) = Len(Internals[object]) + start
          BY <1>0, <1>1, <1>8, <2>1, Zenon DEF RightAs
        <4>2. i \in 1..(Len(Internals[object]) + start)
          BY <2>1, <4>1, Zenon
        <4> QED BY <1>5, <1>17, <4>2, DueGrows, Zenon
      <3> QED BY <3>1, <3>2, <3>3, Zenon
    <2>2. CASE i - had \in 1..R /\ all[i] = N + (i - had) /\ had + (i - had) = i
      <3>1. PICK k \in 1..R : k = i - had
        BY <2>2, Zenon
      <3>2. more[all[i]] = NewNode(rows[k]) /\ rows[k] = Due(object, fetched)[i]
        <4>1. more[N + k] = NewNode(rows[k])
          BY <1>13, <3>1, Zenon
        <4>2. rows[k] = Due(object, fetched)[had + k]
          BY <1>4, <1>6, <1>16, <3>1, Zenon
        <4> QED BY <2>2, <3>1, <4>1, <4>2, Zenon
      <3>3. rows[k] \in Rows
        BY <1>4, <1>6, <3>1, ElementOfSeq
      <3>4. more[all[i]].row = Due(object, fetched)[i]
        BY <3>2, <3>3, NewNodeIs, Zenon
      <3> QED BY <3>4, Zenon DEF Same
    <2> QED BY <1>15, <2>1, <2>2, Zenon
  <1>21. ASSUME NEW i \in 1..Len(all) PROVE all[i] \in (id + 1)..Len(more)
    <2>1. CASE all[i] \in (id + 1)..N
      BY <1>2, <1>13, <2>1, SMT
    <2>2. CASE i - had \in 1..R /\ all[i] = N + (i - had)
      <3>1. PICK k \in 1..R : k = i - had
        BY <2>2, Zenon
      <3>2. all[i] = N + k /\ id \in 1..N
        BY <1>0, <1>2, <2>2, <3>1, Zenon
      <3> QED BY <1>13, <3>1, <3>2, SMT
    <2> QED BY <1>15, <2>1, <2>2, Zenon
  <1>22. RightAs(more, id, now)
    <2>1. Len(all) = Len(Internals[object]) + fetched
      BY <1>4, <1>6, <1>12, <1>16, Zenon
    <2>2. now.row.object = object /\ ~now.row.accessor
      BY <1>0, <1>18, Zenon
    <2>3. fetched <= Size(object) /\ (~now.more => fetched = Size(object))
      BY <1>5, <1>16, <1>18, Zenon
    <2>4. \A i \in 1..Len(now.children) :
             Same(more[now.children[i]].row, Due(now.row.object, now.fetched)[i])
      BY <1>18, <1>20, <2>2
    <2>5. \A i \in 1..Len(now.children) : now.children[i] \in (id + 1)..Len(more)
      BY <1>18, <1>21
    <2>6. /\ Len(now.children) = Len(Internals[now.row.object]) + now.fetched
          /\ now.row.object \in Objects /\ now.fetched <= Size(now.row.object)
          /\ ~now.more => now.fetched = Size(now.row.object)
      BY <1>5, <1>18, <2>1, <2>2, <2>3, Zenon
    <2> QED BY <1>18, <2>2, <2>4, <2>5, <2>6, Zenon DEF RightAs
  <1>23. OnlyHere(more, t.roots, id, now)
    <2>1. ASSUME NEW i \in 1..Len(all), NEW j \in 1..Len(all), all[i] = all[j] PROVE i = j
      <3>1. CASE i \in 1..Len(n.children) /\ all[i] = n.children[i] /\ all[i] \in 1..N
        <4>1. ~(j - had \in 1..R /\ all[j] = N + (j - had))
          <5>1. \A k \in 1..R : ~(N + k \in 1..N)
            BY SMT
          <5> QED BY <2>1, <3>1, <5>1, Zenon
        <4>2. j \in 1..Len(n.children) /\ all[j] = n.children[j]
          BY <1>15, <4>1, Zenon
        <4> QED BY <1>1, <2>1, <3>1, <4>2, Zenon DEF OnlyHere
      <3>2. CASE i - had \in 1..R /\ all[i] = N + (i - had) /\ had + (i - had) = i
        <4>1. ~(all[j] \in 1..N)
          <5>1. \A k \in 1..R : ~(N + k \in 1..N)
            BY SMT
          <5> QED BY <2>1, <3>2, <5>1, Zenon
        <4>2. j - had \in 1..R /\ all[j] = N + (j - had) /\ had + (j - had) = j
          BY <1>15, <4>1, Zenon
        <4>3. PICK a \in 1..R, b \in 1..R : a = i - had /\ b = j - had
          BY <3>2, <4>2, Zenon
        <4>4. N + a = N + b
          BY <2>1, <3>2, <4>2, <4>3, Zenon
        <4>5. a = b
          BY <4>4, SMT
        <4> QED BY <3>2, <4>2, <4>3, <4>5, Zenon
      <3> QED BY <1>15, <3>1, <3>2, Zenon
    <2>2. ASSUME NEW i \in 1..Len(all), NEW j \in 1..Len(t.roots) PROVE all[i] # t.roots[j]
      <3>1. CASE i \in 1..Len(n.children) /\ all[i] = n.children[i]
        BY <1>1, <2>2, <3>1, Zenon DEF OnlyHere
      <3>2. CASE i - had \in 1..R /\ all[i] = N + (i - had)
        <4>1. t.roots[j] \in 1..N
          BY <1>1, <1>2, <2>2, Zenon DEF RootsApart
        <4>2. \A k \in 1..R : ~(N + k \in 1..N)
          BY SMT
        <4> QED BY <3>2, <4>1, <4>2, Zenon
      <3> QED BY <1>15, <3>1, <3>2, Zenon
    <2>3. ASSUME NEW other \in 1..Len(more), other # id,
                 NEW i \in 1..Len(all), NEW j \in 1..Len(more[other].children)
          PROVE  all[i] # more[other].children[j]
      <3>1. more[other].children[j] \in 1..N
        BY <1>14, <2>3, Zenon
      <3>2. CASE i \in 1..Len(n.children) /\ all[i] = n.children[i]
        <4>1. CASE other \in 1..N
          <5>1. more[other] = t.nodes[other]
            BY <1>13, <4>1, Zenon
          <5>2. \A a \in 1..Len(n.children), b \in 1..Len(t.nodes[other].children) :
                   n.children[a] # t.nodes[other].children[b]
            BY <1>1, <1>2, <2>3, <4>1, Zenon DEF OnlyHere
          <5> QED BY <2>3, <3>2, <5>1, <5>2
        <4>2. CASE other \notin 1..N
          <5>1. other > N
            <6>1. other \in 1..(N + R)
              BY <1>13, <2>3, Zenon
            <6>2. \A k \in 1..(N + R) : k \notin 1..N => k > N
              BY SMT
            <6> QED BY <4>2, <6>1, <6>2, Zenon
          <5>2. more[other].children = <<>>
            BY <1>14, <2>3, <5>1, Zenon
          <5>3. Len(<<>>) = 0 /\ 1..0 = {}
            OBVIOUS
          <5> QED BY <2>3, <5>2, <5>3, Zenon
        <4> QED BY <4>1, <4>2, Zenon
      <3>3. CASE i - had \in 1..R /\ all[i] = N + (i - had)
        <4>1. \A k \in 1..R : ~(N + k \in 1..N)
          BY SMT
        <4> QED BY <3>1, <3>3, <4>1, Zenon
      <3> QED BY <1>15, <3>2, <3>3, Zenon
    <2> QED BY <1>18, <2>1, <2>2, <2>3, Zenon DEF OnlyHere
  <1> QED BY <1>4, <1>18, <1>19, <1>22, <1>23, Zenon
LEMMA ApplyKeeps ==
    ASSUME NEW t, TreeInv(t), NEW id \in DOMAIN t.nodes, NEW object \in Objects,
           object = t.nodes[id].row.object, NEW start \in 0..Size(object)
    PROVE  TreeInv(ApplyProperties(t, id, start, PageSize, Page(object, start, PageSize),
                                   Internals[object]))
  <1>1. t.nodes \in Seq(Node) /\ id \in 1..Len(t.nodes)
    BY LenProperties DEF TreeInv, Sound
  <1>2. PICK n : n = t.nodes[id]
    OBVIOUS
  <1>3. PICK props : props = Page(object, start, PageSize)
    OBVIOUS
  <1>4. PICK rows : rows = IF start = 0 THEN Internals[object] \o props ELSE props
    OBVIOUS
  <1>5. PICK before : before = IF start = 0 THEN <<>> ELSE n.children
    OBVIOUS
  <1>6. PICK ids : ids = NewIds(t, rows)
    OBVIOUS
  <1>7. PICK full : full = FullPage(Len(props), PageSize)
    OBVIOUS
  <1>8. PICK now : now = [n EXCEPT !.children = before \o ids, !.listed = TRUE,
                                   !.fetched = start + Len(props), !.more = full,
                                   !.open = full \/ start + Len(props) > 0]
    OBVIOUS
  <1>9. PICK after : after = ApplyProperties(t, id, start, PageSize, props, Internals[object])
    OBVIOUS
  <1>10. after = IF id \notin DOMAIN t.nodes \/ ~Accepts(n, start) THEN t
                 ELSE [Alloc(t, rows) EXCEPT !.nodes[id] = now]
    BY <1>2, <1>4, <1>5, <1>6, <1>7, <1>8, <1>9, Zenon DEF ApplyProperties
  <1>11. CASE ~Accepts(n, start)
    BY <1>3, <1>9, <1>10, <1>11, Zenon
  <1>12. CASE Accepts(n, start)
    <2>1. ~n.row.accessor /\ start = n.fetched
      <3>1. RightAs(t.nodes, id, n)
        BY <1>1, <1>2, Zenon DEF TreeInv, Sound
      <3> QED BY <1>12, <3>1, Zenon DEF Accepts, RightAs
    <2>2. IsPage(object, start, props, rows)
      BY <1>3, <1>4, Zenon DEF IsPage
    <2>3. rows \in Seq(Rows)
      BY <2>2, RowsAreDue, Zenon DEF AddsDue
    <2>4. PICK more : Grown(t.nodes, more, rows) /\ Alloc(t, rows) = Tree(more, t.roots, t.watches)
      BY <2>3, AllocIs, Zenon
    <2>5. IsNow(n, start, props, before, ids, now)
      BY <1>5, <1>7, <1>8, Zenon DEF IsNow
    <2>6. object = n.row.object
      BY <1>2, Zenon
    <2>7. /\ now \in Node /\ now.row = more[id].row
          /\ RightAs(more, id, now) /\ OnlyHere(more, t.roots, id, now)
      <3>1. PageMeets(t, id, n, object, start, props, rows, more, ids, before, now)
        BY <1>1, <1>2, <1>6, <2>1, <2>2, <2>4, <2>5, <2>6, Zenon DEF PageMeets
      <3> QED BY <3>1, PageKeeps
    <2>8. PICK grown : grown = Tree(more, t.roots, t.watches)
      OBVIOUS
    <2>9. grown.nodes = more /\ grown.roots = t.roots /\ grown.watches = t.watches
      BY <2>8, TreeFields
    <2>10. Sound(more, t.roots, t.watches)
      BY <2>3, <2>4, GrownIsSound, Zenon DEF TreeInv
    <2>11. TreeInv(grown)
      BY <2>8, <2>10, TreeIs, Zenon
    <2>12. after = [grown EXCEPT !.nodes[id] = now]
      BY <1>10, <1>12, <2>4, <2>8, Zenon
    <2>13. id \in 1..Len(grown.nodes)
      <3>1. Len(more) = Len(t.nodes) + Len(rows) /\ Len(rows) \in Nat /\ Len(t.nodes) \in Nat
        BY <1>1, <2>3, <2>4, LenProperties, Zenon DEF Grown
      <3>2. id \in 1..Len(more)
        BY <1>1, <3>1, SMT
      <3> QED BY <2>9, <3>2, Zenon
    <2>14. /\ now \in Node /\ now.row = grown.nodes[id].row
           /\ RightAs(grown.nodes, id, now) /\ OnlyHere(grown.nodes, grown.roots, id, now)
      BY <2>7, <2>9, Zenon
    <2>15. TreeInv(after)
      BY <2>11, <2>12, <2>13, <2>14, PlaceKeeps, Zenon
    <2> QED BY <1>3, <1>9, <2>15, Zenon
  <1> QED BY <1>11, <1>12, Zenon

LEMMA ClearedIsRight ==
    ASSUME NEW t, t = Tree(t.nodes, t.roots, t.watches)
    PROVE  TreeInv(EmptyTree) /\ TreeInv(Clear(t))
  <1>1. /\ <<>> \in Seq(Node) /\ <<>> \in Seq(Nat) /\ 0 \in Nat
        /\ Len(<<>>) = 0 /\ 1..0 = {} /\ 0 <= Len(<<>>)
    OBVIOUS
  <1>2. Sound(<<>>, <<>>, 0)
    BY <1>1, Zenon DEF Sound, ChildrenApart, RootsApart
  <1>3. TreeInv(Tree(<<>>, <<>>, 0))
    BY <1>2, TreeIs, Zenon
  <1>4. EmptyTree = Tree(<<>>, <<>>, 0)
    BY Zenon DEF EmptyTree, Tree
  <1>5. PICK cleared : cleared = Clear(t)
    OBVIOUS
  <1>6. t = [nodes |-> t.nodes, roots |-> t.roots, watches |-> t.watches]
    BY Zenon DEF Tree
  <1>7. cleared = [t EXCEPT !.nodes = <<>>, !.roots = <<>>, !.watches = 0]
    BY <1>5, Zenon DEF Clear
  <1>8. cleared = [nodes |-> <<>>, roots |-> <<>>, watches |-> 0]
    BY <1>6, <1>7
  <1>9. cleared = Tree(<<>>, <<>>, 0)
    BY <1>8, Zenon DEF Tree
  <1> QED BY <1>3, <1>4, <1>5, <1>9, Zenon

-----------------------------------------------------------------------------
(* The tree promises what it does *)

ValuesInv == TreeInv(values)

LEMMA RightIsRight ==
    ASSUME NEW t, TreeInv(t)
    PROVE  ChildrenArePrefix(t) /\ IsForest(t) /\ NothingHidden(t, PageSize)
  <1>1. /\ t.nodes \in Seq(Node) /\ t.roots \in Seq(Nat) /\ t.watches \in Nat
        /\ RootsApart(t.nodes, t.roots, t.watches) /\ ChildrenApart(t.nodes)
        /\ \A id \in 1..Len(t.nodes) : RightAs(t.nodes, id, t.nodes[id])
    BY Zenon DEF TreeInv, Sound
  <1>2. DOMAIN t.nodes = 1..Len(t.nodes)
    BY <1>1, LenProperties
  <1>3. ASSUME NEW id \in DOMAIN t.nodes
        PROVE  /\ t.nodes[id] \in Node /\ RightAs(t.nodes, id, t.nodes[id])
               /\ OnlyHere(t.nodes, t.roots, id, t.nodes[id])
               /\ t.nodes[id].children \in Seq(Nat)
               /\ DOMAIN t.nodes[id].children = 1..Len(t.nodes[id].children)
    <2>1. id \in 1..Len(t.nodes)
      BY <1>2, Zenon
    <2>2. t.nodes[id] \in Node /\ t.nodes[id].children \in Seq(Nat)
      BY <1>1, <2>1, Lengths, Zenon
    <2>3. DOMAIN t.nodes[id].children = 1..Len(t.nodes[id].children)
      BY <2>2, LenProperties
    <2> QED BY <2>1, <2>2, <2>3, OwnIsOnlyHere, Zenon
  <1>4. ChildrenArePrefix(t)
    <2> SUFFICES ASSUME NEW id \in DOMAIN t.nodes, t.nodes[id].listed
                 PROVE  LET n == t.nodes[id]
                            due == Internals[n.row.object] \o SubSeq(Props[n.row.object], 1, n.fetched)
                        IN  /\ Len(n.children) = Len(due)
                            /\ \A i \in DOMAIN due : Same(t.nodes[n.children[i]].row, due[i])
      BY Zenon DEF ChildrenArePrefix
    <2>1. PICK n \in Node : n = t.nodes[id]
      BY <1>3, Zenon
    <2>2. PICK o \in Objects : o = n.row.object
      BY <1>3, <2>1, Zenon DEF RightAs
    <2>3. PICK due : due = Due(o, n.fetched)
      OBVIOUS
    <2>4. n.fetched <= Size(o) /\ Len(n.children) = Len(Internals[o]) + n.fetched
      BY <1>3, <2>1, <2>2, Zenon DEF RightAs
    <2>5. \A i \in 1..Len(n.children) : Same(t.nodes[n.children[i]].row, due[i])
      BY <1>3, <2>1, <2>2, <2>3, Zenon DEF RightAs
    <2>6. n.fetched \in 0..Size(o)
      <3>1. n.fetched \in Nat
        BY DEF Node
      <3>2. Size(o) \in Nat
        BY ValuesConstants, LenProperties DEF Size
      <3> QED BY <2>4, <3>1, <3>2, SMT
    <2>7. due \in Seq(Rows) /\ Len(due) = Len(Internals[o]) + n.fetched
      BY <2>3, <2>6, DueIs, Zenon
    <2>8. DOMAIN due = 1..Len(n.children)
      BY <2>4, <2>7, LenProperties
    <2>9. due = Internals[n.row.object] \o SubSeq(Props[n.row.object], 1, n.fetched)
      BY <2>2, <2>3, Zenon DEF Due
    <2> QED BY <2>1, <2>4, <2>5, <2>7, <2>8, <2>9, Zenon
  <1>5. IsForest(t)
    <2> DEFINE children(id) == ToSet(t.nodes[id].children)
    <2>1. t.watches <= Len(t.roots)
      BY <1>1, Zenon DEF RootsApart
    <2>2. DOMAIN t.roots = 1..Len(t.roots)
      BY <1>1, LenProperties
    <2>3. IsInjective(t.roots)
      BY <1>1, <2>2, Zenon DEF RootsApart, IsInjective
    <2>4. ASSUME NEW id \in DOMAIN t.nodes PROVE IsInjective(t.nodes[id].children)
      BY <1>3, Zenon DEF OnlyHere, IsInjective
    <2>5. ASSUME NEW id \in DOMAIN t.nodes PROVE children(id) \cap ToSet(t.roots) = {}
      <3>1. \A i \in DOMAIN t.nodes[id].children, j \in DOMAIN t.roots :
               t.nodes[id].children[i] # t.roots[j]
        BY <1>3, <2>2, Zenon DEF OnlyHere
      <3> QED BY <3>1, Zenon DEF ToSet
    <2>6. ASSUME NEW id \in DOMAIN t.nodes, NEW child \in children(id) PROVE child > id
      <3>1. PICK i \in DOMAIN t.nodes[id].children : child = t.nodes[id].children[i]
        BY <2>6, Zenon DEF ToSet
      <3>2. child \in (id + 1)..Len(t.nodes)
        BY <1>3, <3>1, Zenon DEF RightAs
      <3>3. id \in Nat /\ Len(t.nodes) \in Nat
        BY <1>1, <1>2, Lengths, SMT
      <3> QED BY <3>2, <3>3, SMT
    <2>7. ASSUME NEW id \in DOMAIN t.nodes, NEW other \in DOMAIN t.nodes, other # id
          PROVE  children(id) \cap children(other) = {}
      <3>1. \A i \in DOMAIN t.nodes[id].children, j \in DOMAIN t.nodes[other].children :
               t.nodes[id].children[i] # t.nodes[other].children[j]
        BY <1>2, <1>3, <2>7, Zenon DEF OnlyHere
      <3> QED BY <3>1, Zenon DEF ToSet
    <2> QED BY <2>1, <2>3, <2>4, <2>5, <2>6, <2>7, Zenon DEF IsForest
  <1>6. NothingHidden(t, PageSize)
    <2> SUFFICES ASSUME NEW id \in DOMAIN t.nodes, t.nodes[id].listed,
                        t.nodes[id].total # NoTotal =>
                          t.nodes[id].total >= Len(Props[t.nodes[id].row.object]),
                        Remaining(t, id, PageSize) = 0
                 PROVE  t.nodes[id].fetched = Len(Props[t.nodes[id].row.object])
      BY Zenon DEF NothingHidden
    <2>1. PICK n \in Node : n = t.nodes[id]
      BY <1>3, Zenon
    <2>2. PICK o \in Objects : o = n.row.object
      BY <1>3, <2>1, Zenon DEF RightAs
    <2>3. PICK L \in Nat : L = Len(Props[o]) /\ L = Size(o)
      <3>1. Len(Props[o]) \in Nat
        BY ValuesConstants, LenProperties
      <3> QED BY <3>1, Zenon DEF Size
    <2>4. n.fetched <= L /\ (~n.more => n.fetched = L)
      BY <1>3, <2>1, <2>2, <2>3, Zenon DEF RightAs
    <2>5. /\ n.fetched \in Nat /\ n.total \in Nat \cup {NoTotal}
          /\ PageSize \in Nat \ {0} /\ NoTotal \notin Nat
      BY ValuesConstants DEF Node
    <2>6. (IF n.total # NoTotal THEN (IF n.total > n.fetched THEN n.total - n.fetched ELSE 0)
           ELSE IF n.more THEN PageSize ELSE 0) = 0
      BY <2>1, Zenon DEF Remaining
    <2>7. n.total # NoTotal => n.total >= L
      BY <2>1, <2>2, <2>3, Zenon
    <2>8. CASE n.total # NoTotal
      <3>1. n.total \in Nat /\ n.total >= L
        BY <2>5, <2>7, <2>8, Zenon
      <3>2. (IF n.total > n.fetched THEN n.total - n.fetched ELSE 0) = 0
        BY <2>6, <2>8, Zenon
      <3>3. n.fetched = L
        BY <2>4, <2>5, <3>1, <3>2, SMT
      <3> QED BY <2>1, <2>2, <2>3, <3>3, Zenon
    <2>9. CASE n.total = NoTotal
      <3>1. (IF n.more THEN PageSize ELSE 0) = 0
        BY <2>6, <2>9, Zenon
      <3>2. ~n.more
        BY <2>5, <3>1, Zenon
      <3> QED BY <2>1, <2>2, <2>3, <2>4, <3>2, Zenon
    <2> QED BY <2>8, <2>9, Zenon
  <1> QED BY <1>4, <1>5, <1>6, Zenon

\* Whatever pages were asked for and whenever they were answered, for objects of
\* any shape and pages of any size, a tree's rows are its objects' properties.
\* [apply_properties, set_watch_roots, apply_getter_result, remaining]
THEOREM RowsAreAlwaysProperties == ValuesSpec => []RowsAreProperties
  <1>1. ValuesInit => ValuesInv
    <2> SUFFICES ASSUME NEW row \in RootRows, values = PushRoot(EmptyTree, row)
                 PROVE  TreeInv(values)
      BY Zenon DEF ValuesInit, ValuesInv
    <2>1. row \in Rows
      BY ValuesConstants, Zenon
    <2>2. TreeInv(EmptyTree)
      <3>1. EmptyTree = Tree(EmptyTree.nodes, EmptyTree.roots, EmptyTree.watches)
        BY DEF EmptyTree, Tree
      <3> QED BY <3>1, ClearedIsRight, Zenon
    <2> QED BY <2>1, <2>2, PushRootKeeps, Zenon
  <1>2. ValuesInv /\ [ValuesNext]_valuesVars => ValuesInv'
    <2> SUFFICES ASSUME TreeInv(values), [ValuesNext]_valuesVars PROVE TreeInv(values')
      BY Zenon DEF ValuesInv
    <2>1. PICK t : t = values
      OBVIOUS
    <2>2. TreeInv(t)
      BY <2>1, Zenon
    <2>3. CASE PushesRoot
      <3>1. PICK row \in RootRows : values' = PushRoot(t, row)
        BY <2>1, <2>3, Zenon DEF PushesRoot, Operates
      <3>2. row \in Rows
        BY ValuesConstants, Zenon
      <3>3. TreeInv(PushRoot(t, row))
        BY <2>2, <3>2, PushRootKeeps, Zenon
      <3> QED BY <3>1, <3>3, Zenon
    <2>4. CASE StartsAgain
      <3>1. PICK row \in RootRows : values' = PushRoot(Clear(t), row)
        BY <2>1, <2>4, Zenon DEF StartsAgain, Operates
      <3>2. row \in Rows
        BY ValuesConstants, Zenon
      <3>3. TreeInv(Clear(t))
        BY <2>2, ClearedIsRight, Zenon DEF TreeInv
      <3>4. TreeInv(PushRoot(Clear(t), row))
        BY <3>2, <3>3, PushRootKeeps, Zenon
      <3> QED BY <3>1, <3>4, Zenon
    <2>5. CASE SetsWatches
      <3>1. PICK rows \in WatchRows : values' = SetWatchRoots(t, rows)
        BY <2>1, <2>5, Zenon DEF SetsWatches, Operates
      <3>2. rows \in Seq(Rows)
        BY ValuesConstants, Zenon
      <3>3. TreeInv(SetWatchRoots(t, rows))
        BY <2>2, <3>2, SetWatchRootsKeeps, Zenon
      <3> QED BY <3>1, <3>3, Zenon
    <2>6. CASE AppliesProperties
      <3>1. PICK id \in DOMAIN t.nodes :
              LET object == t.nodes[id].row.object IN
              /\ object # NoObject
              /\ \E start \in 0..Len(Props[object]) :
                   values' = ApplyProperties(t, id, start, PageSize,
                                             Page(object, start, PageSize), Internals[object])
        BY <2>1, <2>6, Zenon DEF AppliesProperties, Operates
      <3>2. PICK object : object = t.nodes[id].row.object
        OBVIOUS
      <3>3. PICK start \in 0..Size(object) :
              values' = ApplyProperties(t, id, start, PageSize,
                                        Page(object, start, PageSize), Internals[object])
        BY <3>1, <3>2, Zenon DEF Size
      <3>4. object \in Objects
        <4>1. t.nodes \in Seq(Node) /\ id \in 1..Len(t.nodes)
          BY <2>2, LenProperties DEF TreeInv, Sound
        <4>2. t.nodes[id].row \in Rows
          BY <4>1, Lengths, Zenon
        <4>3. object \in Objects \cup {NoObject}
          BY <3>2, <4>2 DEF Rows
        <4> QED BY <3>1, <3>2, <4>3, Zenon
      <3>5. TreeInv(ApplyProperties(t, id, start, PageSize, Page(object, start, PageSize),
                                    Internals[object]))
        BY <2>2, <3>2, <3>4, ApplyKeeps, Zenon
      <3> QED BY <3>3, <3>5, Zenon
    <2>7. CASE InvokesGetter
      <3>1. PICK id \in DOMAIN t.nodes, object \in GetterValues :
              values' = ApplyGetterResult(t, id, object)
        BY <2>1, <2>7, Zenon DEF InvokesGetter, Operates
      <3>2. object \in Objects \cup {NoObject}
        BY ValuesConstants, Zenon
      <3>3. TreeInv(ApplyGetterResult(t, id, object))
        BY <2>2, <3>2, GetterKeeps, Zenon
      <3> QED BY <3>1, <3>3, Zenon
    <2>8. CASE LearnsTotal
      <3>1. PICK id \in DOMAIN t.nodes, total \in Totals : values' = SetKnownTotal(t, id, total)
        BY <2>1, <2>8, Zenon DEF LearnsTotal, Operates
      <3>2. total \in Nat
        BY ValuesConstants, Zenon
      <3>3. TreeInv(SetKnownTotal(t, id, total))
        BY <2>2, <3>2, KnownTotalKeeps, Zenon
      <3> QED BY <3>1, <3>3, Zenon
    <2>9. CASE UNCHANGED valuesVars
      BY <2>9, Zenon DEF valuesVars
    <2> QED BY <2>3, <2>4, <2>5, <2>6, <2>7, <2>8, <2>9, Zenon DEF ValuesNext
  <1>3. ValuesInv => RowsAreProperties
    BY RightIsRight, Zenon DEF ValuesInv, RowsAreProperties
  <1> QED BY <1>1, <1>2, <1>3, PTL DEF ValuesSpec
=============================================================================
