------------------------------ MODULE Session ------------------------------
(***************************************************************************)
(* The session task of mjx-wk-session: concurrent callers, the command     *)
(* channel, the correlation table `pending`, the learned capabilities and  *)
(* the sub-target list, over one transport to one debuggee.                *)
(*                                                                         *)
(* A caller runs `SessionHandle::call` in two atomic steps, because the    *)
(* runtime is multi-threaded: CallStart (the support check and the id) and *)
(* CallSend (the channel send).  The session task runs one iteration of    *)
(* its `select!` per step.  The debuggee is external: it answers what it   *)
(* was sent in any order, it may repeat an answer, lose a sub-target or    *)
(* hang up.                                                                *)
(***************************************************************************)
EXTENDS Naturals, Sequences

CONSTANTS
    Calls,          \* the invocations of SessionHandle::call, each made once
    Members,        \* qualified protocol members callers ask for
    SubTargets,     \* ids Target.targetCreated may announce
    NoTarget,       \* an unrouted handle: `route: None`
    NoCall,         \* an absent entry of `pending`
    NoResult,       \* a call that has not returned
    Inexpressible,  \* members the dialect's supports() rejects
    Unencodable,    \* members the dialect's encode() fails on
    Absent,         \* [Routes -> SUBSET Members]: what each target lacks
    MaxId,          \* bound on request ids (next_id is a u64)
    MaxInbound,     \* bound on frames in flight to the session
    MaxEvents,      \* bound on target lifecycle events
    MaxCopies,      \* how many copies of an answer the debuggee may send
    PeerMayClose,   \* whether the debuggee may hang up cleanly
    LinkMayFail,    \* whether the link may fail with an error
    TargetsMayDie   \* whether a sub-target may be destroyed

Routes == SubTargets \cup {NoTarget}

ASSUME SessionConstants ==
    /\ NoTarget \notin SubTargets
    /\ NoCall \notin Calls
    /\ Inexpressible \subseteq Members
    /\ Unencodable \subseteq Members
    /\ Absent \in [Routes -> SUBSET Members]
    /\ MaxId \in Nat /\ MaxInbound \in Nat /\ MaxEvents \in Nat
    /\ MaxCopies \in Nat \ {0}
    /\ PeerMayClose \in BOOLEAN /\ LinkMayFail \in BOOLEAN
    /\ TargetsMayDie \in BOOLEAN

VARIABLES
    \* the callers
    pc,           \* where each call is: see PCs
    req,          \* [Calls -> Requests], meaningful once pc # "idle"
    result,       \* what each call's oneshot received
    \* the session
    nextId,       \* Shared::next_id
    unavailable,  \* Capabilities::unavailable
    subTargets,   \* Shared::sub_targets
    handles,      \* history: those it ever listed; a for_target handle stays usable
    connected,    \* Shared::connected
    cmdQueue,     \* the command channel
    pending,      \* the correlation table, by request id
    task,         \* where session_task is: see Tasks
    reading,      \* session_task's `reading`
    \* the link and the debuggee
    wire,         \* "up", "closed" by the peer, "seen" by recv() as closed
    inbound,      \* frames the debuggee sent, in order
    owed,         \* requests the debuggee received and has not dealt with
    answered,     \* ids whose own target has answered them
    live,         \* sub-targets alive at the debuggee
    events        \* lifecycle events so far

callVars == <<pc, req, result>>
sharedVars == <<nextId, unavailable, subTargets, handles, connected>>
taskVars == <<cmdQueue, pending, task, reading>>
peerVars == <<wire, inbound, owed, answered, live, events>>
vars == <<callVars, sharedVars, taskVars, peerVars>>

Ids == 1..MaxId
NoId == 0

\* "issued": holds an id, not yet in the channel.  "dropped": the future was
\* cancelled while it awaited its reply.
PCs == {"idle", "issued", "awaiting", "done", "dropped"}

\* "select": in select!.  "parked": recv() returned None, only the command
\* channel is polled.  "closing": out of the loop, awaiting close().
Tasks == {"select", "parked", "closing", "ended"}
Running == task \in {"select", "parked"}

WireOutcomes == {"ok", "notfound", "error"}
LocalOutcomes ==
    {"unsupported", "dialect", "transport", "abandoned", "closed"}

Requests == [id : Ids \cup {NoId}, member : Members, target : Routes]
Results ==
    [outcome : WireOutcomes \cup LocalOutcomes, id : Ids \cup {NoId}, target : Routes]
ASSUME NoResultIsNone == NoResult \notin Results

Obligations ==
    [id : Ids, member : Members, target : Routes, due : SUBSET {"ack", "reply"}]

Reply(i, o, t) == [kind |-> "reply", id |-> i, outcome |-> o, target |-> t]
Lifecycle(k, t) == [kind |-> k, id |-> NoId, outcome |-> "ok", target |-> t]
Junk == Lifecycle("junk", NoTarget)
Local(o) == [outcome |-> o, id |-> NoId, target |-> NoTarget]

Frames ==
    [kind : {"reply"}, id : Ids, outcome : WireOutcomes, target : Routes]
    \cup [kind : {"created", "destroyed"}, id : {NoId}, outcome : {"ok"}, target : SubTargets]
    \cup {Junk}

\* A oneshot send: a caller that is gone ignores it.
Resolve(S, r) ==
    /\ result' = [c \in Calls |-> IF c \in S /\ pc[c] = "awaiting" THEN r ELSE result[c]]
    /\ pc' = [c \in Calls |-> IF c \in S /\ pc[c] = "awaiting" THEN "done" ELSE pc[c]]

NoPending == [i \in Ids |-> NoCall]
Waiting == {pending[i] : i \in Ids} \ {NoCall}
Queued == {cmdQueue[k] : k \in DOMAIN cmdQueue}

-----------------------------------------------------------------------------
Init ==
    /\ pc = [c \in Calls |-> "idle"]
    /\ req \in [Calls -> {[id |-> NoId, member |-> m, target |-> NoTarget] : m \in Members}]
    /\ result = [c \in Calls |-> NoResult]
    /\ nextId = 1
    /\ unavailable = {}
    /\ subTargets = {}
    /\ handles = {}
    /\ connected = TRUE
    /\ cmdQueue = <<>>
    /\ pending = NoPending
    /\ task = "select"
    /\ reading = FALSE
    /\ wire = "up"
    /\ inbound = <<>>
    /\ owed = {}
    /\ answered = {}
    /\ live = {}
    /\ events = 0

-----------------------------------------------------------------------------
(* SessionHandle::call *)

\* ensure_supported, then next_id.fetch_add.  A routed handle names a target
\* the session has seen, and may outlive its listing or die before the request
\* reaches it.
CallStart(c, t) ==
    LET m == req[c].member IN
    /\ pc[c] = "idle"
    /\ t \in handles \cup {NoTarget}
    /\ IF m \in Inexpressible \cup unavailable
       THEN /\ pc' = [pc EXCEPT ![c] = "done"]
            /\ result' = [result EXCEPT ![c] = Local("unsupported")]
            /\ UNCHANGED <<req, nextId>>
       ELSE /\ nextId \in Ids
            /\ pc' = [pc EXCEPT ![c] = "issued"]
            /\ req' = [req EXCEPT ![c] = [id |-> nextId, member |-> m, target |-> t]]
            /\ nextId' = nextId + 1
            /\ UNCHANGED result
    /\ UNCHANGED <<unavailable, subTargets, handles, connected, taskVars, peerVars>>

\* cmd_tx.send: it fails only once session_task has returned and dropped cmd_rx.
CallSend(c) ==
    /\ pc[c] = "issued"
    /\ IF task = "ended"
       THEN /\ pc' = [pc EXCEPT ![c] = "done"]
            /\ result' = [result EXCEPT ![c] = Local("closed")]
            /\ UNCHANGED cmdQueue
       ELSE /\ pc' = [pc EXCEPT ![c] = "awaiting"]
            /\ cmdQueue' = Append(cmdQueue, c)
            /\ UNCHANGED result
    /\ UNCHANGED <<req, sharedVars, pending, task, reading, peerVars>>

\* The caller's task is aborted while it awaits: the oneshot receiver goes,
\* the command or the pending entry stays.
CallDrop(c) ==
    /\ pc[c] = "awaiting"
    /\ pc' = [pc EXCEPT ![c] = "dropped"]
    /\ UNCHANGED <<req, result, sharedVars, taskVars, peerVars>>

-----------------------------------------------------------------------------
(* session_task *)

\* Leaving the loop: connected goes false, every waiter is abandoned except
\* those in `failed`, whose own command brought the loop down.
Teardown(failed) ==
    /\ task' = "closing"
    /\ connected' = FALSE
    /\ pending' = NoPending
    /\ LET freed == {c \in Waiting \cup failed : pc[c] = "awaiting"} IN
       /\ pc' = [c \in Calls |-> IF c \in freed THEN "done" ELSE pc[c]]
       /\ result' = [c \in Calls |->
             IF c \in freed THEN Local(IF c \in failed THEN "transport" ELSE "abandoned")
             ELSE result[c]]

\* A command can be taken in select! and while parked alike.
TaskTakes(c) ==
    /\ Running
    /\ cmdQueue # <<>>
    /\ c = Head(cmdQueue)
    /\ cmdQueue' = Tail(cmdQueue)

\* handle_cmd when encode fails: the caller is told, the loop goes on.
TaskEncodeFails(c) ==
    /\ TaskTakes(c)
    /\ req[c].member \in Unencodable
    /\ Resolve({c}, Local("dialect"))
    /\ task' = "select"
    /\ UNCHANGED <<req, sharedVars, pending, reading, peerVars>>

\* What the debuggee owes for the request of call c.
Obligation(c) ==
    [id |-> req[c].id, member |-> req[c].member, target |-> req[c].target,
     due |-> IF req[c].target = NoTarget THEN {"reply"} ELSE {"ack", "reply"}]

\* Faulty: keeps a single waiter.
BadCorrelate(c) == [NoPending EXCEPT ![req[c].id] = c]

\* pending.insert.
Correlate(c) == [pending EXCEPT ![req[c].id] = c]

\* handle_cmd when the transport takes the frame.  A peer that has hung up
\* may still let the write through into the socket's buffer; once recv() has
\* seen the end, send() refuses.
TaskSends(c) ==
    /\ TaskTakes(c)
    /\ req[c].member \notin Unencodable
    /\ wire # "seen"
    /\ pending' = Correlate(c)
    /\ reading' = TRUE
    /\ task' = "select"
    /\ owed' = IF wire = "up" THEN owed \cup {Obligation(c)} ELSE owed
    /\ UNCHANGED <<callVars, sharedVars, wire, inbound, answered, live, events>>

\* Faulty: a failed send fails its own caller and the loop goes on.
BadTaskSendFails(c) ==
    /\ TaskTakes(c)
    /\ req[c].member \notin Unencodable
    /\ wire # "up"
    /\ Resolve({c}, Local("transport"))
    /\ UNCHANGED <<req, sharedVars, pending, task, reading, peerVars>>

\* handle_cmd when transport.send fails: this caller gets the transport error,
\* the loop breaks and everyone else in `pending` is abandoned.
TaskSendFails(c) ==
    /\ TaskTakes(c)
    /\ req[c].member \notin Unencodable
    /\ wire # "up" \/ LinkMayFail
    /\ Teardown({c})
    /\ UNCHANGED <<req, nextId, unavailable, subTargets, handles, reading, peerVars>>

\* Faulty: stops reading while somebody waits.
BadPollsRecv == task = "select" /\ reading /\ cmdQueue = <<>> /\ Waiting = {}

\* select! is biased: recv() is polled only with the command channel empty.
PollsRecv == task = "select" /\ reading /\ cmdQueue = <<>>

\* Faulty: takes the acknowledgement of an envelope for the answer.
BadIsAck(c, f) == FALSE

\* An envelope's acknowledgement: the waiter is routed, the frame is not.
IsAck(c, f) == req[c].target # NoTarget /\ f.target = NoTarget

\* Faulty: nothing teaches.
BadLearnedNothing(c, f) == {}

\* learn_from_failure: only MethodNotFound is durable knowledge.
Learned(c, f) == IF f.outcome = "notfound" THEN {req[c].member} ELSE {}

\* complete_pending for a response or an error frame.
CompletePending(f) ==
    LET c == pending[f.id] IN
    IF c = NoCall \/ IsAck(c, f)
    THEN UNCHANGED <<pc, result, pending, unavailable>>
    ELSE /\ pending' = [pending EXCEPT ![f.id] = NoCall]
         /\ unavailable' = unavailable \cup Learned(c, f)
         /\ Resolve({c}, [outcome |-> f.outcome, id |-> f.id, target |-> f.target])

\* Faulty: forgets to retire a destroyed sub-target.
BadNoteTargetLifecycle(f) ==
    subTargets' = IF f.kind = "created" THEN subTargets \cup {f.target} ELSE subTargets

\* note_target_lifecycle.
NoteTargetLifecycle(f) ==
    subTargets' = CASE f.kind = "created"   -> subTargets \cup {f.target}
                    [] f.kind = "destroyed" -> subTargets \ {f.target}
                    [] OTHER                -> subTargets

\* handle_inbound: a frame nobody can decode is dropped.
TaskReceives ==
    /\ PollsRecv
    /\ inbound # <<>>
    /\ LET f == Head(inbound) IN
       /\ IF f.kind = "reply" THEN CompletePending(f)
          ELSE UNCHANGED <<pc, result, pending, unavailable>>
       /\ NoteTargetLifecycle(f)
       /\ handles' = handles \cup subTargets'
    /\ inbound' = Tail(inbound)
    /\ UNCHANGED <<req, nextId, connected, cmdQueue, task, reading,
                   wire, owed, answered, live, events>>

\* recv() returns None: park on the next command, `connected` left alone.
TaskSeesClose ==
    /\ PollsRecv
    /\ inbound = <<>>
    /\ wire # "up"
    /\ wire' = "seen"
    /\ task' = "parked"
    /\ UNCHANGED <<callVars, sharedVars, cmdQueue, pending, reading,
                   inbound, owed, answered, live, events>>

\* recv() returns Some(Err): the loop breaks, frames not yet read are lost.
TaskRecvFails ==
    /\ PollsRecv
    /\ LinkMayFail
    /\ wire # "seen"
    /\ Teardown({})
    /\ inbound' = <<>>
    /\ UNCHANGED <<req, nextId, unavailable, subTargets, handles, cmdQueue, reading,
                   wire, owed, answered, live, events>>

\* transport.close() returns and session_task with it: cmd_rx is dropped, and
\* with it the reply sender of every command still queued.
TaskReturns ==
    /\ task = "closing"
    /\ task' = "ended"
    /\ cmdQueue' = <<>>
    /\ Resolve(Queued, Local("closed"))
    /\ wire' = "seen"
    /\ UNCHANGED <<req, sharedVars, pending, reading,
                   inbound, owed, answered, live, events>>

-----------------------------------------------------------------------------
(* The debuggee (external) *)

PeerSends(fs) ==
    /\ wire = "up"
    /\ Len(inbound) + Len(fs) <= MaxInbound
    /\ inbound' = inbound \o fs

PeerOutcomes(o) == IF o.member \in Absent[o.target] THEN {"notfound"} ELSE {"ok", "error"}

\* The target a request was meant for answers it.
PeerAnswers(o) ==
    /\ "reply" \in o.due
    /\ o.target \in live \cup {NoTarget}
    /\ \E out \in PeerOutcomes(o), n \in 1..MaxCopies :
          PeerSends([k \in 1..n |-> Reply(o.id, out, o.target)])
    /\ owed' = (owed \ {o}) \cup
               (IF o.due = {"reply"} THEN {} ELSE {[o EXCEPT !.due = @ \ {"reply"}]})
    /\ answered' = answered \cup {o.id}
    /\ UNCHANGED <<callVars, sharedVars, taskVars, wire, live, events>>

\* Target.sendMessageToTarget is acknowledged, before or after the answer.
PeerAcks(o) ==
    /\ "ack" \in o.due
    /\ o.target \in live \/ "reply" \notin o.due
    /\ PeerSends(<<Reply(o.id, "ok", NoTarget)>>)
    /\ owed' = (owed \ {o}) \cup
               (IF o.due = {"ack"} THEN {} ELSE {[o EXCEPT !.due = @ \ {"ack"}]})
    /\ UNCHANGED <<callVars, sharedVars, taskVars, wire, answered, live, events>>

\* Target.sendMessageToTarget names a sub-target that is gone: an error with
\* the request's id and no target attribution, and no inner answer.
PeerRefuses(o) ==
    /\ o.due = {"ack", "reply"}
    /\ o.target \notin live
    /\ PeerSends(<<Reply(o.id, "error", NoTarget)>>)
    /\ owed' = owed \ {o}
    /\ UNCHANGED <<callVars, sharedVars, taskVars, wire, answered, live, events>>

PeerCreates(t) ==
    /\ t \notin live
    /\ events < MaxEvents
    /\ PeerSends(<<Lifecycle("created", t)>>)
    /\ live' = live \cup {t}
    /\ events' = events + 1
    /\ UNCHANGED <<callVars, sharedVars, taskVars, wire, owed, answered>>

\* A sub-target dies: what it had accepted is never answered.
PeerDestroys(t) ==
    /\ TargetsMayDie
    /\ t \in live
    /\ events < MaxEvents
    /\ PeerSends(<<Lifecycle("destroyed", t)>>)
    /\ live' = live \ {t}
    /\ events' = events + 1
    /\ owed' = {o \in owed : ~(o.target = t /\ o.due = {"reply"})}
    /\ UNCHANGED <<callVars, sharedVars, taskVars, wire, answered>>

\* A frame that is no protocol frame.
PeerGarbles ==
    /\ inbound = <<>>
    /\ events < MaxEvents
    /\ PeerSends(<<Junk>>)
    /\ events' = events + 1
    /\ UNCHANGED <<callVars, sharedVars, taskVars, wire, owed, answered, live>>

\* The debuggee hangs up; what it had sent can still be read.
PeerCloses ==
    /\ PeerMayClose
    /\ wire = "up"
    /\ wire' = "closed"
    /\ UNCHANGED <<callVars, sharedVars, taskVars, inbound, owed, answered, live, events>>

-----------------------------------------------------------------------------
CallerStep(c) == (\E t \in Routes : CallStart(c, t)) \/ CallSend(c) \/ CallDrop(c)

TaskHandles(c) == TaskEncodeFails(c) \/ TaskSends(c) \/ TaskSendFails(c)

TaskStep ==
    \/ \E c \in Calls : TaskHandles(c)
    \/ TaskReceives
    \/ TaskSeesClose
    \/ TaskRecvFails
    \/ TaskReturns

PeerHandles(i) == \E o \in owed : o.id = i /\ (PeerAnswers(o) \/ PeerAcks(o) \/ PeerRefuses(o))

PeerStep ==
    \/ \E o \in owed : PeerAnswers(o) \/ PeerAcks(o) \/ PeerRefuses(o)
    \/ \E t \in SubTargets : PeerCreates(t) \/ PeerDestroys(t)
    \/ PeerGarbles
    \/ PeerCloses

\* Every caller has its outcome: the session idles until someone calls again.
Quiet ==
    /\ \A c \in Calls : pc[c] \in {"idle", "done", "dropped"}
    /\ UNCHANGED vars

Next == (\E c \in Calls : CallerStep(c)) \/ TaskStep \/ PeerStep \/ Quiet

Spec == Init /\ [][Next]_vars

\* The runtime polls the session task and a caller past its id; the debuggee
\* deals with each request it got.  Nobody has to call, cancel or fail.
Fairness ==
    /\ WF_vars((\E c \in Calls : TaskEncodeFails(c) \/ TaskSends(c)) \/ TaskReceives \/ TaskReturns)
    /\ WF_vars(\E c \in Calls : TaskSendFails(c) /\ wire = "seen")
    /\ WF_vars(TaskSeesClose)
    /\ \A c \in Calls : WF_vars(CallSend(c))
    /\ \A i \in Ids : WF_vars(PeerHandles(i))

FairSpec == Spec /\ Fairness

-----------------------------------------------------------------------------
\* The state has its declared shape.  [SessionHandle, session_task]
TypeOK ==
    /\ pc \in [Calls -> PCs]
    /\ req \in [Calls -> Requests]
    /\ result \in [Calls -> Results \cup {NoResult}]
    /\ nextId \in 1..(MaxId + 1)
    /\ unavailable \subseteq Members
    /\ subTargets \subseteq SubTargets /\ handles \subseteq SubTargets
    /\ connected \in BOOLEAN
    /\ cmdQueue \in Seq(Calls)
    /\ pending \in [Ids -> Calls \cup {NoCall}]
    /\ task \in Tasks
    /\ reading \in BOOLEAN
    /\ wire \in {"up", "closed", "seen"}
    /\ inbound \in Seq(Frames)
    /\ owed \subseteq Obligations
    /\ answered \subseteq Ids
    /\ live \subseteq SubTargets
    /\ events \in 0..MaxEvents

\* No caller is forgotten: while a caller awaits, the sending half of its
\* oneshot is in the command channel or in `pending` under its own id, never
\* in neither, and after the task returned nobody awaits.  [the hand-over of
\* `reply` from SessionCmd to Pending in handle_cmd, and session_task's end]
NoCallerForgotten ==
    \A c \in Calls : pc[c] = "awaiting" =>
        \/ c \in Queued /\ task # "ended"
        \/ pending[req[c].id] = c /\ Running

\* A reply reaches the caller that sent the request: a call that returned
\* what the debuggee said returned the answer to its own id, said by the
\* target it was routed to -- not the acknowledgement of its envelope, not a
\* repeated answer to somebody else.  [complete_pending]
ReplyCorrelated ==
    \A c \in Calls : (result[c] # NoResult /\ result[c].outcome \in WireOutcomes) =>
        /\ result[c].id = req[c].id
        /\ result[c].target = req[c].target
        /\ req[c].id \in answered

\* Only a member some target really lacks is ever recorded unavailable.
\* [Capabilities::learn_from_failure, "every other error says something about
\* this call"]
LearnsOnlyAbsence == \A m \in unavailable : \E t \in Routes : m \in Absent[t]

\* Once any caller has been told MethodNotFound for a member, every later
\* call of that member is refused locally, whoever makes it and through
\* whatever route.  [complete_pending before the oneshot, ensure_supported]
SecondCallShortCircuits ==
    [][\A c, d \in Calls :
         /\ pc[c] = "idle" /\ pc'[c] # "idle"
         /\ result[d] # NoResult /\ result[d].outcome = "notfound"
         /\ req[d].member = req[c].member
         => result'[c] = Local("unsupported")]_vars

\* The places of the lifecycle frames about a target.
Told(frames, t) ==
    {k \in DOMAIN frames : frames[k].kind \in {"created", "destroyed"} /\ frames[k].target = t}

\* Once the frames have been applied in order the target is listed or not, as
\* the last frame about it says.
Arrives(listed, frames, t, alive) ==
    /\ Told(frames, t) = {} => listed = alive
    /\ \A k \in Told(frames, t) :
          (\A j \in Told(frames, t) : j <= k) => (frames[k].kind = "created") = alive

\* While the session runs, the sub-targets it lists are those of the debuggee
\* once the lifecycle events still on the way are applied in order.
\* [note_target_lifecycle]
SubTargetsCatchUp ==
    Running => \A t \in SubTargets : Arrives(t \in subTargets, inbound, t, t \in live)

-----------------------------------------------------------------------------
(* The session implements CallService. *)

statusBar ==
    [c \in Calls |->
        IF pc[c] = "idle" THEN "new"
        ELSE IF pc[c] \in {"issued", "awaiting"} THEN "open"
        ELSE IF pc[c] = "dropped" THEN "given up"
        ELSE IF result[c].outcome \in WireOutcomes THEN "replied"
        ELSE IF result[c].outcome = "unsupported" THEN "refused"
        ELSE "failed"]

answeredBar == {c \in Calls : req[c].id \in answered}

Service == INSTANCE CallService WITH
    status <- statusBar, answered <- answeredBar, up <- connected

\* Every step of callers, session task and debuggee is a step of the promise
\* CallService makes, or invisible to it.  [SessionHandle::call]
ImplementsCallService == Service!Spec

-----------------------------------------------------------------------------
\* A call's answer is coming: its peer has not hung up, its target lives.
AnswerComing(c) ==
    wire = "up" /\ (req[c].target # NoTarget => req[c].target \in live)

\* A caller that awaits gets its outcome as long as the debuggee stays up and
\* the sub-target it addressed stays alive.  [SessionHandle::call]
CallResolves ==
    \A c \in Calls : pc[c] = "awaiting" ~> (pc[c] # "awaiting" \/ ~AnswerComing(c))

\* After the debuggee hung up, the next command that can be encoded ends the
\* session and frees every caller that was stuck.  [the parked branch of
\* session_task; a command that cannot be encoded only fails itself]
NextCommandFreesAll ==
    \A c \in Calls :
        (/\ pc[c] = "awaiting" /\ c \in Queued
         /\ wire = "seen" /\ req[c].member \notin Unencodable)
        ~> (\A d \in Calls : pc[d] # "awaiting")

\* Every caller gets an outcome.  SessionError's Abandoned is documented as
\* "A reply never arrived" / "before the session ended".  This does not hold.
\* [SessionHandle::call, session_task]
EveryCallResolves == \A c \in Calls : pc[c] = "awaiting" ~> pc[c] # "awaiting"
=============================================================================
