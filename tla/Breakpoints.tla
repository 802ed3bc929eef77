---------------------------- MODULE Breakpoints ----------------------------
(***************************************************************************)
(* The breakpoint store of mjx-wk-debug and the DebugAgent that keeps it:  *)
(* line breakpoints with the index the gutter reads, the DOM, event, URL   *)
(* and symbolic ones, and the pauses that are counted against them.        *)
(*                                                                         *)
(* The agent is exclusive while a call of its own is under way: what the   *)
(* debuggee reports meanwhile waits and is folded after the call returned. *)
(* A breakpoint is set by URL; its source is the debugger's own number and *)
(* outlives a reload, the script that has the URL does not.                *)
(***************************************************************************)
EXTENDS Naturals, Sequences, FiniteSets, SequencesExt, Excerpt

CONSTANTS
    Sources,      \* sources a line breakpoint may be in
    Places,       \* where in its source a breakpoint may end up
    Nodes,        \* DOM nodes
    DomKinds,     \* what a DOM breakpoint waits for; two or more
    NodeRemoved,  \* one of them
    Others,       \* event, URL and symbolic breakpoints
    Meant,        \* [Others -> Others]: what the protocol calls each
    NoPlace, NoRow,
    MaxLine,      \* bound on the line breakpoints
    MaxCalls,     \* bound on the other calls
    MaxPauses,    \* bound on the pauses of the debuggee
    MaxReloads    \* bound on its reloads

DomRows == [node : Nodes, kind : DomKinds]

ASSUME BreakpointConstants ==
    /\ NodeRemoved \in DomKinds
    /\ NoPlace \notin Places
    /\ NoRow \notin Nodes
    /\ Others \cap DomRows = {}
    /\ Meant \in [Others -> Others]
    /\ MaxLine \in Nat /\ MaxCalls \in Nat /\ MaxPauses \in Nat /\ MaxReloads \in Nat

VARIABLES
    \* the debuggee
    bound,      \* [ids it handed out -> [source, at]]
    hits,       \* how often it stopped at each
    held,       \* the DOM, event, URL and symbolic breakpoints it holds
    parsed,     \* sources of which a script has parsed
    alive,      \* nodes of its document
    stopped,    \* the pause it is in, or 0
    counts,     \* calls, pauses and reloads so far
    \* between the two
    call,       \* the agent's call under way
    queue,      \* events that wait for the agent
    \* the agent
    all,        \* BreakpointStore::all
    bySource,   \* its index
    rows,       \* its other lists
    paused,     \* the pause it shows, or 0
    gone        \* history: nodes it was told are removed

debuggeeVars == <<bound, hits, held, parsed, alive, stopped, counts>>
agentVars == <<all, bySource, rows, paused, gone>>
vars == <<debuggeeVars, call, queue, agentVars>>

NoId == 0
NoCall == [step |-> "none", kind |-> "none", index |-> 0, row |-> NoRow, ok |-> FALSE,
           id |-> NoId, at |-> NoPlace]
LineCall(i) == [NoCall EXCEPT !.step = "sent", !.kind = "line", !.index = i]
RowCall(k, r) == [NoCall EXCEPT !.step = "sent", !.kind = k, !.row = r]

Resolution(id, at) == [kind |-> "resolved", id |-> id, at |-> at, node |-> NoRow, pause |-> 0]
Pause(n, id, node) == [kind |-> "paused", id |-> id, at |-> NoPlace, node |-> node, pause |-> n]
Continued == [kind |-> "continued", id |-> NoId, at |-> NoPlace, node |-> NoRow, pause |-> 0]

Init ==
    /\ bound = <<>> /\ hits = <<>> /\ held = {} /\ parsed = {}
    /\ alive = Nodes
    /\ stopped = 0
    /\ counts = [calls |-> 0, pauses |-> 0, reloads |-> 0]
    /\ call = NoCall /\ queue = <<>>
    /\ all = <<>> /\ bySource = [s \in Sources |-> <<>>] /\ rows = {}
    /\ paused = 0 /\ gone = {}

-----------------------------------------------------------------------------
(* BreakpointStore *)

\* A breakpoint's state: Pending, Disabled, Failed, or Resolved to a place.
New(source, enabled) ==
    [id |-> NoId, source |-> source, at |-> NoPlace, hits |-> 0,
     state |-> IF enabled THEN "pending" ELSE "disabled"]

\* reindex: the loop pushes each to the list of its source.
Reindexed(list) ==
    [s \in Sources |-> Excerpt(list, {i \in DOMAIN list : list[i].source = s})]

\* Faulty: the index is left as it was.
BadStore(list) == all' = list /\ UNCHANGED bySource

Store(list) == all' = list /\ bySource' = Reindexed(list)

\* insert: the new one goes to the end of both, the rest of the index stays.
Insert(bp) ==
    /\ all' = Append(all, bp)
    /\ bySource' = [bySource EXCEPT ![bp.source] = Append(@, bp)]

\* find_index: the first with that id; 0 when there is none.
FindIndex(list, id) ==
    IF \E i \in DOMAIN list : list[i].id = id
    THEN CHOOSE i \in DOMAIN list : list[i].id = id /\ \A j \in 1..(i - 1) : list[j].id # id
    ELSE 0

\* resolve.
Resolve(list, id, at) ==
    LET i == FindIndex(list, id) IN
    IF i = 0 THEN list ELSE [list EXCEPT ![i].state = "resolved", ![i].at = at]

\* Faulty: counts at the last one that was set.
BadRecordHit(list, id) ==
    IF FindIndex(list, id) = 0 THEN list ELSE [list EXCEPT ![Len(list)].hits = @ + 1]

\* record_hit.
RecordHit(list, id) ==
    LET i == FindIndex(list, id) IN IF i = 0 THEN list ELSE [list EXCEPT ![i].hits = @ + 1]

\* Faulty: drops the one breakpoint that fired.
BadCleanupDomNode(list, node) == list \ {[node |-> node, kind |-> NodeRemoved]}

\* cleanup_dom_node: every kind of breakpoint on the node.
CleanupDomNode(list, node) == list \ [node : {node}, kind : DomKinds]

-----------------------------------------------------------------------------
(* The agent's calls *)

Idle == call.step = "none"

\* set_breakpoint_by_url: a disabled one stays here.
SetBreakpointByUrl ==
    /\ Idle
    /\ Len(all) < MaxLine
    /\ \E s \in Sources, enabled \in BOOLEAN :
        /\ Insert(New(s, enabled))
        /\ call' = IF enabled THEN LineCall(Len(all) + 1) ELSE NoCall
    /\ UNCHANGED <<debuggeeVars, queue, rows, paused, gone>>

\* Faulty: the id comes too late for the place.
BadFinishLine ==
    /\ call.step = "answered" /\ call.kind = "line"
    /\ Store(IF call.ok
             THEN [(IF call.at = NoPlace THEN all ELSE Resolve(all, call.id, call.at))
                     EXCEPT ![call.index].id = call.id]
             ELSE [all EXCEPT ![call.index].state = "failed"])
    /\ call' = NoCall
    /\ UNCHANGED <<debuggeeVars, queue, rows, paused, gone>>

\* Its second half: the id, then the place if a script is there already.
FinishLine ==
    /\ call.step = "answered" /\ call.kind = "line"
    /\ LET named == [all EXCEPT ![call.index].id = call.id]
       IN  Store(IF ~call.ok THEN [all EXCEPT ![call.index].state = "failed"]
                 ELSE IF call.at = NoPlace THEN named ELSE Resolve(named, call.id, call.at))
    /\ call' = NoCall
    /\ UNCHANGED <<debuggeeVars, queue, rows, paused, gone>>

\* set_dom_breakpoint and its kin: the list follows the debuggee's consent.
AskRow ==
    /\ Idle
    /\ counts.calls < MaxCalls
    /\ \E k \in {"set", "remove"}, r \in DomRows \cup Others : call' = RowCall(k, r)
    /\ counts' = [counts EXCEPT !.calls = @ + 1]
    /\ UNCHANGED <<bound, hits, held, parsed, alive, stopped, queue, agentVars>>

FinishRow ==
    /\ call.step = "answered" /\ call.kind \in {"set", "remove"}
    /\ rows' = IF ~call.ok THEN rows
               ELSE IF call.kind = "set" THEN rows \cup {call.row} ELSE rows \ {call.row}
    /\ call' = NoCall
    /\ UNCHANGED <<debuggeeVars, queue, all, bySource, paused, gone>>

-----------------------------------------------------------------------------
(* The agent's events *)

\* handle_breakpoint_resolved, handle_paused, handle_execution_continued.
OnEvent ==
    /\ Idle
    /\ queue # <<>>
    /\ LET e == Head(queue) IN
        /\ Store(IF e.kind = "resolved" THEN Resolve(all, e.id, e.at)
                 ELSE IF e.kind = "paused" /\ e.id # NoId THEN RecordHit(all, e.id)
                 ELSE all)
        /\ rows' = IF e.node = NoRow THEN rows ELSE CleanupDomNode(rows, e.node)
        /\ gone' = IF e.node = NoRow THEN gone ELSE gone \cup {e.node}
        /\ paused' = IF e.kind = "resolved" THEN paused ELSE e.pause
    /\ queue' = Tail(queue)
    /\ UNCHANGED <<debuggeeVars, call>>

-----------------------------------------------------------------------------
(* The debuggee, external *)

Ids == DOMAIN bound

\* Where a breakpoint binds if a script of its source is there.
AnswersLine ==
    /\ call.step = "sent" /\ call.kind = "line"
    /\ LET s == all[call.index].source IN
       \E at \in IF s \in parsed THEN Places ELSE {NoPlace} :
        /\ bound' = Append(bound, [source |-> s, at |-> at])
        /\ hits' = Append(hits, 0)
        /\ call' = [call EXCEPT !.step = "answered", !.ok = TRUE, !.id = Len(bound) + 1,
                                !.at = at]
    /\ UNCHANGED <<held, parsed, alive, stopped, counts, queue, agentVars>>

\* event_category_to_protocol: two names of the agent's may mean one breakpoint.
Asked(row) == IF row \in Others THEN Meant[row] ELSE row

\* A node that is gone takes no breakpoint; none is removed that is not held.
AnswersRow ==
    /\ call.step = "sent" /\ call.kind \in {"set", "remove"}
    /\ IF call.kind = "set"
       THEN /\ call.row \in DomRows => call.row.node \in alive
            /\ held' = held \cup {Asked(call.row)}
       ELSE /\ Asked(call.row) \in held
            /\ held' = held \ {Asked(call.row)}
    /\ call' = [call EXCEPT !.step = "answered", !.ok = TRUE]
    /\ UNCHANGED <<bound, hits, parsed, alive, stopped, counts, queue, agentVars>>

Refuses ==
    /\ call.step = "sent"
    /\ call' = [call EXCEPT !.step = "answered"]
    /\ UNCHANGED <<debuggeeVars, queue, agentVars>>

\* A script parses; the breakpoints on its URL bind one after the other.
Parses ==
    \E s \in Sources \ parsed, at \in Places :
        /\ parsed' = parsed \cup {s}
        /\ bound' = [id \in Ids |-> IF bound[id].source = s
                                    THEN [source |-> s, at |-> at] ELSE bound[id]]
        /\ queue' = queue \o SetToSeq({Resolution(id, at) : id \in
                                        {i \in Ids : bound[i].source = s}})
        /\ UNCHANGED <<hits, held, alive, stopped, counts, call, agentVars>>

StopsFor(event) ==
    /\ stopped = 0 /\ counts.pauses < MaxPauses
    /\ counts' = [counts EXCEPT !.pauses = @ + 1]
    /\ stopped' = counts.pauses + 1
    /\ queue' = Append(queue, event)

StopsAtLine ==
    \E id \in Ids :
        /\ bound[id].at # NoPlace
        /\ StopsFor(Pause(counts.pauses + 1, id, NoRow))
        /\ hits' = [hits EXCEPT ![id] = @ + 1]
        /\ UNCHANGED <<bound, held, parsed, alive, call, agentVars>>

\* A node goes, and with it every breakpoint on it; if one waits for that the
\* debuggee stops and says so.
RemovesNode ==
    \E n \in alive :
        /\ stopped = 0
        /\ alive' = alive \ {n}
        /\ held' = CleanupDomNode(held, n)
        /\ IF [node |-> n, kind |-> NodeRemoved] \in held
           THEN StopsFor(Pause(counts.pauses + 1, NoId, n))
           ELSE UNCHANGED <<stopped, counts, queue>>
        /\ UNCHANGED <<bound, hits, parsed, call, agentVars>>

StopsOtherwise ==
    /\ held \cap Others # {} \/ \E r \in held \cap DomRows : r.kind # NodeRemoved
    /\ StopsFor(Pause(counts.pauses + 1, NoId, NoRow))
    /\ UNCHANGED <<bound, hits, held, parsed, alive, call, agentVars>>

Resumes ==
    /\ stopped # 0
    /\ stopped' = 0
    /\ queue' = Append(queue, Continued)
    /\ UNCHANGED <<bound, hits, held, parsed, alive, counts, call, agentVars>>

\* Debugger.globalObjectCleared: the scripts and the document are gone, the
\* breakpoints by URL, event and symbol stay.
Reloads ==
    /\ counts.reloads < MaxReloads
    /\ counts' = [counts EXCEPT !.reloads = @ + 1]
    /\ stopped' = 0
    /\ parsed' = {} /\ alive' = {}
    /\ held' = held \ DomRows
    /\ bound' = [id \in Ids |-> [bound[id] EXCEPT !.at = NoPlace]]
    /\ queue' = Append(queue, Continued)
    /\ UNCHANGED <<hits, call, agentVars>>

Next ==
    \/ SetBreakpointByUrl \/ FinishLine \/ AskRow \/ FinishRow \/ OnEvent
    \/ AnswersLine \/ AnswersRow \/ Refuses
    \/ Parses \/ StopsAtLine \/ RemovesNode \/ StopsOtherwise \/ Resumes \/ Reloads

Spec == Init /\ [][Next]_vars

-----------------------------------------------------------------------------
(* What the store promises *)

States == {"pending", "disabled", "failed", "resolved"}
TypeOK ==
    /\ all \in Seq([id : 0..MaxLine, source : Sources, at : Places \cup {NoPlace},
                    hits : 0..MaxPauses, state : States])
    /\ bySource \in [Sources -> Seq(ToSet(all))]
    /\ rows \subseteq DomRows \cup Others /\ held \subseteq DomRows \cup Others
    /\ stopped \in 0..MaxPauses /\ paused \in 0..MaxPauses
    /\ call.step \in {"none", "sent", "answered"} /\ call.index \in 0..Len(all)

Settled == Idle /\ queue = <<>>

\* With nothing under way the store says what the debuggee did: each id it
\* gave is on one breakpoint of the same source, bound where the debuggee has
\* it; nothing is pending that is bound; and a breakpoint without an id was
\* refused or never sent.  This across events that overtake the reply, and
\* across reloads, after which nothing is sent again.
\* [set_breakpoint_by_url, handle_breakpoint_resolved]
StoreAgrees ==
    Settled =>
        /\ \A id \in Ids :
            /\ Cardinality({i \in DOMAIN all : all[i].id = id}) = 1
            /\ LET bp == all[FindIndex(all, id)] IN
                /\ bp.source = bound[id].source
                /\ bound[id].at # NoPlace => bp.state = "resolved" /\ bp.at = bound[id].at
        /\ \A i \in DOMAIN all : all[i].id = NoId => all[i].state \in {"disabled", "failed"}

\* What the debuggee holds is listed, and what is listed it holds, unless it was
\* asked for by another name too: removed by one, it stays listed by the other.
OthersAgree(list) ==
    /\ \A h \in held \cap Others : \E r \in list \cap Others : Meant[r] = h
    /\ \A r \in list \cap Others :
         (\A o \in Others : Meant[o] = Meant[r] => o = r) => Meant[r] \in held

\* The lists hold what the debuggee holds, for nodes that are still there; and
\* nothing on a node whose removal the debuggee stopped for.
\* [set_dom_breakpoint and its kin, cleanup_dom_node, event_category_to_protocol]
RowsAgree ==
    Settled =>
        /\ \A r \in DomRows : r.node \in alive => (r \in rows <=> r \in held)
        /\ OthersAgree(rows)
        /\ \A r \in rows \cap DomRows : r.node \notin gone

\* Every stop at a breakpoint is counted once, at that breakpoint, also when
\* it happened before the debuggee's answer gave the breakpoint its id; the
\* gutter of a source shows what the list says of it, in every state a
\* breakpoint goes through; and the pause shown is the one the debuggee is in.
\* [record_hit, reindex, handle_paused, handle_execution_continued]
HitsAreCounted ==
    /\ bySource = Reindexed(all)
    /\ \A id \in Ids :
        LET i == FindIndex(all, id)
            waiting == Cardinality({k \in DOMAIN queue :
                                      queue[k].kind = "paused" /\ queue[k].id = id})
        IN  (IF i = 0 THEN 0 ELSE all[i].hits) + waiting = hits[id]
    /\ Settled => paused = stopped
=============================================================================
