------------------------- MODULE BreakpointsProofs -------------------------
(***************************************************************************)
(* Theorems about Breakpoints, for every set of sources, places, nodes and *)
(* breakpoints and every number of calls, pauses and reloads: what the     *)
(* agent's lists say of the debuggee once nothing is under way.  And about *)
(* Clicks: what a click or an edit reaches, for all lines and pauses.      *)
(***************************************************************************)
EXTENDS Breakpoints, Clicks, ExcerptProofs, FiniteSetTheorems

Spots == Places \cup {NoPlace}
Bps == [id : Nat, source : Sources, at : Spots, hits : Nat, state : States]
Bindings == [source : Sources, at : Spots]
Events == [kind : {"resolved", "paused", "continued"}, id : Nat, at : Spots,
           node : Nodes \cup {NoRow}, pause : Nat]
Calls == [step : {"none", "sent", "answered"}, kind : {"none", "line", "set", "remove"},
          index : Nat, row : DomRows \cup Others \cup {NoRow}, ok : BOOLEAN, id : Nat,
          at : Spots]
Counts == [calls : Nat, pauses : Nat, reloads : Nat]

\* The types, without their bounds.
Typed ==
    /\ all \in Seq(Bps) /\ bound \in Seq(Bindings) /\ queue \in Seq(Events)
    /\ call \in Calls /\ counts \in Counts

\* How far the agent's call is.
Asking ==
    /\ call.step = "none" <=> call.kind = "none"
    /\ call.step # "answered" => ~call.ok
    /\ call.kind \in {"set", "remove"} => call.row \in DomRows \cup Others

-----------------------------------------------------------------------------
(* The rows *)

\* The rows as they will be when the call under way has returned.
Effective ==
    IF call.step = "answered" /\ call.ok /\ call.kind = "set" THEN rows \cup {call.row}
    ELSE IF call.step = "answered" /\ call.ok /\ call.kind = "remove" THEN rows \ {call.row}
    ELSE rows

\* What is gone stays gone, and the news of it is about gone nodes.
Departed ==
    /\ alive \subseteq Nodes
    /\ \A n \in gone : n \notin alive
    /\ \A k \in 1..Len(queue) : queue[k].node # NoRow => queue[k].node \notin alive

RowsFollow ==
    /\ \A r \in DomRows : r.node \in alive => (r \in Effective <=> r \in held)
    /\ OthersAgree(Effective)
    /\ \A r \in DomRows : r \in Effective => r.node \notin gone

-----------------------------------------------------------------------------
(* The line breakpoints *)

Named(id) == \E i \in 1..Len(all) : all[i].id = id
Answering == call.step = "answered" /\ call.kind = "line" /\ call.ok

\* Each id is on one breakpoint, or in the reply about to be taken.
IdsFollow ==
    /\ \A i \in 1..Len(all) : all[i].id \in 0..Len(bound)
    /\ \A i, j \in 1..Len(all) : all[i].id # NoId /\ all[i].id = all[j].id => i = j
    /\ \A i \in 1..Len(all) : all[i].id # NoId => bound[all[i].id].source = all[i].source
    /\ \A id \in 1..Len(bound) : Named(id) \/ (Answering /\ call.id = id)

\* The call is about one that has no id.
AskingForOne ==
    /\ call.kind = "line" => call.index \in 1..Len(all) /\ all[call.index].id = NoId
    /\ Answering =>
         /\ call.id \in 1..Len(bound)
         /\ bound[call.id].source = all[call.index].source
         /\ ~Named(call.id)

\* None is waited for that is not asked for.
NoneForgotten ==
    \A i \in 1..Len(all) :
        all[i].id = NoId => \/ all[i].state \in {"disabled", "failed"}
                            \/ call.kind = "line" /\ call.index = i

Tells(k, id) == queue[k].kind = "resolved" /\ queue[k].id = id
KnownIds == \A k \in 1..Len(queue) : queue[k].kind = "resolved" => queue[k].id \in 1..Len(bound)

\* The last word about an id is the place it is bound at: the last event that
\* waits, or else what the list or the reply says.
LastEventSays(id, at) ==
    \E k \in 1..Len(queue) :
        /\ Tells(k, id) /\ queue[k].at = at
        /\ \A j \in 1..Len(queue) : j > k => ~Tells(j, id)
ListSays(id, at) ==
    \E i \in 1..Len(all) : all[i].id = id /\ all[i].state = "resolved" /\ all[i].at = at
ReplySays(id, at) == Answering /\ call.id = id /\ call.at = at

PlacesFollow ==
    \A id \in 1..Len(bound) :
        bound[id].at # NoPlace =>
            \/ LastEventSays(id, bound[id].at)
            \/ /\ \A k \in 1..Len(queue) : ~Tells(k, id)
               /\ ListSays(id, bound[id].at) \/ ReplySays(id, bound[id].at)

StoreFollows == IdsFollow /\ AskingForOne /\ NoneForgotten /\ KnownIds /\ PlacesFollow

AgentInv == Typed /\ Asking /\ Departed /\ RowsFollow /\ StoreFollows

-----------------------------------------------------------------------------
(* Operators *)

\* SetToSeq lists a finite set, everything once.
LEMMA SetToSeqLists ==
    ASSUME NEW S, IsFiniteSet(S)
    PROVE  /\ SetToSeq(S) \in Seq(S)
           /\ \A x \in S : \E k \in 1..Len(SetToSeq(S)) : SetToSeq(S)[k] = x
           /\ \A j, k \in 1..Len(SetToSeq(S)) : SetToSeq(S)[j] = SetToSeq(S)[k] => j = k
<1>1. PICK n \in Nat : n = Cardinality(S)
  BY FS_CardinalityType
<1>2. ExistsBijection(1..n, S)
  BY <1>1, FS_CardinalityType
<1>3. PICK g : g \in Bijection(1..n, S)
  BY <1>2 DEF ExistsBijection
<1>4. g \in [1..n -> S] /\ IsInjective(g)
  BY <1>3 DEF Bijection, Injection
<1>5. PICK f : f = SetToSeq(S)
  OBVIOUS
<1>6. f \in [1..n -> S] /\ IsInjective(f)
  BY <1>1, <1>4, <1>5 DEF SetToSeq
<1>7. f \in Seq(S) /\ Len(f) = n
  <2>1. f \in Seq(S)  BY <1>6, SeqDef
  <2>2. DOMAIN f = 1..n /\ DOMAIN f = 1..Len(f) /\ Len(f) \in Nat
    BY <1>6, <2>1, LenProperties
  <2> QED BY <2>1, <2>2
<1>8. f \in Injection(1..n, S)  BY <1>6 DEF Injection
<1>9. f \in Surjection(1..n, S)
  <2>1. IsFiniteSet(1..n) /\ Cardinality(1..n) = n
    <3>1. 1 \in Int /\ n \in Int  OBVIOUS
    <3> QED BY <3>1, FS_Interval
  <2> QED BY <1>1, <1>8, <2>1, FS_Injection
<1>10. \A x \in S : \E k \in 1..n : f[k] = x
  BY <1>9 DEF Surjection
<1>11. \A j, k \in 1..n : f[j] = f[k] => j = k
  BY <1>6 DEF IsInjective
<1> QED BY <1>5, <1>7, <1>10, <1>11

\* The one that has the id is found.
LEMMA FindsIt ==
    ASSUME NEW S, NEW list \in Seq(S), NEW id, NEW i \in 1..Len(list), list[i].id = id,
           \A j \in 1..Len(list) : list[j].id = id => j = i
    PROVE  FindIndex(list, id) = i
<1>1. DOMAIN list = 1..Len(list) /\ Len(list) \in Nat  BY LenProperties
<1>2. \A j \in 1..(i - 1) : list[j].id # id  BY <1>1
<1>3. \A k \in DOMAIN list : (list[k].id = id /\ \A j \in 1..(k - 1) : list[j].id # id) <=> k = i
  BY <1>1, <1>2
<1>4. (CHOOSE k \in DOMAIN list : list[k].id = id /\ \A j \in 1..(k - 1) : list[j].id # id) = i
  BY <1>1, <1>3
<1>5. \E k \in DOMAIN list : list[k].id = id  BY <1>1
<1> QED BY <1>4, <1>5 DEF FindIndex

\* Resolve and RecordHit touch what they find, and nothing else.
LEMMA ResolveIs ==
    ASSUME NEW list \in Seq(Bps), NEW id, NEW at \in Spots, NEW i \in 1..Len(list),
           FindIndex(list, id) = i
    PROVE  /\ Resolve(list, id, at) \in Seq(Bps)
           /\ Len(Resolve(list, id, at)) = Len(list)
           /\ \A j \in 1..Len(list) : j # i => Resolve(list, id, at)[j] = list[j]
           /\ Resolve(list, id, at)[i].id = list[i].id
           /\ Resolve(list, id, at)[i].source = list[i].source
           /\ Resolve(list, id, at)[i].hits = list[i].hits
           /\ Resolve(list, id, at)[i].state = "resolved"
           /\ Resolve(list, id, at)[i].at = at
<1>1. list[i] \in Bps /\ i # 0 /\ i \in DOMAIN list
  BY ElementOfSeq, LenProperties
<1>2. PICK b : b = [id |-> list[i].id, source |-> list[i].source, at |-> at,
                    hits |-> list[i].hits, state |-> "resolved"]
  OBVIOUS
<1>3. b \in Bps  BY <1>1, <1>2 DEF Bps, States
<1>4. Resolve(list, id, at) = [list EXCEPT ![i] = b]
  <2>1. Resolve(list, id, at) = [list EXCEPT ![i].state = "resolved", ![i].at = at]
    BY <1>1 DEF Resolve
  <2>2. PICK c : c = [list[i] EXCEPT !.state = "resolved"]  OBVIOUS
  <2>3. c = [id |-> list[i].id, source |-> list[i].source, at |-> list[i].at,
             hits |-> list[i].hits, state |-> "resolved"]
    BY <1>1, <2>2 DEF Bps
  <2>4. [c EXCEPT !.at = at] = b  BY <1>2, <2>3
  <2>5. [list EXCEPT ![i].state = "resolved", ![i].at = at]
          = [[list EXCEPT ![i] = c] EXCEPT ![i].at = at]
    BY <2>2
  <2>6. [list EXCEPT ![i] = c][i] = c  BY <1>1
  <2>7. [[list EXCEPT ![i] = c] EXCEPT ![i].at = at] = [[list EXCEPT ![i] = c] EXCEPT ![i] = b]
    BY <2>4, <2>6
  <2>8. [[list EXCEPT ![i] = c] EXCEPT ![i] = b] = [list EXCEPT ![i] = b]
    BY <1>1
  <2> QED BY <2>1, <2>5, <2>7, <2>8
<1>5. /\ [list EXCEPT ![i] = b] \in Seq(Bps)
      /\ Len([list EXCEPT ![i] = b]) = Len(list)
      /\ \A j \in 1..Len(list) : [list EXCEPT ![i] = b][j] = IF j = i THEN b ELSE list[j]
  BY <1>3, ExceptSeq
<1> QED BY <1>2, <1>4, <1>5

LEMMA RecordHitIs ==
    ASSUME NEW list \in Seq(Bps), NEW id,
           \A i, j \in 1..Len(list) : list[i].id = id /\ list[j].id = id => i = j
    PROVE  /\ RecordHit(list, id) \in Seq(Bps)
           /\ Len(RecordHit(list, id)) = Len(list)
           /\ \A j \in 1..Len(list) :
                /\ RecordHit(list, id)[j].id = list[j].id
                /\ RecordHit(list, id)[j].source = list[j].source
                /\ RecordHit(list, id)[j].state = list[j].state
                /\ RecordHit(list, id)[j].at = list[j].at
                /\ RecordHit(list, id)[j].hits
                     = IF list[j].id = id THEN list[j].hits + 1 ELSE list[j].hits
<1>1. DOMAIN list = 1..Len(list)  BY LenProperties
<1>2. CASE \A i \in 1..Len(list) : list[i].id # id
  BY <1>1, <1>2 DEF RecordHit, FindIndex
<1>3. CASE \E i \in 1..Len(list) : list[i].id = id
  <2>1. PICK i \in 1..Len(list) : list[i].id = id  BY <1>3
  <2>2. FindIndex(list, id) = i /\ i # 0  BY <2>1, FindsIt
  <2>3. list[i] \in Bps  BY <2>2, ElementOfSeq
  <2>4. PICK b : b = [id |-> list[i].id, source |-> list[i].source, at |-> list[i].at,
                      hits |-> list[i].hits + 1, state |-> list[i].state]
    OBVIOUS
  <2>5. b \in Bps  BY <2>3, <2>4 DEF Bps
  <2>6. RecordHit(list, id) = [list EXCEPT ![i] = b]
    <3>1. [list[i] EXCEPT !.hits = @ + 1] = b  BY SMTT(30), <2>3, <2>4 DEF Bps
    <3> QED BY <2>2, <3>1 DEF RecordHit
  <2>7. /\ [list EXCEPT ![i] = b] \in Seq(Bps)
        /\ Len([list EXCEPT ![i] = b]) = Len(list)
        /\ \A j \in 1..Len(list) : [list EXCEPT ![i] = b][j] = IF j = i THEN b ELSE list[j]
    BY <2>2, <2>5, ExceptSeq
  <2>8. \A j \in 1..Len(list) : list[j].id = id <=> j = i  BY <2>1
  <2>9. /\ b.id = list[i].id /\ b.source = list[i].source /\ b.state = list[i].state
        /\ b.at = list[i].at /\ b.hits = list[i].hits + 1
    BY <2>4
  <2> QED BY <2>6, <2>7, <2>8, <2>9
<1> QED BY <1>2, <1>3

-----------------------------------------------------------------------------
(* Facts many steps share *)

LEMMA InitInv == Init => AgentInv
<1> SUFFICES ASSUME Init PROVE AgentInv
  OBVIOUS
<1>1. /\ alive = Nodes /\ all = <<>> /\ bound = <<>> /\ queue = <<>> /\ rows = {} /\ held = {} /\ gone = {}
      /\ call = NoCall /\ counts = [calls |-> 0, pauses |-> 0, reloads |-> 0]
  BY DEF Init
<1>2. \A S : <<>> \in Seq(S) /\ Len(<<>>) = 0  BY EmptySeq
<1>3. call = [step |-> "none", kind |-> "none", index |-> 0, row |-> NoRow, ok |-> FALSE,
              id |-> 0, at |-> NoPlace]
  BY <1>1 DEF NoCall, NoId
<1>4. Typed  BY <1>1, <1>2, <1>3 DEF Typed, Calls, Counts, Spots
<1>5. Asking  BY <1>3 DEF Asking
<1>6. Departed  BY <1>1, <1>2 DEF Departed
<1>7. RowsFollow  BY <1>1, <1>3 DEF RowsFollow, OthersAgree, Effective
<1>8. StoreFollows
  BY <1>1, <1>2, <1>3 DEF StoreFollows, IdsFollow, AskingForOne, NoneForgotten, KnownIds,
                          PlacesFollow, Answering
<1> QED BY <1>4, <1>5, <1>6, <1>7, <1>8 DEF AgentInv

LEMMA Appended ==
    ASSUME Typed, NEW e \in Events, queue' = Append(queue, e)
    PROVE  /\ queue' \in Seq(Events) /\ Len(queue) \in Nat /\ Len(queue') = Len(queue) + 1
           /\ \A i \in 1..Len(queue) : queue'[i] = queue[i]
           /\ queue'[Len(queue) + 1] = e
BY AppendProperties, LenProperties DEF Typed

\* Where the list, the ids and the queue stay, and the call is no other.
LEMMA SameStore ==
    ASSUME StoreFollows, UNCHANGED <<all, bound, queue>>,
           Answering' <=> Answering, call'.kind = "line" <=> call.kind = "line",
           call.kind = "line" =>
             call'.index = call.index /\ call'.id = call.id /\ call'.at = call.at
    PROVE  StoreFollows'
<1>1. Answering => call.kind = "line"  BY DEF Answering
<1>2. \A id : (Named(id))' <=> Named(id)  BY DEF Named
<1>3. IdsFollow'  BY <1>1, <1>2 DEF StoreFollows, IdsFollow
<1>4. AskingForOne'  BY <1>1, <1>2 DEF StoreFollows, AskingForOne
<1>5. NoneForgotten'  BY DEF StoreFollows, NoneForgotten
<1>6. KnownIds'  BY DEF StoreFollows, KnownIds
<1>7. PlacesFollow'
  <2>1. \A id, at : (ReplySays(id, at))' <=> ReplySays(id, at)
    BY <1>1 DEF ReplySays
  <2>2. \A id, at : (ListSays(id, at))' <=> ListSays(id, at)  BY DEF ListSays
  <2>3. \A id, at : (LastEventSays(id, at))' <=> LastEventSays(id, at)
    BY DEF LastEventSays, Tells
  <2>4. \A k, id : (Tells(k, id))' <=> Tells(k, id)  BY DEF Tells
  <2> QED BY <2>1, <2>2, <2>3, <2>4 DEF StoreFollows, PlacesFollow
<1> QED BY <1>3, <1>4, <1>5, <1>6, <1>7 DEF StoreFollows

\* An event that names no place changes nothing of what was said before it.
LEMMA StoppedStore ==
    ASSUME Typed, StoreFollows, NEW e \in Events, e.kind # "resolved",
           queue' = Append(queue, e), UNCHANGED <<all, bound, call>>
    PROVE  StoreFollows'
<1>0. /\ Len(queue) \in Nat /\ Len(queue') = Len(queue) + 1
      /\ \A i \in 1..Len(queue) : queue'[i] = queue[i]
      /\ queue'[Len(queue) + 1] = e
  BY Appended
<1>1. Answering' <=> Answering  BY DEF Answering
<1>2. \A id : (Named(id))' <=> Named(id)  BY DEF Named
<1>3. IdsFollow'  BY <1>1, <1>2 DEF StoreFollows, IdsFollow
<1>4. AskingForOne'  BY <1>1, <1>2 DEF StoreFollows, AskingForOne
<1>5. NoneForgotten'  BY DEF StoreFollows, NoneForgotten
<1>6. \A k \in 1..Len(queue') : k \in 1..Len(queue) \/ queue'[k] = e
  BY <1>0
<1>7. KnownIds'  BY <1>0, <1>6 DEF StoreFollows, KnownIds
<1>8. \A id : \A k \in 1..Len(queue') : (Tells(k, id))' => k \in 1..Len(queue) /\ Tells(k, id)
  BY <1>0, <1>6 DEF Tells
<1>9. \A id : \A k \in 1..Len(queue) : (Tells(k, id))' <=> Tells(k, id)
  BY <1>0 DEF Tells
<1>10. PlacesFollow'
  <2> SUFFICES ASSUME NEW id \in 1..Len(bound), bound[id].at # NoPlace
               PROVE  \/ (LastEventSays(id, bound[id].at))'
                      \/ /\ \A k \in 1..Len(queue') : ~(Tells(k, id))'
                         /\ (ListSays(id, bound[id].at))' \/ (ReplySays(id, bound[id].at))'
    BY DEF PlacesFollow
  <2>1. CASE LastEventSays(id, bound[id].at)
    <3>1. PICK k \in 1..Len(queue) :
            /\ Tells(k, id) /\ queue[k].at = bound[id].at
            /\ \A j \in 1..Len(queue) : j > k => ~Tells(j, id)
      BY <2>1 DEF LastEventSays
    <3>2. k \in 1..Len(queue') /\ (Tells(k, id))' /\ queue'[k].at = bound[id].at
      BY <1>0, <1>9, <3>1
    <3>3. \A j \in 1..Len(queue') : j > k => ~(Tells(j, id))'
      BY <1>8, <3>1
    <3> QED BY <3>2, <3>3 DEF LastEventSays
  <2>2. CASE /\ \A k \in 1..Len(queue) : ~Tells(k, id)
             /\ ListSays(id, bound[id].at) \/ ReplySays(id, bound[id].at)
    <3>1. \A k \in 1..Len(queue') : ~(Tells(k, id))'  BY <1>8, <2>2
    <3>2. (ListSays(id, bound[id].at))' <=> ListSays(id, bound[id].at)  BY DEF ListSays
    <3>3. (ReplySays(id, bound[id].at))' <=> ReplySays(id, bound[id].at)  BY <1>1 DEF ReplySays
    <3> QED BY <2>2, <3>1, <3>2, <3>3
  <2> QED BY <2>1, <2>2 DEF StoreFollows, PlacesFollow
<1> QED BY <1>3, <1>4, <1>5, <1>7, <1>10 DEF StoreFollows

\* The rows follow if neither side's change.
LEMMA SameRows ==
    ASSUME RowsFollow, UNCHANGED <<held, gone>>, Effective' = Effective, alive' \subseteq alive
    PROVE  RowsFollow'
BY DEF RowsFollow, OthersAgree

\* The call as it is written down.
LEMMA CallIs ==
    ASSUME call \in Calls
    PROVE  call = [step |-> call.step, kind |-> call.kind, index |-> call.index, row |-> call.row,
                   ok |-> call.ok, id |-> call.id, at |-> call.at]
BY DEF Calls

LEMMA AnsweredIs ==
    ASSUME call \in Calls, NEW b, NEW n, NEW p
    PROVE  /\ [call EXCEPT !.step = "answered"]
                = [step |-> "answered", kind |-> call.kind, index |-> call.index,
                   row |-> call.row, ok |-> call.ok, id |-> call.id, at |-> call.at]
           /\ [call EXCEPT !.step = "answered", !.ok = b]
                = [step |-> "answered", kind |-> call.kind, index |-> call.index,
                   row |-> call.row, ok |-> b, id |-> call.id, at |-> call.at]
           /\ [call EXCEPT !.step = "answered", !.ok = b, !.id = n, !.at = p]
                = [step |-> "answered", kind |-> call.kind, index |-> call.index,
                   row |-> call.row, ok |-> b, id |-> n, at |-> p]
<1>1. PICK c1 : c1 = [call EXCEPT !.step = "answered"]  OBVIOUS
<1>2. c1 = [step |-> "answered", kind |-> call.kind, index |-> call.index, row |-> call.row,
            ok |-> call.ok, id |-> call.id, at |-> call.at]
  BY <1>1 DEF Calls
<1>3. PICK c2 : c2 = [c1 EXCEPT !.ok = b]  OBVIOUS
<1>4. c2 = [step |-> "answered", kind |-> call.kind, index |-> call.index, row |-> call.row,
            ok |-> b, id |-> call.id, at |-> call.at]
  BY <1>2, <1>3
<1>5. PICK c3 : c3 = [c2 EXCEPT !.id = n]  OBVIOUS
<1>6. c3 = [step |-> "answered", kind |-> call.kind, index |-> call.index, row |-> call.row,
            ok |-> b, id |-> n, at |-> call.at]
  BY <1>4, <1>5
<1>7. [c3 EXCEPT !.at = p]
        = [step |-> "answered", kind |-> call.kind, index |-> call.index, row |-> call.row,
           ok |-> b, id |-> n, at |-> p]
  BY <1>6
<1>8. [call EXCEPT !.step = "answered", !.ok = b] = c2  BY <1>1, <1>3
<1>9. [call EXCEPT !.step = "answered", !.ok = b, !.id = n, !.at = p] = [c3 EXCEPT !.at = p]
  BY <1>1, <1>3, <1>5
<1> QED BY <1>1, <1>2, <1>4, <1>7, <1>8, <1>9

-----------------------------------------------------------------------------
(* The calls about rows, and refusals *)

\* A row is asked for, and nothing else changes.
LEMMA AskRowKeeps ==
    ASSUME AgentInv, AskRow
    PROVE  AgentInv'
<1>1. PICK k \in {"set", "remove"}, r \in DomRows \cup Others : call' = RowCall(k, r)
  BY DEF AskRow
<1>2. call' = [step |-> "sent", kind |-> k, index |-> 0, row |-> r, ok |-> FALSE, id |-> 0,
               at |-> NoPlace]
  BY <1>1 DEF RowCall, NoCall, NoId
<1>3. /\ UNCHANGED <<all, bound, queue, rows, gone, held, alive>> /\ call.step = "none"
      /\ counts' = [counts EXCEPT !.calls = @ + 1]
  BY DEF AskRow, Idle, agentVars
<1>4. call.kind = "none"  BY <1>3 DEF AgentInv, Asking
<1>5. Typed'
  <2>1. call' \in Calls  BY <1>2 DEF Calls, Spots
  <2>2. counts' \in Counts  BY <1>3 DEF AgentInv, Typed, Counts
  <2> QED BY <1>3, <2>1, <2>2 DEF AgentInv, Typed
<1>6. Asking'  BY <1>2 DEF Asking
<1>7. Departed'  BY <1>3 DEF AgentInv, Departed
<1>8. RowsFollow'
  <2>1. Effective' = Effective  BY <1>2, <1>3 DEF Effective
  <2> QED BY <1>3, <2>1, SameRows DEF AgentInv
<1>9. StoreFollows'
  <2>1. Answering' <=> Answering  BY <1>2, <1>4 DEF Answering
  <2>2. call'.kind = k /\ call.kind # "line" /\ call'.kind # "line"  BY <1>2, <1>4
  <2> QED BY <1>3, <2>1, <2>2, SameStore DEF AgentInv
<1> QED BY <1>5, <1>6, <1>7, <1>8, <1>9 DEF AgentInv

\* The rows take what the debuggee did.
LEMMA FinishRowKeeps ==
    ASSUME AgentInv, FinishRow
    PROVE  AgentInv'
<1>1. /\ UNCHANGED <<all, bound, queue, gone, held, alive, counts>>
      /\ call.step = "answered" /\ call.kind \in {"set", "remove"}
      /\ call' = NoCall
      /\ rows' = IF ~call.ok THEN rows
                 ELSE IF call.kind = "set" THEN rows \cup {call.row} ELSE rows \ {call.row}
  BY DEF FinishRow, debuggeeVars
<1>2. call' = [step |-> "none", kind |-> "none", index |-> 0, row |-> NoRow, ok |-> FALSE,
               id |-> 0, at |-> NoPlace]
  BY <1>1 DEF NoCall, NoId
<1>3. Typed'
  <2>1. call' \in Calls  BY <1>2 DEF Calls, Spots
  <2> QED BY <1>1, <2>1 DEF AgentInv, Typed
<1>4. Asking'  BY <1>2 DEF Asking
<1>5. Departed'  BY <1>1 DEF AgentInv, Departed
<1>6. Effective' = Effective  BY <1>1, <1>2 DEF Effective
<1>7. RowsFollow'  BY <1>1, <1>6, SameRows DEF AgentInv
<1>8. StoreFollows'
  <2>1. Answering' <=> Answering  BY <1>1, <1>2 DEF Answering
  <2>2. call.kind # "line" /\ call'.kind # "line"  BY <1>1, <1>2
  <2> QED BY <1>1, <2>1, <2>2, SameStore DEF AgentInv
<1> QED BY <1>3, <1>4, <1>5, <1>7, <1>8 DEF AgentInv

\* The debuggee's rows change and the reply says so.
LEMMA AnswersRowKeeps ==
    ASSUME AgentInv, AnswersRow
    PROVE  AgentInv'
<1>1. /\ UNCHANGED <<all, bound, queue, rows, gone, alive, counts>>
      /\ call.step = "sent" /\ call.kind \in {"set", "remove"}
      /\ call' = [call EXCEPT !.step = "answered", !.ok = TRUE]
      /\ \/ /\ call.kind = "set" /\ (call.row \in DomRows => call.row.node \in alive)
            /\ held' = held \cup {Asked(call.row)}
         \/ /\ call.kind = "remove" /\ Asked(call.row) \in held
            /\ held' = held \ {Asked(call.row)}
  BY DEF AnswersRow, agentVars
<1>2. call' = [step |-> "answered", kind |-> call.kind, index |-> call.index,
               row |-> call.row, ok |-> TRUE, id |-> call.id, at |-> call.at]
  <2>1. call \in Calls  BY DEF AgentInv, Typed
  <2>2. [call EXCEPT !.step = "answered", !.ok = TRUE]
          = [step |-> "answered", kind |-> call.kind, index |-> call.index,
             row |-> call.row, ok |-> TRUE, id |-> call.id, at |-> call.at]
    BY <2>1, AnsweredIs, Zenon
  <2> QED BY <1>1, <2>2, Zenon
<1>3. /\ call'.step = "answered" /\ call'.kind = call.kind /\ call'.index = call.index
      /\ call'.row = call.row /\ call'.ok /\ call'.id = call.id /\ call'.at = call.at
  BY <1>2
<1>4. Typed'
  <2>1. call' \in Calls
    <3>1. call \in Calls  BY DEF AgentInv, Typed
    <3> QED BY <1>2, <3>1 DEF Calls
  <2> QED BY <1>1, <2>1 DEF AgentInv, Typed
<1>5. Asking'  BY <1>1, <1>3 DEF AgentInv, Asking
<1>6. Departed'  BY <1>1 DEF AgentInv, Departed
<1>7. RowsFollow'
  <2>1. Effective = rows  BY <1>1 DEF Effective
  <2>2. Effective' = IF call.kind = "set" THEN rows \cup {call.row} ELSE rows \ {call.row}
    BY <1>1, <1>3 DEF Effective
  <2>3. RowsFollow /\ Departed  BY DEF AgentInv
  <2>0. PICK row, asked : /\ row = call.row /\ asked = Asked(call.row)
                          /\ row \in DomRows => asked = row
                          /\ row \in Others => asked = Meant[row] /\ asked \in Others
                          /\ row \in DomRows \cup Others
    BY <1>1, BreakpointConstants DEF AgentInv, Asking, Asked
  <2>6. \A r \in Others : r \notin DomRows /\ Meant[r] \in Others  BY BreakpointConstants
  <2>4. CASE call.kind = "set"
    <3>1. held' = held \cup {asked} /\ (row \in DomRows => row.node \in alive)
          /\ Effective' = rows \cup {row}
      BY <1>1, <2>0, <2>2, <2>4
    <3>2. OthersAgree(Effective)'
      BY <2>0, <2>1, <2>3, <2>6, <3>1 DEF RowsFollow, OthersAgree
    <3> QED BY <1>1, <2>0, <2>1, <2>3, <2>6, <3>1, <3>2 DEF RowsFollow, Departed
  <2>5. CASE call.kind = "remove"
    <3>1. held' = held \ {asked} /\ Effective' = rows \ {row}  BY <1>1, <2>0, <2>2, <2>5
    <3>2. OthersAgree(rows)  BY <2>1, <2>3 DEF RowsFollow
    <3>3. \A h \in held' \cap Others : \E r \in Effective' \cap Others : Meant[r] = h
      BY <2>0, <2>6, <3>1, <3>2 DEF OthersAgree
    <3>4. \A r \in Effective' \cap Others :
            (\A o \in Others : Meant[o] = Meant[r] => o = r) => Meant[r] \in held'
      BY <2>0, <2>6, <3>1, <3>2 DEF OthersAgree
    <3>5. OthersAgree(Effective)'  BY <3>3, <3>4 DEF OthersAgree
    <3> QED BY <1>1, <2>0, <2>1, <2>3, <2>6, <3>1, <3>5 DEF RowsFollow
  <2> QED BY <1>1, <2>4, <2>5
<1>8. StoreFollows'
  <2>1. Answering' <=> Answering  BY <1>1, <1>3 DEF Answering
  <2> QED BY <1>1, <1>3, <2>1, SameStore DEF AgentInv
<1> QED BY <1>4, <1>5, <1>6, <1>7, <1>8 DEF AgentInv

LEMMA RefusesKeeps ==
    ASSUME AgentInv, Refuses
    PROVE  AgentInv'
<1>1. /\ UNCHANGED <<all, bound, queue, rows, gone, held, alive, counts>>
      /\ call.step = "sent" /\ call' = [call EXCEPT !.step = "answered"]
  BY DEF Refuses, agentVars, debuggeeVars
<1>2. call \in Calls /\ ~call.ok /\ call.kind # "none"
  BY <1>1 DEF AgentInv, Typed, Asking
<1>3. call' = [step |-> "answered", kind |-> call.kind, index |-> call.index,
               row |-> call.row, ok |-> call.ok, id |-> call.id, at |-> call.at]
  BY <1>1, <1>2, AnsweredIs
<1>4. /\ call'.step = "answered" /\ call'.kind = call.kind /\ call'.index = call.index
      /\ call'.row = call.row /\ (call'.ok <=> call.ok) /\ call'.id = call.id
      /\ call'.at = call.at
  BY <1>3
<1>5. Typed'
  <2>1. call' \in Calls  BY <1>2, <1>3 DEF Calls
  <2> QED BY <1>1, <2>1 DEF AgentInv, Typed
<1>6. Asking'  BY <1>2, <1>4 DEF AgentInv, Asking
<1>7. Departed'  BY <1>1 DEF AgentInv, Departed
<1>8. RowsFollow'
  <2>1. Effective' = Effective  BY <1>1, <1>2, <1>4 DEF Effective
  <2> QED BY <1>1, <2>1, SameRows DEF AgentInv
<1>9. StoreFollows'
  <2>1. Answering' <=> Answering  BY <1>1, <1>2, <1>4 DEF Answering
  <2> QED BY <1>1, <1>4, <2>1, SameStore DEF AgentInv
<1> QED BY <1>5, <1>6, <1>7, <1>8, <1>9 DEF AgentInv

-----------------------------------------------------------------------------
(* The debuggee stops, goes on, and loses nodes *)

LEMMA StopKeeps ==
    ASSUME AgentInv, StopsAtLine \/ StopsOtherwise \/ Resumes
    PROVE  AgentInv'
<1>1. UNCHANGED <<all, bound, rows, gone, held, alive, call>>
  BY DEF StopsAtLine, StopsOtherwise, Resumes, agentVars
<1>2. Len(bound) \in Nat /\ DOMAIN bound = 1..Len(bound) /\ counts \in Counts
  BY LenProperties DEF AgentInv, Typed
<1>3. PICK e \in Events : e.kind # "resolved" /\ e.node = NoRow /\ queue' = Append(queue, e)
  <2>1. CASE StopsAtLine
    <3>1. PICK id \in 1..Len(bound) : queue' = Append(queue, Pause(counts.pauses + 1, id, NoRow))
      BY <1>2, <2>1 DEF StopsAtLine, StopsFor, Ids
    <3>2. counts.pauses + 1 \in Nat /\ id \in Nat  BY <1>2 DEF Counts
    <3>3. Pause(counts.pauses + 1, id, NoRow) \in Events  BY <3>2 DEF Pause, Events, Spots
    <3>4. /\ Pause(counts.pauses + 1, id, NoRow).kind # "resolved"
          /\ Pause(counts.pauses + 1, id, NoRow).node = NoRow
      BY DEF Pause
    <3> QED BY <3>1, <3>3, <3>4
  <2>2. CASE StopsOtherwise
    <3>1. queue' = Append(queue, Pause(counts.pauses + 1, NoId, NoRow))
      BY <2>2 DEF StopsOtherwise, StopsFor
    <3>2. counts.pauses + 1 \in Nat /\ NoId \in Nat  BY <1>2 DEF Counts, NoId
    <3>3. Pause(counts.pauses + 1, NoId, NoRow) \in Events  BY <3>2 DEF Pause, Events, Spots
    <3>4. /\ Pause(counts.pauses + 1, NoId, NoRow).kind # "resolved"
          /\ Pause(counts.pauses + 1, NoId, NoRow).node = NoRow
      BY DEF Pause
    <3> QED BY <3>1, <3>3, <3>4
  <2>3. CASE Resumes
    <3>1. queue' = Append(queue, Continued)  BY <2>3 DEF Resumes
    <3> QED BY <3>1 DEF Continued, Events, Spots, NoId
  <2> QED BY <2>1, <2>2, <2>3
<1>4. counts' \in Counts
  <2>1. counts' = counts \/ counts' = [counts EXCEPT !.pauses = @ + 1]
    BY DEF StopsAtLine, StopsOtherwise, Resumes, StopsFor
  <2> QED BY <1>2, <2>1 DEF Counts
<1>5. /\ queue' \in Seq(Events) /\ Len(queue) \in Nat /\ Len(queue') = Len(queue) + 1
      /\ \A i \in 1..Len(queue) : queue'[i] = queue[i]
      /\ queue'[Len(queue) + 1] = e
  BY <1>3, Appended DEF AgentInv
<1>6. Typed' /\ Asking'  BY <1>1, <1>4, <1>5 DEF AgentInv, Typed, Asking
<1>7. Departed'
  <2>1. \A k \in 1..Len(queue') : k \in 1..Len(queue) \/ queue'[k] = e  BY <1>5
  <2> QED BY <1>1, <1>3, <1>5, <2>1 DEF AgentInv, Departed
<1>8. RowsFollow'
  <2>1. Effective' = Effective  BY <1>1 DEF Effective
  <2> QED BY <1>1, <2>1, SameRows DEF AgentInv
<1>9. StoreFollows'  BY <1>1, <1>3, StoppedStore DEF AgentInv
<1> QED BY <1>6, <1>7, <1>8, <1>9 DEF AgentInv

\* A node goes with what is on it, on both sides or in time.
LEMMA RemovesNodeKeeps ==
    ASSUME AgentInv, RemovesNode
    PROVE  AgentInv'
<1>1. PICK n \in alive :
        /\ alive' = alive \ {n}
        /\ held' = CleanupDomNode(held, n)
        /\ IF [node |-> n, kind |-> NodeRemoved] \in held
           THEN StopsFor(Pause(counts.pauses + 1, NoId, n))
           ELSE UNCHANGED <<stopped, counts, queue>>
        /\ UNCHANGED <<bound, hits, parsed, call, agentVars>>
  BY DEF RemovesNode
<1>0. n \in Nodes  BY DEF AgentInv, Departed
<1>2. UNCHANGED <<all, bound, rows, gone, call>>  BY <1>1 DEF agentVars
<1>3. Effective' = Effective  BY <1>2 DEF Effective
<1>4. RowsFollow'
  <2>1. \A r \in DomRows : r.node # n => (r \in held' <=> r \in held)
    BY <1>1 DEF CleanupDomNode
  <2>2. \A r \in Others : r \in held' <=> r \in held
    <3>1. [node : {n}, kind : DomKinds] \subseteq DomRows
      BY <1>0 DEF DomRows
    <3>2. \A r \in Others : r \notin [node : {n}, kind : DomKinds]
      BY <3>1, BreakpointConstants
    <3> QED BY <1>1, <3>2 DEF CleanupDomNode
  <2>3. OthersAgree(Effective)'
    BY <1>3, <2>2, BreakpointConstants DEF AgentInv, RowsFollow, OthersAgree
  <2> QED BY <1>1, <1>2, <1>3, <2>1, <2>3 DEF AgentInv, RowsFollow
<1>5. Asking'  BY <1>2 DEF AgentInv, Asking
<1>6. CASE UNCHANGED <<counts, queue>>
  <2>1. Typed'  BY <1>2, <1>6 DEF AgentInv, Typed
  <2>2. Departed'  BY <1>1, <1>2, <1>6 DEF AgentInv, Departed
  <2>3. StoreFollows'
    <3>1. Answering' <=> Answering  BY <1>2 DEF Answering
    <3> QED BY <1>2, <1>6, <3>1, SameStore DEF AgentInv
  <2> QED BY <1>4, <1>5, <2>1, <2>2, <2>3 DEF AgentInv
<1>7. CASE StopsFor(Pause(counts.pauses + 1, NoId, n)) /\ n \in Nodes
  <2>1. counts \in Counts  BY DEF AgentInv, Typed
  <2>2. PICK e \in Events : e.kind # "resolved" /\ e.node = n /\ queue' = Append(queue, e)
    BY <1>7, <2>1 DEF StopsFor, Pause, Events, Spots, Counts, NoId
  <2>3. /\ queue' \in Seq(Events) /\ Len(queue) \in Nat /\ Len(queue') = Len(queue) + 1
        /\ \A i \in 1..Len(queue) : queue'[i] = queue[i]
        /\ queue'[Len(queue) + 1] = e
    BY <2>2, Appended DEF AgentInv
  <2>4. counts' \in Counts  BY <1>7, <2>1 DEF StopsFor, Counts
  <2>5. Typed'  BY <1>2, <2>3, <2>4 DEF AgentInv, Typed
  <2>6. Departed'
    <3>1. \A k \in 1..Len(queue') : k \in 1..Len(queue) \/ queue'[k] = e  BY <2>3
    <3> QED BY <1>1, <1>2, <2>2, <2>3, <3>1 DEF AgentInv, Departed
  <2>7. StoreFollows'  BY <1>2, <2>2, StoppedStore DEF AgentInv
  <2> QED BY <1>4, <1>5, <2>5, <2>6, <2>7 DEF AgentInv
<1> QED BY <1>0, <1>1, <1>6, <1>7

-----------------------------------------------------------------------------
(* The calls about line breakpoints *)

LEMMA SetKeeps ==
    ASSUME AgentInv, SetBreakpointByUrl
    PROVE  AgentInv'
<1>1. PICK s \in Sources, enabled \in BOOLEAN :
        /\ all' = Append(all, New(s, enabled))
        /\ call' = IF enabled THEN LineCall(Len(all) + 1) ELSE NoCall
  BY DEF SetBreakpointByUrl, Insert
<1>2. /\ UNCHANGED <<bound, queue, rows, gone, held, alive, counts>> /\ call.step = "none"
  BY DEF SetBreakpointByUrl, Idle, debuggeeVars
<1>3. call.kind = "none"  BY <1>2 DEF AgentInv, Asking
<1>4. PICK b : b = New(s, enabled)  OBVIOUS
<1>5. b \in Bps /\ b.id = 0 /\ (b.state = "disabled" \/ enabled)
  BY <1>4 DEF New, Bps, Spots, States, NoId
<1>6. /\ all' \in Seq(Bps) /\ Len(all) \in Nat /\ Len(all') = Len(all) + 1
      /\ \A i \in 1..Len(all) : all'[i] = all[i]
      /\ all'[Len(all) + 1] = b
  BY <1>1, <1>4, <1>5, AppendProperties, LenProperties DEF AgentInv, Typed
<1>7. \A i \in 1..Len(all') : i \in 1..Len(all) \/ i = Len(all) + 1
  BY <1>6
<1>8. /\ call' \in Calls
      /\ (enabled /\ call'.step = "sent" /\ call'.kind = "line" /\ call'.index = Len(all) + 1)
         \/ (~enabled /\ call'.step = "none" /\ call'.kind = "none")
      /\ ~call'.ok
  <2>1. CASE enabled
    <3>1. call' = [step |-> "sent", kind |-> "line", index |-> Len(all) + 1, row |-> NoRow,
                   ok |-> FALSE, id |-> 0, at |-> NoPlace]
      BY <1>1, <2>1 DEF LineCall, NoCall, NoId
    <3> QED BY <1>6, <2>1, <3>1 DEF Calls, Spots
  <2>2. CASE ~enabled
    <3>1. call' = [step |-> "none", kind |-> "none", index |-> 0, row |-> NoRow, ok |-> FALSE,
                   id |-> 0, at |-> NoPlace]
      BY <1>1, <2>2 DEF NoCall, NoId
    <3> QED BY <2>2, <3>1 DEF Calls, Spots
  <2> QED BY <2>1, <2>2
<1>9. Typed' /\ Asking'  BY <1>2, <1>6, <1>8 DEF AgentInv, Typed, Asking
<1>10. Departed'  BY <1>2 DEF AgentInv, Departed
<1>11. RowsFollow'
  <2>1. Effective' = Effective  BY <1>2, <1>8 DEF Effective
  <2> QED BY <1>2, <2>1, SameRows DEF AgentInv
<1>12. ~Answering /\ ~Answering'  BY <1>3, <1>8 DEF Answering
<1>13. Len(bound) \in Nat  BY LenProperties DEF AgentInv, Typed
<1>14. \A id : id # 0 => ((Named(id))' <=> Named(id))
  BY <1>5, <1>6, <1>7 DEF Named
<1>15. IdsFollow'
  <2>1. IdsFollow  BY DEF AgentInv, StoreFollows
  <2>2. \A i \in 1..Len(all') : all'[i].id \in 0..Len(bound)
    BY <1>5, <1>6, <1>7, <1>13, <2>1 DEF IdsFollow
  <2>3. \A i \in 1..Len(all') : all'[i].id # 0 => i \in 1..Len(all) /\ all'[i] = all[i]
    BY <1>5, <1>6, <1>7
  <2>4. \A id \in 1..Len(bound) : (Named(id))'
    BY <1>12, <1>13, <1>14, <2>1 DEF IdsFollow
  <2> QED BY <1>2, <2>1, <2>2, <2>3, <2>4 DEF IdsFollow, NoId
<1>16. AskingForOne'  BY <1>5, <1>6, <1>8, <1>12 DEF AskingForOne, NoId
<1>17. NoneForgotten'
  <2>1. \A i \in 1..Len(all) : all[i].id = 0 => all[i].state \in {"disabled", "failed"}
    BY <1>3 DEF AgentInv, StoreFollows, NoneForgotten, NoId
  <2> QED BY <1>5, <1>6, <1>7, <1>8, <2>1 DEF NoneForgotten, NoId
<1>18. KnownIds'  BY <1>2 DEF AgentInv, StoreFollows, KnownIds
<1>19. PlacesFollow'
  <2> SUFFICES ASSUME NEW id \in 1..Len(bound), bound[id].at # NoPlace
               PROVE  \/ (LastEventSays(id, bound[id].at))'
                      \/ /\ \A k \in 1..Len(queue') : ~(Tells(k, id))'
                         /\ (ListSays(id, bound[id].at))' \/ (ReplySays(id, bound[id].at))'
    BY <1>2 DEF PlacesFollow
  <2>1. (LastEventSays(id, bound[id].at))' <=> LastEventSays(id, bound[id].at)
    BY <1>2 DEF LastEventSays, Tells
  <2>2. \A k : (Tells(k, id))' <=> Tells(k, id)  BY <1>2 DEF Tells
  <2>3. ListSays(id, bound[id].at) => (ListSays(id, bound[id].at))'
    BY <1>2, <1>6 DEF ListSays
  <2>4. ~ReplySays(id, bound[id].at)  BY <1>12 DEF ReplySays
  <2> QED BY <1>2, <2>1, <2>2, <2>3, <2>4 DEF AgentInv, StoreFollows, PlacesFollow
<1>20. StoreFollows'  BY <1>15, <1>16, <1>17, <1>18, <1>19 DEF StoreFollows
<1> QED BY <1>9, <1>10, <1>11, <1>20 DEF AgentInv

\* The debuggee gives the next id, and the place where it could bind.
LEMMA AnswersLineKeeps ==
    ASSUME AgentInv, AnswersLine
    PROVE  AgentInv'
<1>1. PICK s, at :
        /\ s = all[call.index].source /\ at \in IF s \in parsed THEN Places ELSE {NoPlace}
        /\ bound' = Append(bound, [source |-> s, at |-> at])
        /\ call' = [call EXCEPT !.step = "answered", !.ok = TRUE, !.id = Len(bound) + 1,
                                !.at = at]
  BY DEF AnswersLine
<1>2. /\ UNCHANGED <<all, queue, rows, gone, held, alive, counts>>
      /\ call.step = "sent" /\ call.kind = "line"
  BY DEF AnswersLine, agentVars
<1>3. /\ call \in Calls /\ call.index \in 1..Len(all) /\ all[call.index].id = 0
      /\ all[call.index] \in Bps /\ Len(bound) \in Nat
  BY <1>2, LenProperties, ElementOfSeq DEF AgentInv, Typed, StoreFollows, AskingForOne, NoId
<1>4. at \in Spots /\ [source |-> s, at |-> at] \in Bindings
  BY <1>1, <1>3 DEF Spots, Bindings, Bps
<1>5. /\ bound' \in Seq(Bindings) /\ Len(bound') = Len(bound) + 1
      /\ \A i \in 1..Len(bound) : bound'[i] = bound[i]
      /\ bound'[Len(bound) + 1] = [source |-> s, at |-> at]
  BY <1>1, <1>4, AppendProperties DEF AgentInv, Typed
<1>6. call' = [step |-> "answered", kind |-> call.kind, index |-> call.index,
               row |-> call.row, ok |-> TRUE, id |-> Len(bound) + 1, at |-> at]
  <2>1. [call EXCEPT !.step = "answered", !.ok = TRUE, !.id = Len(bound) + 1, !.at = at]
          = [step |-> "answered", kind |-> call.kind, index |-> call.index,
             row |-> call.row, ok |-> TRUE, id |-> Len(bound) + 1, at |-> at]
    BY ZenonT(30), <1>3, AnsweredIs
  <2> QED BY <1>1, <2>1, Zenon
<1>7. /\ call'.step = "answered" /\ call'.kind = "line" /\ call'.index = call.index
      /\ call'.ok /\ call'.id = Len(bound) + 1 /\ call'.at = at
  BY <1>2, <1>6
<1>8. Typed'
  <2>1. call' \in Calls  BY <1>3, <1>4, <1>6 DEF Calls
  <2> QED BY <1>2, <1>5, <2>1 DEF AgentInv, Typed
<1>9. Asking'  BY <1>7 DEF Asking
<1>10. Departed'  BY <1>2 DEF AgentInv, Departed
<1>11. RowsFollow'
  <2>1. Effective' = Effective  BY <1>2, <1>7 DEF Effective
  <2> QED BY <1>2, <2>1, SameRows DEF AgentInv
<1>12. ~Answering /\ Answering'  BY <1>2, <1>7 DEF Answering
<1>13. \A id : (Named(id))' <=> Named(id)  BY <1>2 DEF Named
<1>14. ~Named(Len(bound) + 1)
  BY <1>3 DEF Named, AgentInv, StoreFollows, IdsFollow
<1>15. \A id \in 1..Len(bound') : id \in 1..Len(bound) \/ id = Len(bound) + 1
  BY <1>3, <1>5
<1>16. IdsFollow'
  <2>1. IdsFollow  BY DEF AgentInv, StoreFollows
  <2>2. \A i \in 1..Len(all) : all[i].id \in 0..Len(bound') BY <1>3, <1>5, <2>1 DEF IdsFollow
  <2>3. \A i \in 1..Len(all) : all[i].id # 0 => bound'[all[i].id].source = all[i].source
    <3>1. \A i \in 1..Len(all) : all[i].id # 0 => all[i].id \in 1..Len(bound)
      BY <1>3, <2>1 DEF IdsFollow
    <3> QED BY <1>5, <2>1, <3>1 DEF IdsFollow, NoId
  <2>4. \A id \in 1..Len(bound') : (Named(id))' \/ (Answering' /\ call'.id = id)
    BY <1>7, <1>12, <1>13, <1>15, <2>1 DEF IdsFollow
  <2> QED BY <1>2, <2>1, <2>2, <2>3, <2>4 DEF IdsFollow, NoId
<1>17. AskingForOne'
  <2>1. call'.id \in 1..Len(bound') /\ bound'[call'.id].source = all[call.index].source
    BY <1>1, <1>3, <1>5, <1>7
  <2> QED BY <1>2, <1>3, <1>7, <1>13, <1>14, <2>1 DEF AskingForOne, NoId
<1>18. NoneForgotten'  BY <1>2, <1>7 DEF AgentInv, StoreFollows, NoneForgotten
<1>19. KnownIds'  BY <1>2, <1>3, <1>5 DEF AgentInv, StoreFollows, KnownIds
<1>20. PlacesFollow'
  <2> SUFFICES ASSUME NEW id \in 1..Len(bound'), bound'[id].at # NoPlace
               PROVE  \/ (LastEventSays(id, bound[id].at))'
                      \/ /\ \A k \in 1..Len(queue') : ~(Tells(k, id))'
                         /\ (ListSays(id, bound[id].at))' \/ (ReplySays(id, bound[id].at))'
    BY DEF PlacesFollow
  <2>1. CASE id \in 1..Len(bound)
    <3>0. bound'[id] = bound[id]  BY <1>5, <2>1
    <3>1. (LastEventSays(id, bound[id].at))' <=> LastEventSays(id, bound[id].at)
      BY <1>2, <3>0 DEF LastEventSays, Tells
    <3>2. \A k : (Tells(k, id))' <=> Tells(k, id)  BY <1>2 DEF Tells
    <3>3. (ListSays(id, bound[id].at))' <=> ListSays(id, bound[id].at)
      BY <1>2, <3>0 DEF ListSays
    <3>4. ~ReplySays(id, bound[id].at)  BY <1>12 DEF ReplySays
    <3>5. bound[id].at # NoPlace =>
            \/ LastEventSays(id, bound[id].at)
            \/ (\A k \in 1..Len(queue) : ~Tells(k, id)) /\ ListSays(id, bound[id].at)
      BY <2>1, <3>4 DEF AgentInv, StoreFollows, PlacesFollow
    <3> QED BY <1>2, <3>0, <3>1, <3>2, <3>3, <3>5
  <2>2. CASE id = Len(bound) + 1
    <3>1. \A k \in 1..Len(queue) : ~Tells(k, id)
      BY <1>3, <2>2 DEF AgentInv, StoreFollows, KnownIds, Tells
    <3>2. \A k : (Tells(k, id))' <=> Tells(k, id)  BY <1>2 DEF Tells
    <3>3. (ReplySays(id, bound[id].at))'
      BY <1>5, <1>7, <1>12, <2>2 DEF ReplySays
    <3> QED BY <1>2, <3>1, <3>2, <3>3
  <2> QED BY <1>15, <2>1, <2>2
<1>21. StoreFollows'  BY <1>16, <1>17, <1>18, <1>19, <1>20 DEF StoreFollows
<1> QED BY <1>8, <1>9, <1>10, <1>11, <1>21 DEF AgentInv

\* The reply is taken: the id, then the place.
LEMMA FinishedLine ==
    ASSUME AgentInv, FinishLine
    PROVE  /\ call.index \in 1..Len(all) /\ all[call.index].id = 0
           /\ all' \in Seq(Bps) /\ Len(all') = Len(all)
           /\ \A i \in 1..Len(all) : i # call.index => all'[i] = all[i]
           /\ all'[call.index].source = all[call.index].source
           /\ ~call.ok => all'[call.index].id = 0 /\ all'[call.index].state = "failed"
           /\ call.ok => all'[call.index].id = call.id
           /\ call.ok /\ call.at # NoPlace => all'[call.index].state = "resolved" /\ all'[call.index].at = call.at
           /\ all'[call.index].hits = all[call.index].hits
<1> DEFINE n == call.index
<1>1. /\ UNCHANGED <<bound, queue, rows, gone, held, alive, counts>>
      /\ call.step = "answered" /\ call.kind = "line" /\ call' = NoCall
      /\ all' = IF ~call.ok THEN [all EXCEPT ![n].state = "failed"]
                ELSE IF call.at = NoPlace THEN [all EXCEPT ![n].id = call.id]
                ELSE Resolve([all EXCEPT ![n].id = call.id], call.id, call.at)
  BY DEF FinishLine, Store, debuggeeVars
<1>2. call' = [step |-> "none", kind |-> "none", index |-> 0, row |-> NoRow, ok |-> FALSE,
               id |-> 0, at |-> NoPlace]
  BY <1>1 DEF NoCall, NoId
<1>3. /\ call \in Calls /\ n \in 1..Len(all) /\ all[n].id = 0 /\ all[n] \in Bps
      /\ all \in Seq(Bps) /\ Len(all) \in Nat /\ Len(bound) \in Nat /\ n \in DOMAIN all
  BY <1>1, LenProperties, ElementOfSeq DEF AgentInv, Typed, StoreFollows, AskingForOne, NoId
<1>4. Answering <=> call.ok  BY <1>1 DEF Answering
<1>5. call.ok => call.id \in 1..Len(bound) /\ bound[call.id].source = all[n].source
                 /\ \A i \in 1..Len(all) : all[i].id # call.id
  BY <1>4 DEF AgentInv, StoreFollows, AskingForOne, Named
<1> HIDE DEF n
<1>6. /\ all' \in Seq(Bps) /\ Len(all') = Len(all)
      /\ \A i \in 1..Len(all) : i # n => all'[i] = all[i]
      /\ all'[n].source = all[n].source
      /\ ~call.ok => all'[n].id = 0 /\ all'[n].state = "failed"
      /\ call.ok => all'[n].id = call.id
      /\ call.ok /\ call.at # NoPlace => all'[n].state = "resolved" /\ all'[n].at = call.at
      /\ all'[n].hits = all[n].hits
  <2>1. CASE ~call.ok
    <3>1. PICK b : b = [id |-> all[n].id, source |-> all[n].source, at |-> all[n].at,
                        hits |-> all[n].hits, state |-> "failed"]
      OBVIOUS
    <3>2. b \in Bps  BY <1>3, <3>1 DEF Bps, States
    <3>3. all' = [all EXCEPT ![n] = b]
      <4>0. PICK r \in Bps : r = all[n]  BY <1>3
      <4>1. [r EXCEPT !.state = "failed"] = b  BY <3>1, <4>0 DEF Bps
      <4>2. all' = [all EXCEPT ![n].state = "failed"]  BY <1>1, <2>1
      <4> QED BY <1>3, <4>0, <4>1, <4>2
    <3>4. /\ [all EXCEPT ![n] = b] \in Seq(Bps) /\ Len([all EXCEPT ![n] = b]) = Len(all)
          /\ \A j \in 1..Len(all) : [all EXCEPT ![n] = b][j] = IF j = n THEN b ELSE all[j]
      BY <1>3, <3>2, ExceptSeq
    <3> QED BY <1>3, <2>1, <3>1, <3>3, <3>4
  <2>2. CASE call.ok
    <3>1. PICK b : b = [id |-> call.id, source |-> all[n].source, at |-> all[n].at,
                        hits |-> all[n].hits, state |-> all[n].state]
      OBVIOUS
    <3>2. b \in Bps  BY <1>3, <1>5, <2>2, <3>1 DEF Bps
    <3>3. PICK named : named = [all EXCEPT ![n].id = call.id]  OBVIOUS
    <3>4. named = [all EXCEPT ![n] = b]
      <4>0. PICK r \in Bps : r = all[n]  BY <1>3
      <4>1. [r EXCEPT !.id = call.id] = b  BY <3>1, <4>0 DEF Bps
      <4> QED BY <1>3, <3>3, <4>0, <4>1
    <3>5. /\ [all EXCEPT ![n] = b] \in Seq(Bps) /\ Len([all EXCEPT ![n] = b]) = Len(all)
          /\ \A j \in 1..Len(all) : [all EXCEPT ![n] = b][j] = IF j = n THEN b ELSE all[j]
      BY <1>3, <3>2, ExceptSeq
    <3>6. /\ named \in Seq(Bps) /\ Len(named) = Len(all) /\ n \in 1..Len(named)
          /\ \A j \in 1..Len(all) : named[j] = IF j = n THEN b ELSE all[j]
      BY <1>3, <3>4, <3>5
    <3>7. CASE call.at = NoPlace
      <4>1. all' = named  BY <1>1, <2>2, <3>3, <3>7
      <4> QED BY <1>3, <2>2, <3>1, <3>6, <3>7, <4>1
    <3>8. CASE call.at # NoPlace
      <4>1. named[n].id = call.id /\ \A j \in 1..Len(named) : named[j].id = call.id => j = n
        BY <1>3, <1>5, <2>2, <3>1, <3>6
      <4>2. FindIndex(named, call.id) = n  BY <3>6, <4>1, FindsIt
      <4>3. call.at \in Spots  BY <1>3 DEF Calls
      <4>4. /\ Resolve(named, call.id, call.at) \in Seq(Bps)
            /\ Len(Resolve(named, call.id, call.at)) = Len(named)
            /\ \A j \in 1..Len(named) : j # n => Resolve(named, call.id, call.at)[j] = named[j]
            /\ Resolve(named, call.id, call.at)[n].id = named[n].id
            /\ Resolve(named, call.id, call.at)[n].source = named[n].source
            /\ Resolve(named, call.id, call.at)[n].hits = named[n].hits
            /\ Resolve(named, call.id, call.at)[n].state = "resolved"
            /\ Resolve(named, call.id, call.at)[n].at = call.at
        BY <3>6, <4>2, <4>3, ResolveIs
      <4>5. all' = Resolve(named, call.id, call.at)  BY <1>1, <2>2, <3>3, <3>8
      <4> QED BY SMTT(30), <1>3, <2>2, <3>1, <3>6, <4>4, <4>5
    <3> QED BY <3>7, <3>8
  <2> QED BY <2>1, <2>2
<1> QED BY <1>3, <1>6 DEF n

LEMMA FinishLineKeeps ==
    ASSUME AgentInv, FinishLine
    PROVE  AgentInv'
<1> DEFINE n == call.index
<1>1. /\ UNCHANGED <<bound, queue, rows, gone, held, alive, counts>>
      /\ call.step = "answered" /\ call.kind = "line" /\ call' = NoCall
      /\ all' = IF ~call.ok THEN [all EXCEPT ![n].state = "failed"]
                ELSE IF call.at = NoPlace THEN [all EXCEPT ![n].id = call.id]
                ELSE Resolve([all EXCEPT ![n].id = call.id], call.id, call.at)
  BY DEF FinishLine, Store, debuggeeVars
<1>2. call' = [step |-> "none", kind |-> "none", index |-> 0, row |-> NoRow, ok |-> FALSE,
               id |-> 0, at |-> NoPlace]
  BY <1>1 DEF NoCall, NoId
<1>3. /\ call \in Calls /\ n \in 1..Len(all) /\ all[n].id = 0 /\ all[n] \in Bps
      /\ all \in Seq(Bps) /\ Len(all) \in Nat /\ Len(bound) \in Nat /\ n \in DOMAIN all
  BY <1>1, LenProperties, ElementOfSeq DEF AgentInv, Typed, StoreFollows, AskingForOne, NoId
<1>4. Answering <=> call.ok  BY <1>1 DEF Answering
<1>5. call.ok => call.id \in 1..Len(bound) /\ bound[call.id].source = all[n].source
                 /\ \A i \in 1..Len(all) : all[i].id # call.id
  BY <1>4 DEF AgentInv, StoreFollows, AskingForOne, Named
<1> HIDE DEF n
<1>6. /\ all' \in Seq(Bps) /\ Len(all') = Len(all)
      /\ \A i \in 1..Len(all) : i # n => all'[i] = all[i]
      /\ all'[n].source = all[n].source
      /\ ~call.ok => all'[n].id = 0 /\ all'[n].state = "failed"
      /\ call.ok => all'[n].id = call.id
      /\ call.ok /\ call.at # NoPlace => all'[n].state = "resolved" /\ all'[n].at = call.at
  BY FinishedLine DEF n
<1>7. Typed'
  <2>1. call' \in Calls  BY <1>2 DEF Calls, Spots
  <2> QED BY <1>1, <1>6, <2>1 DEF AgentInv, Typed
<1>8. Asking'  BY <1>2 DEF Asking
<1>9. Departed'  BY <1>1 DEF AgentInv, Departed
<1>10. RowsFollow'
  <2>1. Effective' = Effective  BY <1>1, <1>2 DEF Effective
  <2> QED BY <1>1, <2>1, SameRows DEF AgentInv
<1>11. ~Answering' /\ call'.kind # "line"  BY <1>2 DEF Answering
<1>12. \A id : id # 0 => ((Named(id))' <=> (Named(id) \/ (Answering /\ call.id = id)))
  BY <1>3, <1>4, <1>6 DEF Named
<1>13. IdsFollow'
  <2>1. IdsFollow  BY DEF AgentInv, StoreFollows
  <2>2. \A i \in 1..Len(all) : all'[i].id \in 0..Len(bound)
    BY <1>3, <1>5, <1>6, <2>1 DEF IdsFollow
  <2>3. \A i, j \in 1..Len(all) : all'[i].id # 0 /\ all'[i].id = all'[j].id => i = j
    BY <1>3, <1>5, <1>6, <2>1 DEF IdsFollow, NoId
  <2>4. \A i \in 1..Len(all) : all'[i].id # 0 => bound[all'[i].id].source = all'[i].source
    BY <1>3, <1>5, <1>6, <2>1 DEF IdsFollow, NoId
  <2>5. \A id \in 1..Len(bound) : (Named(id))'
    BY <1>3, <1>12, <2>1 DEF IdsFollow
  <2> QED BY <1>1, <1>6, <2>2, <2>3, <2>4, <2>5 DEF IdsFollow, NoId
<1>14. AskingForOne'  BY <1>11 DEF AskingForOne
<1>15. NoneForgotten'
  <2>1. \A i \in 1..Len(all) : i # n => (all[i].id = 0 => all[i].state \in {"disabled", "failed"})
    BY DEF AgentInv, StoreFollows, NoneForgotten, NoId, n
  <2> QED BY <1>3, <1>5, <1>6, <2>1 DEF NoneForgotten, NoId
<1>16. KnownIds'  BY <1>1 DEF AgentInv, StoreFollows, KnownIds
<1>17. PlacesFollow'
  <2> SUFFICES ASSUME NEW id \in 1..Len(bound), bound[id].at # NoPlace
               PROVE  \/ (LastEventSays(id, bound[id].at))'
                      \/ /\ \A k \in 1..Len(queue') : ~(Tells(k, id))'
                         /\ (ListSays(id, bound[id].at))' \/ (ReplySays(id, bound[id].at))'
    BY <1>1 DEF PlacesFollow
  <2>1. (LastEventSays(id, bound[id].at))' <=> LastEventSays(id, bound[id].at)
    BY <1>1 DEF LastEventSays, Tells
  <2>2. \A k : (Tells(k, id))' <=> Tells(k, id)  BY <1>1 DEF Tells
  <2>3. ListSays(id, bound[id].at) => (ListSays(id, bound[id].at))'
    <3> SUFFICES ASSUME ListSays(id, bound[id].at) PROVE (ListSays(id, bound[id].at))'
      OBVIOUS
    <3>1. PICK i \in 1..Len(all) :
            all[i].id = id /\ all[i].state = "resolved" /\ all[i].at = bound[id].at
      BY DEF ListSays
    <3>2. i # n  BY <1>3, <3>1
    <3>3. i \in 1..Len(all') /\ all'[i] = all[i] /\ bound' = bound  BY <1>1, <1>6, <3>2
    <3> QED BY <3>1, <3>3 DEF ListSays
  <2>4. ReplySays(id, bound[id].at) => (ListSays(id, bound[id].at))'
    <3> SUFFICES ASSUME ReplySays(id, bound[id].at) PROVE (ListSays(id, bound[id].at))'
      OBVIOUS
    <3>1. call.ok /\ call.id = id /\ call.at = bound[id].at  BY <1>4 DEF ReplySays
    <3>2. all'[n].id = id /\ all'[n].state = "resolved" /\ all'[n].at = bound[id].at
      BY <1>6, <3>1
    <3> QED BY <1>1, <1>3, <1>6, <3>2 DEF ListSays
  <2> QED BY <1>1, <2>1, <2>2, <2>3, <2>4 DEF AgentInv, StoreFollows, PlacesFollow
<1>18. StoreFollows'  BY <1>13, <1>14, <1>15, <1>16, <1>17 DEF StoreFollows
<1> QED BY <1>7, <1>8, <1>9, <1>10, <1>18 DEF AgentInv

\* The debuggee starts over: nothing is bound, and nobody claims it.
LEMMA ReloadsKeeps ==
    ASSUME AgentInv, Reloads
    PROVE  AgentInv'
<1>1. /\ UNCHANGED <<all, rows, gone, call>>
      /\ alive' = {} /\ held' = held \ DomRows
      /\ bound' = [id \in DOMAIN bound |-> [bound[id] EXCEPT !.at = NoPlace]]
      /\ queue' = Append(queue, Continued)
      /\ counts' = [counts EXCEPT !.reloads = @ + 1]
  BY DEF Reloads, agentVars, Ids
<1>2. Continued \in Events /\ Continued.kind # "resolved" /\ Continued.node = NoRow
  BY DEF Continued, Events, Spots, NoId
<1>3. /\ queue' \in Seq(Events) /\ Len(queue) \in Nat /\ Len(queue') = Len(queue) + 1
      /\ \A i \in 1..Len(queue) : queue'[i] = queue[i]
      /\ queue'[Len(queue) + 1] = Continued
  BY <1>1, <1>2, Appended DEF AgentInv
<1>4. /\ bound \in Seq(Bindings) /\ Len(bound) \in Nat /\ DOMAIN bound = 1..Len(bound)
      /\ \A id \in 1..Len(bound) : bound[id] \in Bindings
  BY LenProperties, ElementOfSeq DEF AgentInv, Typed
<1>5. \A id \in 1..Len(bound) : bound'[id] = [source |-> bound[id].source, at |-> NoPlace]
  BY <1>1, <1>4 DEF Bindings
<1>51. \A id \in 1..Len(bound) : bound'[id].source = bound[id].source /\ bound'[id].at = NoPlace
  <2> TAKE id \in 1..Len(bound)
  <2>1. PICK b : b = bound'[id]  OBVIOUS
  <2>2. b = [source |-> bound[id].source, at |-> NoPlace]  BY <1>5, <2>1, Zenon
  <2>3. b.source = bound[id].source /\ b.at = NoPlace  BY <2>2
  <2> QED BY <2>1, <2>3
<1>6. bound' \in Seq(Bindings) /\ Len(bound') = Len(bound)
  <2>1. bound' \in [1..Len(bound) -> Bindings]
    BY <1>1, <1>4 DEF Bindings, Spots
  <2>2. bound' \in Seq(Bindings)  BY <1>4, <2>1, SeqDef
  <2>3. DOMAIN bound' = 1..Len(bound') /\ Len(bound') \in Nat  BY <2>2, LenProperties
  <2> QED BY <1>4, <2>1, <2>2, <2>3
<1>7. Typed'
  <2>0. counts \in Counts /\ counts' = [counts EXCEPT !.reloads = @ + 1]
    BY <1>1 DEF AgentInv, Typed
  <2>1. counts' \in Counts  BY <2>0 DEF Counts
  <2> QED BY <1>1, <1>3, <1>6, <2>1 DEF AgentInv, Typed
<1>8. Asking'  BY <1>1 DEF AgentInv, Asking
<1>9. Departed'
  <2>1. \A k \in 1..Len(queue') : k \in 1..Len(queue) \/ queue'[k] = Continued  BY <1>3
  <2> QED BY <1>1, <1>2, <1>3, <2>1 DEF AgentInv, Departed
<1>10. RowsFollow'
  <2>1. Effective' = Effective  BY <1>1 DEF Effective
  <2>2. \A r \in Others : r \in held' <=> r \in held  BY <1>1, BreakpointConstants
  <2>3. OthersAgree(Effective)'
    BY <2>1, <2>2, BreakpointConstants DEF AgentInv, RowsFollow, OthersAgree
  <2> QED BY <1>1, <2>1, <2>3 DEF AgentInv, RowsFollow
<1>11. (Answering' <=> Answering) /\ \A id : (Named(id))' <=> Named(id)
  BY <1>1 DEF Answering, Named
<1>12. IdsFollow'
  <2>1. IdsFollow  BY DEF AgentInv, StoreFollows
  <2>2. \A i \in 1..Len(all) : all[i].id # 0 => bound'[all[i].id].source = all[i].source
    <3>1. \A i \in 1..Len(all) : all[i].id # 0 => all[i].id \in 1..Len(bound)
      BY <1>4, <2>1 DEF IdsFollow
    <3>2. \A id \in 1..Len(bound) : bound'[id].source = bound[id].source  BY <1>51
    <3>3. \A i \in 1..Len(all) : all[i].id # 0 => bound[all[i].id].source = all[i].source
      BY <2>1 DEF IdsFollow, NoId
    <3> QED BY <3>1, <3>2, <3>3
  <2> QED BY <1>1, <1>6, <1>11, <2>1, <2>2 DEF IdsFollow, NoId
<1>13. AskingForOne'
  BY <1>1, <1>5, <1>6, <1>11 DEF AgentInv, StoreFollows, AskingForOne
<1>14. NoneForgotten'  BY <1>1 DEF AgentInv, StoreFollows, NoneForgotten
<1>15. KnownIds'
  <2>1. \A k \in 1..Len(queue') : k \in 1..Len(queue) \/ queue'[k] = Continued  BY <1>3
  <2> QED BY <1>2, <1>3, <1>6, <2>1 DEF AgentInv, StoreFollows, KnownIds
<1>16. PlacesFollow'
  <2>1. \A id \in 1..Len(bound') : bound'[id].at = NoPlace  BY <1>51, <1>6
  <2> QED BY <2>1 DEF PlacesFollow
<1>17. StoreFollows'  BY <1>12, <1>13, <1>14, <1>15, <1>16 DEF StoreFollows
<1> QED BY <1>7, <1>8, <1>9, <1>10, <1>17 DEF AgentInv

-----------------------------------------------------------------------------
(* Events *)

\* What the agent does with the next event: it finds the one breakpoint that a
\* resolution or a hit is about.
LEMMA Folds ==
    ASSUME AgentInv, OnEvent, NEW e, e = Head(queue)
    PROVE  /\ ~Answering /\ ~Answering' /\ call.kind = "none"
           /\ e \in Events /\ queue' \in Seq(Events) /\ Len(queue') = Len(queue) - 1
           /\ \A i \in 1..Len(queue') : queue'[i] = queue[i + 1]
           /\ 1 \in 1..Len(queue) /\ queue[1] = e
           /\ \A id \in 1..Len(bound) : Named(id)
           /\ (e.kind = "resolved" =>
                 \E i \in 1..Len(all) : all[i].id = e.id /\ FindIndex(all, e.id) = i /\ e.id # 0)
           /\ all' \in Seq(Bps) /\ Len(all') = Len(all)
           /\ \A j \in 1..Len(all) : all'[j].id = all[j].id /\ all'[j].source = all[j].source
           /\ \A j \in 1..Len(all) : all[j].id # e.id \/ e.kind # "resolved" =>
                 all'[j].state = all[j].state /\ all'[j].at = all[j].at
           /\ e.kind = "resolved" =>
                 \E i \in 1..Len(all) : all'[i].id = e.id /\ all'[i].state = "resolved" /\ all'[i].at = e.at
           /\ \A j \in 1..Len(all) :
                 all'[j].hits = IF e.kind = "paused" /\ e.id # 0 /\ all[j].id = e.id
                                THEN all[j].hits + 1 ELSE all[j].hits
<1>2. /\ UNCHANGED <<bound, held, alive, counts, call>> /\ call.step = "none" /\ queue # <<>>
      /\ queue' = Tail(queue)
      /\ all' = IF e.kind = "resolved" THEN Resolve(all, e.id, e.at)
                ELSE IF e.kind = "paused" /\ e.id # NoId THEN RecordHit(all, e.id)
                ELSE all
      /\ rows' = IF e.node = NoRow THEN rows ELSE CleanupDomNode(rows, e.node)
      /\ gone' = IF e.node = NoRow THEN gone ELSE gone \cup {e.node}
  BY DEF OnEvent, Store, Idle, debuggeeVars
<1>3. /\ all \in Seq(Bps) /\ Len(all) \in Nat /\ queue \in Seq(Events) /\ Len(queue) \in Nat
      /\ Len(bound) \in Nat
  BY LenProperties DEF AgentInv, Typed
<1>4. /\ e \in Events /\ queue' \in Seq(Events) /\ Len(queue') = Len(queue) - 1
      /\ \A i \in 1..Len(queue') : queue'[i] = queue[i + 1]
      /\ 1 \in 1..Len(queue) /\ queue[1] = e
  <2>1. /\ Head(queue) \in Events /\ Tail(queue) \in Seq(Events)
        /\ Len(Tail(queue)) = Len(queue) - 1
        /\ \A i \in 1..Len(Tail(queue)) : Tail(queue)[i] = queue[i + 1]
    BY <1>2, <1>3, HeadTailProperties
  <2>2. 1 \in 1..Len(queue)
    <3>1. Len(queue) # 0  BY <1>2, <1>3, EmptySeq
    <3> QED BY <1>3, <3>1
  <2>3. Head(queue) = queue[1]  OBVIOUS
  <2> QED BY <1>2, <2>1, <2>2, <2>3
<1>5. call.kind = "none" /\ ~Answering /\ ~Answering'
  BY <1>2 DEF AgentInv, Asking, Answering
<1>6. IdsFollow /\ KnownIds /\ PlacesFollow /\ NoneForgotten /\ RowsFollow /\ Departed
  BY DEF AgentInv, StoreFollows
<1>7. \A id \in 1..Len(bound) : Named(id)  BY <1>5, <1>6 DEF IdsFollow
<1>8. e.kind = "resolved" =>
        \E i \in 1..Len(all) : all[i].id = e.id /\ FindIndex(all, e.id) = i /\ e.id # 0
  <2> SUFFICES ASSUME e.kind = "resolved"
               PROVE  \E i \in 1..Len(all) :
                        all[i].id = e.id /\ FindIndex(all, e.id) = i /\ e.id # 0
    OBVIOUS
  <2>1. e.id \in 1..Len(bound)  BY <1>4, <1>6 DEF KnownIds
  <2>2. PICK i \in 1..Len(all) : all[i].id = e.id  BY <1>7, <2>1 DEF Named
  <2>3. \A j \in 1..Len(all) : all[j].id = e.id => j = i
    BY <1>3, <1>6, <2>1, <2>2 DEF IdsFollow, NoId
  <2>4. FindIndex(all, e.id) = i  BY <1>3, <2>2, <2>3, FindsIt
  <2> QED BY <1>3, <2>1, <2>2, <2>4
<1>9. /\ all' \in Seq(Bps) /\ Len(all') = Len(all)
      /\ \A j \in 1..Len(all) : all'[j].id = all[j].id /\ all'[j].source = all[j].source
      /\ \A j \in 1..Len(all) : all[j].id # e.id \/ e.kind # "resolved" =>
            all'[j].state = all[j].state /\ all'[j].at = all[j].at
      /\ e.kind = "resolved" =>
            \E i \in 1..Len(all) : all'[i].id = e.id /\ all'[i].state = "resolved" /\ all'[i].at = e.at
      /\ \A j \in 1..Len(all) :
            all'[j].hits = IF e.kind = "paused" /\ e.id # 0 /\ all[j].id = e.id
                           THEN all[j].hits + 1 ELSE all[j].hits
  <2>1. CASE e.kind = "resolved"
    <3>1. PICK i \in 1..Len(all) : all[i].id = e.id /\ FindIndex(all, e.id) = i /\ e.id # 0
      BY <1>8, <2>1
    <3>2. e.at \in Spots  BY <1>4 DEF Events
    <3>3. /\ Resolve(all, e.id, e.at) \in Seq(Bps)
          /\ Len(Resolve(all, e.id, e.at)) = Len(all)
          /\ \A j \in 1..Len(all) : j # i => Resolve(all, e.id, e.at)[j] = all[j]
          /\ Resolve(all, e.id, e.at)[i].id = all[i].id
          /\ Resolve(all, e.id, e.at)[i].source = all[i].source
          /\ Resolve(all, e.id, e.at)[i].hits = all[i].hits
          /\ Resolve(all, e.id, e.at)[i].state = "resolved"
          /\ Resolve(all, e.id, e.at)[i].at = e.at
      BY <1>3, <3>1, <3>2, ResolveIs
    <3>4. all' = Resolve(all, e.id, e.at)  BY <1>2, <2>1
    <3> QED BY <2>1, <3>1, <3>3, <3>4
  <2>2. CASE e.kind # "resolved" /\ e.kind = "paused" /\ e.id # 0
    <3>1. \A i, j \in 1..Len(all) : all[i].id = e.id /\ all[j].id = e.id => i = j
      BY <1>6, <2>2 DEF IdsFollow, NoId
    <3>2. all' = RecordHit(all, e.id)  BY <1>2, <2>2 DEF NoId
    <3>3. /\ RecordHit(all, e.id) \in Seq(Bps)
          /\ Len(RecordHit(all, e.id)) = Len(all)
          /\ \A j \in 1..Len(all) :
               /\ RecordHit(all, e.id)[j].id = all[j].id
               /\ RecordHit(all, e.id)[j].source = all[j].source
               /\ RecordHit(all, e.id)[j].state = all[j].state
               /\ RecordHit(all, e.id)[j].at = all[j].at
               /\ RecordHit(all, e.id)[j].hits
                    = IF all[j].id = e.id THEN all[j].hits + 1 ELSE all[j].hits
      BY <1>3, <3>1, RecordHitIs
    <3> QED BY <2>2, <3>2, <3>3
  <2>3. CASE e.kind # "resolved" /\ ~(e.kind = "paused" /\ e.id # 0)
    <3>1. all' = all  BY <1>2, <2>3 DEF NoId
    <3> QED BY <1>3, <2>3, <3>1
  <2> QED BY <2>1, <2>2, <2>3
<1> QED BY <1>4, <1>5, <1>7, <1>8, <1>9

\* The agent folds the next event.
LEMMA OnEventKeeps ==
    ASSUME AgentInv, OnEvent
    PROVE  AgentInv'
<1>1. PICK e : e = Head(queue)  OBVIOUS
<1>2. /\ UNCHANGED <<bound, held, alive, counts, call>> /\ call.step = "none" /\ queue # <<>>
      /\ queue' = Tail(queue)
      /\ all' = IF e.kind = "resolved" THEN Resolve(all, e.id, e.at)
                ELSE IF e.kind = "paused" /\ e.id # NoId THEN RecordHit(all, e.id)
                ELSE all
      /\ rows' = IF e.node = NoRow THEN rows ELSE CleanupDomNode(rows, e.node)
      /\ gone' = IF e.node = NoRow THEN gone ELSE gone \cup {e.node}
  BY <1>1 DEF OnEvent, Store, Idle, debuggeeVars
<1>3. /\ all \in Seq(Bps) /\ Len(all) \in Nat /\ queue \in Seq(Events) /\ Len(queue) \in Nat
      /\ Len(bound) \in Nat
  BY LenProperties DEF AgentInv, Typed
<1>4. /\ e \in Events /\ queue' \in Seq(Events) /\ Len(queue') = Len(queue) - 1
      /\ \A i \in 1..Len(queue') : queue'[i] = queue[i + 1]
      /\ 1 \in 1..Len(queue) /\ queue[1] = e
  BY <1>1, Folds
<1>5. call.kind = "none" /\ ~Answering /\ ~Answering'
  BY <1>1, Folds
<1>6. IdsFollow /\ KnownIds /\ PlacesFollow /\ NoneForgotten /\ RowsFollow /\ Departed
  BY DEF AgentInv, StoreFollows
<1>7. \A id \in 1..Len(bound) : Named(id)  BY <1>1, Folds
<1>8. e.kind = "resolved" =>
        \E i \in 1..Len(all) : all[i].id = e.id /\ FindIndex(all, e.id) = i /\ e.id # 0
  BY <1>1, Folds
<1>9. /\ all' \in Seq(Bps) /\ Len(all') = Len(all)
      /\ \A j \in 1..Len(all) : all'[j].id = all[j].id /\ all'[j].source = all[j].source
      /\ \A j \in 1..Len(all) : all[j].id # e.id \/ e.kind # "resolved" =>
            all'[j].state = all[j].state /\ all'[j].at = all[j].at
      /\ e.kind = "resolved" =>
            \E i \in 1..Len(all) : all'[i].id = e.id /\ all'[i].state = "resolved" /\ all'[i].at = e.at
  BY <1>1, Folds
<1>10. Typed' /\ Asking'  BY <1>2, <1>4, <1>9 DEF AgentInv, Typed, Asking
<1>11. e.node # NoRow => e.node \notin alive /\ e.node \in Nodes
  BY <1>4, <1>6 DEF Departed, Events
<1>12. Departed'
  <2>1. \A k \in 1..Len(queue') : k + 1 \in 1..Len(queue)  BY <1>3, <1>4
  <2>2. \A k \in 1..Len(queue') : queue'[k].node # NoRow => queue'[k].node \notin alive
    BY <1>4, <1>6, <2>1 DEF Departed
  <2> QED BY <1>2, <1>6, <1>11, <2>2 DEF Departed
<1>13. RowsFollow'
  <2>1. Effective = rows /\ Effective' = rows'  BY <1>2 DEF Effective
  <2>2. CASE e.node = NoRow  BY <1>2, <1>6, <2>1, <2>2 DEF RowsFollow, OthersAgree
  <2>3. CASE e.node # NoRow
    <3>1. rows' = rows \ [node : {e.node}, kind : DomKinds] /\ gone' = gone \cup {e.node}
      BY <1>2, <2>3 DEF CleanupDomNode
    <3>2. [node : {e.node}, kind : DomKinds] \subseteq DomRows  BY <1>11, <2>3 DEF DomRows
    <3>3. \A r \in Others : r \notin [node : {e.node}, kind : DomKinds]
      BY <3>2, BreakpointConstants
    <3>4. \A r \in DomRows : r \in [node : {e.node}, kind : DomKinds] <=> r.node = e.node
      BY DEF DomRows
    <3>5. \A r \in DomRows : r.node \in alive => (r \in rows' <=> r \in held)
      BY <1>6, <1>11, <2>1, <2>3, <3>1, <3>4 DEF RowsFollow
    <3>6. OthersAgree(Effective)'
      <4>1. \A r \in Others : r \in rows' <=> r \in rows  BY <3>1, <3>3
      <4> QED BY <1>2, <1>6, <2>1, <4>1 DEF RowsFollow, OthersAgree
    <3>7. \A r \in DomRows : r \in rows' => r.node \notin gone'
      BY <1>6, <2>1, <3>1, <3>4 DEF RowsFollow
    <3> QED BY <1>2, <2>1, <3>5, <3>6, <3>7 DEF RowsFollow
  <2> QED BY <2>2, <2>3
<1>14. IdsFollow'
  <2>1. \A id \in 1..Len(bound) : (Named(id))'  BY <1>7, <1>9 DEF Named
  <2>2. \A i \in 1..Len(all) : all'[i].id \in 0..Len(bound)  BY <1>6, <1>9 DEF IdsFollow
  <2>3. \A i, j \in 1..Len(all) : all'[i].id # 0 /\ all'[i].id = all'[j].id => i = j
    BY <1>6, <1>9 DEF IdsFollow, NoId
  <2>4. \A i \in 1..Len(all) : all'[i].id # 0 => bound[all'[i].id].source = all'[i].source
    BY <1>6, <1>9 DEF IdsFollow, NoId
  <2> QED BY <1>2, <1>9, <2>1, <2>2, <2>3, <2>4 DEF IdsFollow, NoId
<1>15. AskingForOne'  BY <1>2, <1>5 DEF AskingForOne
<1>16. NoneForgotten'
  <2>1. \A i \in 1..Len(all) : all'[i].id = 0 => all[i].id = 0 /\ all'[i].state = all[i].state
    BY <1>8, <1>9
  <2> QED BY <1>2, <1>6, <1>9, <2>1 DEF NoneForgotten, NoId
<1>17. KnownIds'
  <2>1. \A k \in 1..Len(queue') : k + 1 \in 1..Len(queue)  BY <1>3, <1>4
  <2> QED BY <1>2, <1>4, <1>6, <2>1 DEF KnownIds
<1>18. PlacesFollow'
  <2> SUFFICES ASSUME NEW id \in 1..Len(bound), bound[id].at # NoPlace
               PROVE  \/ (LastEventSays(id, bound[id].at))'
                      \/ /\ \A k \in 1..Len(queue') : ~(Tells(k, id))'
                         /\ (ListSays(id, bound[id].at))' \/ (ReplySays(id, bound[id].at))'
    BY <1>2 DEF PlacesFollow
  <2>1. \A k \in 1..Len(queue') :
          k + 1 \in 1..Len(queue) /\ ((Tells(k, id))' <=> Tells(k + 1, id))
    BY SMTT(30), <1>3, <1>4 DEF Tells
  <2>2. Tells(1, id) <=> e.kind = "resolved" /\ e.id = id  BY <1>4 DEF Tells
  <2>3. CASE LastEventSays(id, bound[id].at)
    <3>1. PICK k \in 1..Len(queue) :
            /\ Tells(k, id) /\ queue[k].at = bound[id].at
            /\ \A j \in 1..Len(queue) : j > k => ~Tells(j, id)
      BY <2>3 DEF LastEventSays
    <3>2. CASE k = 1
      <4>1. e.kind = "resolved" /\ e.id = id /\ e.at = bound[id].at
        BY <1>4, <2>2, <3>1, <3>2
      <4>2. \A j \in 1..Len(queue') : ~(Tells(j, id))'
        <5>1. \A j \in 1..Len(queue') : j + 1 \in 1..Len(queue) /\ j + 1 > k
          BY <1>3, <1>4, <3>2
        <5> QED BY <2>1, <3>1, <5>1
      <4>3. (ListSays(id, bound[id].at))'
        BY <1>2, <1>9, <4>1 DEF ListSays
      <4> QED BY <4>2, <4>3
    <3>3. CASE k # 1
      <4>1. k - 1 \in 1..Len(queue') /\ (k - 1) + 1 = k  BY <1>3, <1>4, <3>3
      <4>2. (Tells(k - 1, id))' /\ queue'[k - 1].at = bound'[id].at
        BY <1>2, <1>4, <2>1, <3>1, <4>1
      <4>3. \A j \in 1..Len(queue') : j > k - 1 => ~(Tells(j, id))'
        <5>1. \A j \in 1..Len(queue') : j > k - 1 => j + 1 \in 1..Len(queue) /\ j + 1 > k
          BY <1>3, <1>4
        <5> QED BY <2>1, <3>1, <5>1
      <4>4. PICK m \in 1..Len(queue') : m = k - 1  BY <4>1
      <4> QED BY <4>2, <4>3, <4>4 DEF LastEventSays
    <3> QED BY <3>2, <3>3
  <2>4. CASE /\ \A k \in 1..Len(queue) : ~Tells(k, id)
             /\ ListSays(id, bound[id].at) \/ ReplySays(id, bound[id].at)
    <3>1. \A k \in 1..Len(queue') : ~(Tells(k, id))'  BY <2>1, <2>4
    <3>2. ~(e.kind = "resolved" /\ e.id = id)  BY <1>4, <2>2, <2>4
    <3>3. PICK i \in 1..Len(all) :
            all[i].id = id /\ all[i].state = "resolved" /\ all[i].at = bound[id].at
      BY <1>5, <2>4 DEF ListSays, ReplySays
    <3>4. /\ i \in 1..Len(all') /\ all'[i].id = id /\ all'[i].state = "resolved"
          /\ all'[i].at = bound'[id].at
      BY <1>2, <1>9, <3>2, <3>3
    <3> QED BY <3>1, <3>4 DEF ListSays
  <2> QED BY <1>6, <2>3, <2>4 DEF PlacesFollow
<1>19. StoreFollows'  BY <1>14, <1>15, <1>16, <1>17, <1>18 DEF StoreFollows
<1> QED BY <1>10, <1>12, <1>13, <1>19 DEF AgentInv

\* A script parses: every breakpoint of its source is bound and told so.
LEMMA ParsesKeeps ==
    ASSUME AgentInv, Parses
    PROVE  AgentInv'
<1>1. PICK s \in Sources, at \in Places :
        /\ bound' = [id \in DOMAIN bound |-> IF bound[id].source = s
                                             THEN [source |-> s, at |-> at] ELSE bound[id]]
        /\ queue' = queue \o SetToSeq({Resolution(id, at) : id \in
                                         {i \in DOMAIN bound : bound[i].source = s}})
        /\ UNCHANGED <<hits, held, alive, stopped, counts, call, agentVars>>
  BY DEF Parses, Ids
<1>2. UNCHANGED <<all, rows, gone, held, alive, counts, call>>  BY <1>1 DEF agentVars
<1>3. /\ bound \in Seq(Bindings) /\ Len(bound) \in Nat /\ DOMAIN bound = 1..Len(bound)
      /\ queue \in Seq(Events) /\ Len(queue) \in Nat
  BY LenProperties DEF AgentInv, Typed
<1>4. PICK B \in SUBSET (1..Len(bound)) : B = {i \in DOMAIN bound : bound[i].source = s}
  BY <1>3
<1>5. PICK S : S = {Resolution(id, at) : id \in B}  OBVIOUS
<1>6. IsFiniteSet(S)
  <2>1. IsFiniteSet(1..Len(bound))
    <3>1. 1 \in Int /\ Len(bound) \in Int  BY <1>3
    <3> QED BY <3>1, FS_Interval
  <2>2. IsFiniteSet(B)  BY <2>1, FS_Subset
  <2>3. [i \in B |-> Resolution(i, at)] \in Surjection(B, S)
    BY <1>5 DEF Surjection
  <2> QED BY <2>2, <2>3, FS_Surjection
<1>7. \A x \in S : x \in Events /\ x.kind = "resolved" /\ x.id \in B /\ x.at = at /\ x.node = NoRow
                   /\ x = Resolution(x.id, at)
  BY <1>3, <1>5 DEF Resolution, Events, Spots
<1>8. PICK new : new = SetToSeq(S)  OBVIOUS
<1>9. /\ new \in Seq(S)
      /\ \A x \in S : \E k \in 1..Len(new) : new[k] = x
      /\ \A j, k \in 1..Len(new) : new[j] = new[k] => j = k
  BY <1>6, <1>8, SetToSeqLists
<1>10. Len(new) \in Nat /\ new \in Seq(Events) /\ \A k \in 1..Len(new) : new[k] \in S
  <2>1. S \subseteq Events  BY <1>7
  <2> QED BY <1>9, <2>1, LenProperties, SeqMonotonic, ElementOfSeq
<1>11. /\ queue' \in Seq(Events) /\ Len(queue') = Len(queue) + Len(new)
       /\ \A i \in 1..Len(queue') : queue'[i] = IF i <= Len(queue) THEN queue[i]
                                               ELSE new[i - Len(queue)]
  <2>1. queue' = queue \o new  BY <1>1, <1>4, <1>5, <1>8
  <2>2. /\ queue \o new \in Seq(Events) /\ Len(queue \o new) = Len(queue) + Len(new)
        /\ \A i \in 1..(Len(queue) + Len(new)) :
             (queue \o new)[i] = IF i <= Len(queue) THEN queue[i] ELSE new[i - Len(queue)]
    BY <1>3, <1>10, ConcatProperties
  <2> QED BY <2>1, <2>2
<1>12. /\ \A i \in 1..Len(queue) : i \in 1..Len(queue') /\ queue'[i] = queue[i]
       /\ \A i \in 1..Len(queue') : \/ i \in 1..Len(queue)
                                    \/ /\ i > Len(queue) /\ i - Len(queue) \in 1..Len(new)
                                       /\ queue'[i] = new[i - Len(queue)] /\ queue'[i] \in S
       /\ \A m \in 1..Len(new) : Len(queue) + m \in 1..Len(queue') /\ queue'[Len(queue) + m] = new[m]
  <2>1. \A i \in 1..Len(queue) : i \in 1..Len(queue') /\ queue'[i] = queue[i]
    BY <1>3, <1>10, <1>11
  <2>2. \A i \in 1..Len(queue') : \/ i \in 1..Len(queue)
                                \/ /\ i > Len(queue) /\ i - Len(queue) \in 1..Len(new)
                                   /\ queue'[i] = new[i - Len(queue)]
    <3>1. PICK l \in Nat, k \in Nat : l = Len(queue) /\ k = Len(new)  BY <1>3, <1>10
    <3>2. \A i \in 1..(l + k) : i \in 1..l \/ (i > l /\ i - l \in 1..k /\ ~(i <= l))  OBVIOUS
    <3>3. Len(queue') = l + k /\ \A i \in 1..(l + k) : ~(i <= l) => queue'[i] = new[i - l]
      BY <1>11, <3>1
    <3> QED BY <3>1, <3>2, <3>3
  <2>3. \A m \in 1..Len(new) : /\ Len(queue) + m \in 1..Len(queue')
                             /\ ~(Len(queue) + m <= Len(queue))
                             /\ (Len(queue) + m) - Len(queue) = m
    BY <1>3, <1>10, <1>11
  <2>4. \A m \in 1..Len(new) : queue'[Len(queue) + m] = new[m]  BY <1>11, <2>3
  <2> QED BY <1>10, <2>1, <2>2, <2>3, <2>4
<1>13. /\ \A id \in 1..Len(bound) : id \in B => bound'[id] = [source |-> s, at |-> at]
       /\ \A id \in 1..Len(bound) : id \notin B => bound'[id] = bound[id]
       /\ \A id \in B : bound[id].source = s
  BY <1>1, <1>3, <1>4
<1>14. bound' \in Seq(Bindings) /\ Len(bound') = Len(bound)
  <2>1. \A id \in 1..Len(bound) : bound[id] \in Bindings  BY <1>3, ElementOfSeq
  <2>2. [source |-> s, at |-> at] \in Bindings  BY DEF Bindings, Spots
  <2>3. bound' \in [1..Len(bound) -> Bindings]
    BY <1>1, <1>3, <2>1, <2>2
  <2>4. bound' \in Seq(Bindings)  BY <1>3, <2>3, SeqDef
  <2>5. DOMAIN bound' = 1..Len(bound') /\ Len(bound') \in Nat  BY <2>4, LenProperties
  <2> QED BY <1>3, <2>3, <2>4, <2>5
<1>15. \A id \in 1..Len(bound) : bound'[id].source = bound[id].source
  <2> TAKE id \in 1..Len(bound)
  <2>1. CASE id \in B
    <3>1. PICK b : b = bound'[id] /\ b = [source |-> s, at |-> at]  BY <1>13, <2>1
    <3>2. b.source = s  BY <3>1
    <3> QED BY <1>13, <2>1, <3>1, <3>2
  <2>2. CASE id \notin B  BY <1>13, <2>2
  <2> QED BY <2>1, <2>2
<1>16. Typed' /\ Asking'  BY <1>2, <1>11, <1>14 DEF AgentInv, Typed, Asking
<1>17. Departed'
  <2>1. \A k \in 1..Len(queue') : queue'[k].node # NoRow => queue'[k].node \notin alive
    BY <1>7, <1>12 DEF AgentInv, Departed
  <2> QED BY <1>2, <2>1 DEF AgentInv, Departed
<1>18. RowsFollow'
  <2>1. Effective' = Effective  BY <1>2 DEF Effective
  <2> QED BY <1>2, <2>1, SameRows DEF AgentInv
<1>19. (Answering' <=> Answering) /\ \A id : (Named(id))' <=> Named(id)
  BY <1>2 DEF Answering, Named
<1>20. IdsFollow'
  <2>1. IdsFollow  BY DEF AgentInv, StoreFollows
  <2>2. \A i \in 1..Len(all) : all[i].id # 0 => bound'[all[i].id].source = all[i].source
    <3>1. \A i \in 1..Len(all) : all[i].id # 0 => all[i].id \in 1..Len(bound)
      BY <1>3, <2>1 DEF IdsFollow
    <3>2. \A i \in 1..Len(all) : all[i].id # 0 => bound[all[i].id].source = all[i].source
      BY <2>1 DEF IdsFollow, NoId
    <3> QED BY <1>15, <3>1, <3>2
  <2> QED BY <1>2, <1>14, <1>19, <2>1, <2>2 DEF IdsFollow, NoId
<1>21. AskingForOne'
  BY <1>2, <1>14, <1>15, <1>19 DEF AgentInv, StoreFollows, AskingForOne
<1>22. NoneForgotten'  BY <1>2 DEF AgentInv, StoreFollows, NoneForgotten
<1>23. KnownIds'
  BY <1>7, <1>12, <1>14 DEF AgentInv, StoreFollows, KnownIds
<1>24. PlacesFollow'
  <2> SUFFICES ASSUME NEW id \in 1..Len(bound), bound'[id].at # NoPlace
               PROVE  \/ (LastEventSays(id, bound[id].at))'
                      \/ /\ \A k \in 1..Len(queue') : ~(Tells(k, id))'
                         /\ (ListSays(id, bound[id].at))' \/ (ReplySays(id, bound[id].at))'
    BY <1>14 DEF PlacesFollow
  <2>1. CASE id \in B
    <3>1. PICK b : b = bound'[id] /\ b = [source |-> s, at |-> at]  BY <1>13, <2>1
    <3>2. b.at = at  BY <3>1
    <3>3. Resolution(id, at) \in S  BY <1>5, <2>1
    <3>4. PICK m \in 1..Len(new) : new[m] = Resolution(id, at)  BY <1>9, <3>3
    <3>5. PICK k \in 1..Len(queue') : k = Len(queue) + m /\ queue'[k] = Resolution(id, at)
      BY <1>12, <3>4
    <3>6. (Tells(k, id))' /\ queue'[k].at = bound'[id].at
      BY <3>1, <3>2, <3>5 DEF Tells, Resolution
    <3>7. ASSUME NEW j \in 1..Len(queue'), j > k, (Tells(j, id))' PROVE FALSE
      <4>1. /\ j - Len(queue) \in 1..Len(new) /\ queue'[j] = new[j - Len(queue)]
            /\ queue'[j] \in S
        <5>1. ~(j \in 1..Len(queue))  BY <1>3, <1>10, <3>5, <3>7
        <5> QED BY <1>12, <5>1
      <4>2. queue'[j] = Resolution(id, at)  BY <1>7, <3>7, <4>1 DEF Tells
      <4>3. j - Len(queue) = m  BY <1>9, <3>4, <4>1, <4>2
      <4> QED BY <1>3, <3>5, <3>7, <4>3
    <3> QED BY <3>6, <3>7 DEF LastEventSays
  <2>2. CASE id \notin B
    <3>0. bound'[id] = bound[id]  BY <1>13, <2>2
    <3>1. \A k \in 1..Len(queue) : (Tells(k, id))' <=> Tells(k, id)  BY <1>12 DEF Tells
    <3>2. \A k \in 1..Len(queue') : (Tells(k, id))' => k \in 1..Len(queue) /\ Tells(k, id)
      BY <1>7, <1>12, <2>2, <3>1 DEF Tells
    <3>3. CASE LastEventSays(id, bound[id].at)
      <4>1. PICK k \in 1..Len(queue) :
              /\ Tells(k, id) /\ queue[k].at = bound[id].at
              /\ \A j \in 1..Len(queue) : j > k => ~Tells(j, id)
        BY <3>3 DEF LastEventSays
      <4>2. k \in 1..Len(queue') /\ (Tells(k, id))' /\ queue'[k].at = bound'[id].at
        BY <1>12, <3>0, <3>1, <4>1
      <4>3. \A j \in 1..Len(queue') : j > k => ~(Tells(j, id))'  BY <3>2, <4>1
      <4> QED BY <4>2, <4>3 DEF LastEventSays
    <3>4. CASE /\ \A k \in 1..Len(queue) : ~Tells(k, id)
               /\ ListSays(id, bound[id].at) \/ ReplySays(id, bound[id].at)
      <4>1. \A k \in 1..Len(queue') : ~(Tells(k, id))'  BY <3>2, <3>4
      <4>2. (ListSays(id, bound[id].at))' <=> ListSays(id, bound[id].at)
        BY <1>2, <3>0 DEF ListSays
      <4>3. (ReplySays(id, bound[id].at))' <=> ReplySays(id, bound[id].at)
        BY <1>2, <1>19, <3>0 DEF ReplySays
      <4> QED BY <3>4, <4>1, <4>2, <4>3
    <3> QED BY <3>0, <3>3, <3>4 DEF AgentInv, StoreFollows, PlacesFollow
  <2> QED BY <2>1, <2>2
<1>25. StoreFollows'  BY <1>20, <1>21, <1>22, <1>23, <1>24 DEF StoreFollows
<1> QED BY <1>16, <1>17, <1>18, <1>25 DEF AgentInv

-----------------------------------------------------------------------------
LEMMA StepKeepsInv == AgentInv /\ [Next]_vars => AgentInv'
<1> SUFFICES ASSUME AgentInv, [Next]_vars PROVE AgentInv'
  OBVIOUS
<1>1. CASE SetBreakpointByUrl  BY <1>1, SetKeeps
<1>2. CASE FinishLine  BY <1>2, FinishLineKeeps
<1>3. CASE AskRow  BY <1>3, AskRowKeeps
<1>4. CASE FinishRow  BY <1>4, FinishRowKeeps
<1>5. CASE OnEvent  BY <1>5, OnEventKeeps
<1>6. CASE AnswersLine  BY <1>6, AnswersLineKeeps
<1>7. CASE AnswersRow  BY <1>7, AnswersRowKeeps
<1>8. CASE Refuses  BY <1>8, RefusesKeeps
<1>9. CASE Parses  BY <1>9, ParsesKeeps
<1>10. CASE StopsAtLine \/ StopsOtherwise \/ Resumes  BY <1>10, StopKeeps
<1>11. CASE RemovesNode  BY <1>11, RemovesNodeKeeps
<1>12. CASE Reloads  BY <1>12, ReloadsKeeps
<1>13. CASE UNCHANGED vars
  <2>1. UNCHANGED <<all, bound, queue, rows, gone, held, alive, counts, call>>
    BY <1>13 DEF vars, debuggeeVars, agentVars
  <2>2. Typed' /\ Asking' /\ Departed'  BY <2>1 DEF AgentInv, Typed, Asking, Departed
  <2>3. RowsFollow'
    <3>1. Effective' = Effective  BY <2>1 DEF Effective
    <3> QED BY <2>1, <3>1, SameRows DEF AgentInv
  <2>4. StoreFollows'
    <3>1. Answering' <=> Answering  BY <2>1 DEF Answering
    <3> QED BY <2>1, <3>1, SameStore DEF AgentInv
  <2> QED BY <2>2, <2>3, <2>4 DEF AgentInv
<1> QED BY <1>1, <1>2, <1>3, <1>4, <1>5, <1>6, <1>7, <1>8, <1>9, <1>10, <1>11, <1>12, <1>13
        DEF Next

\* The inductive invariant behind the theorems below.  [DebugAgent, BreakpointStore]
THEOREM InvariantHolds == Spec => []AgentInv
<1> QED BY InitInv, StepKeepsInv, PTL DEF Spec

\* With nothing under way the rows are the debuggee's, and nothing is shown on
\* a node whose removal it stopped for.  [set_dom_breakpoint, cleanup_dom_node]
THEOREM RowsAlwaysAgree == Spec => []RowsAgree
<1>1. AgentInv => RowsAgree
  <2> SUFFICES ASSUME AgentInv, Settled PROVE RowsAgree
    BY DEF RowsAgree
  <2>1. Effective = rows  BY DEF Settled, Idle, Effective
  <2> QED BY <2>1 DEF AgentInv, RowsFollow, RowsAgree
<1> QED BY <1>1, InvariantHolds, PTL

\* With nothing under way every id the debuggee gave is on one breakpoint, at
\* the place where it is bound, whatever came before what: the reply, the
\* script, the reload.  [set_breakpoint_by_url, handle_breakpoint_resolved]
THEOREM StoreAlwaysAgrees == Spec => []StoreAgrees
<1>1. AgentInv => StoreAgrees
  <2> SUFFICES ASSUME AgentInv, Settled PROVE StoreAgrees
    BY DEF StoreAgrees
  <2>1. call.kind = "none" /\ ~Answering /\ queue = <<>>
    BY DEF Settled, Idle, AgentInv, Asking, Answering
  <2>2. /\ all \in Seq(Bps) /\ DOMAIN all = 1..Len(all) /\ Len(all) \in Nat
        /\ DOMAIN bound = 1..Len(bound) /\ Len(queue) = 0
    BY <2>1, LenProperties, EmptySeq DEF AgentInv, Typed
  <2>3. IdsFollow /\ NoneForgotten /\ PlacesFollow  BY DEF AgentInv, StoreFollows
  <2>4. ASSUME NEW id \in 1..Len(bound)
        PROVE  /\ Cardinality({i \in DOMAIN all : all[i].id = id}) = 1
               /\ all[FindIndex(all, id)].source = bound[id].source
               /\ bound[id].at # NoPlace =>
                    /\ all[FindIndex(all, id)].state = "resolved"
                    /\ all[FindIndex(all, id)].at = bound[id].at
    <3>1. PICK i \in 1..Len(all) : all[i].id = id
      BY <2>1, <2>3 DEF IdsFollow, Named
    <3>2. \A j \in 1..Len(all) : all[j].id = id => j = i
      BY <2>3, <3>1 DEF IdsFollow, NoId
    <3>3. FindIndex(all, id) = i  BY <2>2, <3>1, <3>2, FindsIt
    <3>4. {j \in DOMAIN all : all[j].id = id} = {i}  BY <2>2, <3>1, <3>2
    <3>5. Cardinality({i}) = 1  BY FS_Singleton
    <3>6. bound[id].source = all[i].source  BY <2>3, <3>1 DEF IdsFollow, NoId
    <3>7. bound[id].at # NoPlace => all[i].state = "resolved" /\ all[i].at = bound[id].at
      <4>1. ~LastEventSays(id, bound[id].at)  BY <2>2 DEF LastEventSays
      <4>2. ~ReplySays(id, bound[id].at)  BY <2>1 DEF ReplySays
      <4>3. bound[id].at # NoPlace => ListSays(id, bound[id].at)
        BY <2>3, <4>1, <4>2 DEF PlacesFollow
      <4> QED BY <3>2, <4>3 DEF ListSays
    <3> QED BY <3>3, <3>4, <3>5, <3>6, <3>7
  <2>5. \A i \in DOMAIN all : all[i].id = NoId => all[i].state \in {"disabled", "failed"}
    BY <2>1, <2>2, <2>3 DEF NoneForgotten
  <2> QED BY <2>2, <2>4, <2>5 DEF StoreAgrees, Ids
<1> QED BY <1>1, InvariantHolds, PTL
-----------------------------------------------------------------------------
(* The hits and the pause *)

PausesAt(list, id) == {k \in DOMAIN list : list[k].kind = "paused" /\ list[k].id = id}
Waiting(list, id) == Cardinality(PausesAt(list, id))

\* A hit is on the breakpoint, or in an event that waits; before the
\* breakpoint has its id they all wait.
HitsFollow ==
    /\ hits \in Seq(Nat) /\ Len(hits) = Len(bound)
    /\ \A i \in 1..Len(all) : all[i].id = NoId => all[i].hits = 0
    /\ \A k \in 1..Len(queue) : queue[k].kind = "paused" => queue[k].id \in 0..Len(bound)
    /\ \A id \in 1..Len(bound) :
        /\ \A i \in 1..Len(all) : all[i].id = id => all[i].hits + Waiting(queue, id) = hits[id]
        /\ ~Named(id) => Waiting(queue, id) = hits[id]

\* The last word about the pause: the last event that waits and speaks of it,
\* or else what the agent shows.
PauseFollows ==
    /\ \A k \in 1..Len(queue) :
        queue[k].kind # "resolved" /\ (\A j \in 1..Len(queue) : j > k => queue[j].kind = "resolved")
            => queue[k].pause = stopped
    /\ (\A k \in 1..Len(queue) : queue[k].kind = "resolved") => paused = stopped

IndexFollows == bySource = Reindexed(all)

CountInv == IndexFollows /\ HitsFollow /\ PauseFollows

LEMMA WaitingIsFinite ==
    ASSUME NEW list \in Seq(Events), NEW id
    PROVE  /\ IsFiniteSet(PausesAt(list, id)) /\ Waiting(list, id) \in Nat
           /\ PausesAt(list, id) \subseteq 1..Len(list)
<1>1. PICK n \in Nat : n = Len(list) /\ DOMAIN list = 1..n  BY LenProperties
<1>2. IsFiniteSet(1..n)
  <2>1. 1 \in Int /\ n \in Int  OBVIOUS
  <2> QED BY <2>1, FS_Interval
<1>3. PausesAt(list, id) \in SUBSET (1..n)  BY <1>1 DEF PausesAt
<1>4. IsFiniteSet(PausesAt(list, id))  BY <1>2, <1>3, FS_Subset
<1> QED BY <1>1, <1>3, <1>4, FS_CardinalityType DEF Waiting

\* One more event, one more hit that waits if it is one.
LEMMA OneMoreWaits ==
    ASSUME NEW list \in Seq(Events), NEW e \in Events, NEW id
    PROVE  Waiting(Append(list, e), id)
             = IF e.kind = "paused" /\ e.id = id THEN Waiting(list, id) + 1 ELSE Waiting(list, id)
<1>1. PICK n \in Nat : n = Len(list) /\ DOMAIN list = 1..n  BY LenProperties
<1>2. PICK longer \in Seq(Events) : longer = Append(list, e)  BY AppendProperties
<1>3. /\ DOMAIN longer = 1..(n + 1) /\ longer[n + 1] = e
      /\ \A i \in 1..n : longer[i] = list[i]
  BY <1>1, <1>2, AppendProperties, LenProperties
<1>4. \A k \in 1..(n + 1) : k \in 1..n \/ k = n + 1  OBVIOUS
<1>5. \A k \in 1..n : k \in 1..(n + 1) /\ k # n + 1  OBVIOUS
<1>6. n + 1 \notin PausesAt(list, id)  BY <1>1 DEF PausesAt
<1>7. CASE e.kind = "paused" /\ e.id = id
  <2>1. PausesAt(longer, id) = PausesAt(list, id) \cup {n + 1}
    BY <1>1, <1>3, <1>4, <1>5, <1>7 DEF PausesAt
  <2>2. IsFiniteSet(PausesAt(list, id))  BY WaitingIsFinite
  <2>3. Cardinality(PausesAt(list, id) \cup {n + 1}) = Cardinality(PausesAt(list, id)) + 1
    BY <1>6, <2>2, FS_AddElement
  <2> QED BY <1>2, <1>7, <2>1, <2>3 DEF Waiting
<1>8. CASE ~(e.kind = "paused" /\ e.id = id)
  <2>1. PausesAt(longer, id) = PausesAt(list, id)
    BY <1>1, <1>3, <1>4, <1>5, <1>8 DEF PausesAt
  <2> QED BY <1>2, <1>8, <2>1 DEF Waiting
<1> QED BY <1>7, <1>8

\* The first event is taken, and with it its hit.
LEMMA OneLessWaits ==
    ASSUME NEW list \in Seq(Events), NEW rest \in Seq(Events), Len(rest) = Len(list) - 1,
           1 \in 1..Len(list), \A i \in 1..Len(rest) : rest[i] = list[i + 1], NEW id
    PROVE  Waiting(list, id)
             = IF list[1].kind = "paused" /\ list[1].id = id
               THEN Waiting(rest, id) + 1 ELSE Waiting(rest, id)
<1>1. PICK n \in Nat : n = Len(rest) /\ Len(list) = n + 1 /\ DOMAIN rest = 1..n
                       /\ DOMAIN list = 1..(n + 1)
  BY LenProperties
<1> DEFINE S == PausesAt(rest, id)
           T == PausesAt(list, id)
           f == [k \in S |-> k + 1]
<1>2. IsFiniteSet(S) /\ IsFiniteSet(T) /\ S \subseteq 1..n /\ T \subseteq 1..(n + 1)
  BY <1>1, WaitingIsFinite
<1>3. \A k \in 1..n : k \in S <=> k + 1 \in T
  BY <1>1 DEF PausesAt
<1>4. 1 \in T <=> list[1].kind = "paused" /\ list[1].id = id
  BY <1>1 DEF PausesAt
<1> HIDE DEF S, T
<1>5. \A m \in T \ {1} : m - 1 \in 1..n /\ (m - 1) + 1 = m /\ m - 1 \in S
  BY <1>2, <1>3
<1>6. \A k \in S : k + 1 \in T \ {1}  BY <1>2, <1>3
<1>7. f \in Bijection(S, T \ {1})
  <2>1. f \in [S -> T \ {1}]  BY <1>6
  <2>2. \A a, b \in S : f[a] = f[b] => a = b
    <3> TAKE a, b \in S
    <3>1. a \in Nat /\ b \in Nat /\ f[a] = a + 1 /\ f[b] = b + 1  BY <1>2
    <3> QED BY <3>1
  <2>3. \A m \in T \ {1} : \E k \in S : f[k] = m  BY <1>5
  <2> HIDE DEF f
  <2>4. f \in Injection(S, T \ {1})  BY <2>1, <2>2 DEF Injection, IsInjective
  <2>5. f \in Surjection(S, T \ {1})  BY <2>1, <2>3 DEF Surjection
  <2> QED BY <2>4, <2>5 DEF Bijection
<1>8. Cardinality(T \ {1}) = Cardinality(S)
  <2>1. ExistsBijection(S, T \ {1})  BY <1>7 DEF ExistsBijection
  <2> QED BY <1>2, <2>1, FS_Bijection
<1>9. /\ Cardinality(T \ {1}) = IF 1 \in T THEN Cardinality(T) - 1 ELSE Cardinality(T)
      /\ Cardinality(T) \in Nat
  BY <1>2, FS_RemoveElement, FS_CardinalityType
<1>10. Waiting(rest, id) = Cardinality(S) /\ Waiting(list, id) = Cardinality(T)
  BY DEF Waiting, S, T
<1>11. CASE 1 \in T  BY <1>4, <1>8, <1>9, <1>10, <1>11
<1>12. CASE 1 \notin T  BY <1>4, <1>8, <1>9, <1>10, <1>12
<1> QED BY <1>11, <1>12

\* The index.
LEMMA IndexKept ==
    ASSUME Typed, IndexFollows, [Next]_vars
    PROVE  IndexFollows'
<1>1. CASE SetBreakpointByUrl
  <2>1. PICK s \in Sources, enabled \in BOOLEAN : Insert(New(s, enabled))
    BY <1>1 DEF SetBreakpointByUrl
  <2>2. PICK bp : bp = New(s, enabled)  OBVIOUS
  <2>3. bp = [id |-> 0, source |-> s, at |-> NoPlace, hits |-> 0,
              state |-> IF enabled THEN "pending" ELSE "disabled"]
    BY <2>2 DEF New, NoId
  <2>4. bp \in Bps /\ bp.source = s  BY <2>3 DEF Bps, States, Spots
  <2>5. all' = Append(all, bp) /\ bySource' = [bySource EXCEPT ![s] = Append(@, bp)]
    BY <2>1, <2>2, <2>4 DEF Insert
  <2>6. all \in Seq(Bps)  BY DEF Typed
  <2>7. PICK n \in Nat : n = Len(all) /\ DOMAIN all = 1..n  BY <2>6, LenProperties
  <2>8. PICK longer \in Seq(Bps) : longer = Append(all, bp)  BY <2>4, <2>6, AppendProperties
  <2>9. /\ DOMAIN longer = 1..(n + 1) /\ longer[n + 1] = bp
        /\ \A i \in 1..n : longer[i] = all[i]
    BY <2>4, <2>6, <2>7, <2>8, AppendProperties, LenProperties
  <2>10. ASSUME NEW t \in Sources
         PROVE  Excerpt(longer, {i \in DOMAIN longer : longer[i].source = t})
                  = IF t = s THEN Append(bySource[t], bp) ELSE bySource[t]
    <3>1. PICK P : P = {i \in DOMAIN all : all[i].source = t}  OBVIOUS
    <3>2. PICK Q : Q = {i \in DOMAIN longer : longer[i].source = t}  OBVIOUS
    <3>3. \A i \in 1..n : i \in P <=> i \in Q
      BY <2>7, <2>9, <3>1, <3>2
    <3>4. n + 1 \in Q <=> t = s  BY <2>4, <2>9, <3>2
    <3>5. Excerpt(longer, Q) = IF n + 1 \in Q THEN Append(Excerpt(all, P), bp) ELSE Excerpt(all, P)
      BY <2>4, <2>6, <2>7, <2>8, <3>3, ExcerptGrows
    <3>6. bySource[t] = Excerpt(all, P)  BY <3>1 DEF IndexFollows, Reindexed
    <3> QED BY <3>2, <3>4, <3>5, <3>6
  <2>11. bySource' = [t \in Sources |-> IF t = s THEN Append(bySource[t], bp) ELSE bySource[t]]
    <3>1. DOMAIN bySource = Sources  BY DEF IndexFollows, Reindexed
    <3> QED BY <2>5, <3>1
  <2>12. Reindexed(longer) = [t \in Sources |-> IF t = s THEN Append(bySource[t], bp) ELSE bySource[t]]
    BY <2>10, Zenon DEF Reindexed
  <2> QED BY <2>5, <2>8, <2>11, <2>12 DEF IndexFollows
<1>2. CASE FinishLine  BY <1>2 DEF FinishLine, Store, IndexFollows
<1>3. CASE OnEvent  BY <1>3 DEF OnEvent, Store, IndexFollows
<1>4. CASE UNCHANGED <<all, bySource>>  BY <1>4 DEF IndexFollows
<1>5. \/ SetBreakpointByUrl \/ FinishLine \/ OnEvent \/ UNCHANGED <<all, bySource>>
  <2>1. AskRow => UNCHANGED <<all, bySource>>  BY DEF AskRow, agentVars
  <2>2. FinishRow => UNCHANGED <<all, bySource>>  BY DEF FinishRow
  <2>3. AnswersLine \/ AnswersRow \/ Refuses => UNCHANGED <<all, bySource>>
    BY DEF AnswersLine, AnswersRow, Refuses, agentVars
  <2>4. Parses \/ StopsAtLine \/ RemovesNode \/ StopsOtherwise => UNCHANGED <<all, bySource>>
    BY DEF Parses, StopsAtLine, RemovesNode, StopsOtherwise, agentVars
  <2>5. Resumes \/ Reloads \/ UNCHANGED vars => UNCHANGED <<all, bySource>>
    BY DEF Resumes, Reloads, vars, agentVars
  <2> QED BY <2>1, <2>2, <2>3, <2>4, <2>5 DEF Next
<1> QED BY <1>1, <1>2, <1>3, <1>4, <1>5

\* What a script that parses adds to the queue are resolutions.
LEMMA ParseTells ==
    ASSUME Typed, Parses
    PROVE  /\ Len(queue) \in Nat /\ Len(queue') \in Nat /\ queue' \in Seq(Events)
           /\ \A k \in 1..Len(queue) : k \in 1..Len(queue') /\ queue'[k] = queue[k]
           /\ \A k \in 1..Len(queue') : k \in 1..Len(queue) \/ queue'[k].kind = "resolved"
<1>1. PICK s \in Sources, at \in Places :
        queue' = queue \o SetToSeq({Resolution(id, at) : id \in {i \in Ids : bound[i].source = s}})
  BY DEF Parses
<1>2. /\ bound \in Seq(Bindings) /\ Len(bound) \in Nat /\ DOMAIN bound = 1..Len(bound)
      /\ queue \in Seq(Events)
  BY LenProperties DEF Typed
<1>3. PICK B \in SUBSET (1..Len(bound)) : B = {i \in Ids : bound[i].source = s}
  BY <1>2 DEF Ids
<1>4. PICK S : S = {Resolution(id, at) : id \in B}  OBVIOUS
<1>5. IsFiniteSet(S)
  <2>1. 1 \in Int /\ Len(bound) \in Int  BY <1>2
  <2>2. IsFiniteSet(B)  BY <2>1, FS_Interval, FS_Subset
  <2>3. [i \in B |-> Resolution(i, at)] \in Surjection(B, S)  BY <1>4 DEF Surjection
  <2> QED BY <2>2, <2>3, FS_Surjection
<1>6. \A e \in S : e \in Events /\ e.kind = "resolved"
  BY <1>2, <1>4 DEF Resolution, Events, Spots
<1>7. PICK new \in Seq(S) : new = SetToSeq(S)  BY <1>5, SetToSeqLists
<1>8. new \in Seq(Events) /\ \A k \in 1..Len(new) : new[k].kind = "resolved"
  <2>1. S \subseteq Events  BY <1>6
  <2> QED BY <1>6, <2>1, SeqMonotonic, ElementOfSeq
<1>9. PICK n \in Nat, m \in Nat : n = Len(queue) /\ m = Len(new)
  BY <1>2, <1>7, LenProperties
<1>10. queue' = queue \o new  BY <1>1, <1>3, <1>4, <1>7
<1>11. /\ queue \o new \in Seq(Events) /\ Len(queue \o new) = n + m
       /\ \A k \in 1..(n + m) : (queue \o new)[k] = IF k <= n THEN queue[k] ELSE new[k - n]
  BY <1>2, <1>8, <1>9, ConcatProperties
<1>12. \A k \in 1..(n + m) : k \in 1..n \/ (~(k <= n) /\ k - n \in 1..m)  OBVIOUS
<1>13. \A k \in 1..n : k \in 1..(n + m) /\ k <= n  OBVIOUS
<1> QED BY <1>8, <1>9, <1>10, <1>11, <1>12, <1>13

\* The pause: a step that stops or resumes says so last.
LEMMA PauseTold ==
    ASSUME Typed, PauseFollows, NEW e \in Events, e.kind # "resolved", e.pause = stopped',
           queue' = Append(queue, e)
    PROVE  PauseFollows'
<1>1. /\ Len(queue) \in Nat /\ Len(queue') = Len(queue) + 1
      /\ queue'[Len(queue) + 1] = e /\ Len(queue) + 1 \in 1..Len(queue')
  BY Appended
<1>2. ASSUME NEW k \in 1..Len(queue'),
             \A j \in 1..Len(queue') : j > k => queue'[j].kind = "resolved"
      PROVE  queue'[k].pause = stopped'
  <2>1. k = Len(queue) + 1  BY <1>1, <1>2
  <2> QED BY <1>1, <2>1
<1> QED BY <1>1, <1>2 DEF PauseFollows

LEMMA PauseKept ==
    ASSUME AgentInv, PauseFollows, [Next]_vars
    PROVE  PauseFollows'
<1>0. Typed  BY DEF AgentInv
<1>1. CASE OnEvent
  <2>1. PICK e : e = Head(queue)  OBVIOUS
  <2>2. /\ Len(queue') = Len(queue) - 1 /\ 1 \in 1..Len(queue) /\ queue[1] = e
        /\ \A i \in 1..Len(queue') : queue'[i] = queue[i + 1]
    BY <1>1, <2>1, Folds
  <2>3. /\ paused' = IF e.kind = "resolved" THEN paused ELSE e.pause
        /\ stopped' = stopped
    BY <1>1, <2>1 DEF OnEvent, debuggeeVars
  <2>4. PICK n \in Nat : n = Len(queue) /\ Len(queue') = n - 1 /\ n >= 1
    BY <1>0, <2>2, LenProperties DEF Typed
  <2>5. \A k \in 1..(n - 1) : k + 1 \in 1..n  BY <2>4
  <2>6. \A j \in 1..n : j > 1 => j - 1 \in 1..(n - 1) /\ queue[j] = queue'[j - 1]
    <3> TAKE j \in 1..n
    <3> HAVE j > 1
    <3>1. j - 1 \in 1..(n - 1) /\ (j - 1) + 1 = j  OBVIOUS
    <3> QED BY <2>2, <2>4, <3>1
  <2>7. ASSUME NEW k \in 1..(n - 1), queue'[k].kind # "resolved",
               \A j \in 1..(n - 1) : j > k => queue'[j].kind = "resolved"
        PROVE  queue'[k].pause = stopped
    <3>1. queue'[k] = queue[k + 1] /\ k + 1 \in 1..n  BY <2>2, <2>4, <2>5
    <3>2. ASSUME NEW j \in 1..n, j > k + 1 PROVE queue[j].kind = "resolved"
      <4>1. j > 1 /\ j - 1 > k  BY <3>2
      <4>2. j - 1 \in 1..(n - 1) /\ queue[j] = queue'[j - 1]  BY <2>6, <4>1
      <4> QED BY <2>7, <4>1, <4>2
    <3> QED BY <2>4, <2>7, <3>1, <3>2 DEF PauseFollows
  <2>8. ASSUME \A k \in 1..(n - 1) : queue'[k].kind = "resolved"
        PROVE  paused' = stopped
    <3>1. \A j \in 1..n : j > 1 => queue[j].kind = "resolved"  BY <2>6, <2>8
    <3>2. CASE e.kind = "resolved"
      <4>1. \A j \in 1..n : j = 1 \/ j > 1  OBVIOUS
      <4>2. \A j \in 1..n : queue[j].kind = "resolved"  BY <2>2, <3>1, <3>2, <4>1
      <4> QED BY <2>3, <2>4, <3>2, <4>2 DEF PauseFollows
    <3>3. CASE e.kind # "resolved"
      <4>1. queue[1].pause = stopped  BY <2>2, <2>4, <3>1, <3>3 DEF PauseFollows
      <4> QED BY <2>2, <2>3, <3>3, <4>1
    <3> QED BY <3>2, <3>3
  <2> QED BY <2>3, <2>4, <2>7, <2>8 DEF PauseFollows
<1>2. CASE Parses
  <2>1. /\ \A k \in 1..Len(queue) : k \in 1..Len(queue') /\ queue'[k] = queue[k]
        /\ \A k \in 1..Len(queue') : k \in 1..Len(queue) \/ queue'[k].kind = "resolved"
    BY <1>0, <1>2, ParseTells
  <2>2. paused' = paused /\ stopped' = stopped  BY <1>2 DEF Parses, agentVars
  <2>3. ASSUME NEW k \in 1..Len(queue'), queue'[k].kind # "resolved",
               \A j \in 1..Len(queue') : j > k => queue'[j].kind = "resolved"
        PROVE  queue'[k].pause = stopped
    <3>1. k \in 1..Len(queue) /\ queue'[k] = queue[k]  BY <2>1, <2>3
    <3>2. \A j \in 1..Len(queue) : j > k => queue[j].kind = "resolved"  BY <2>1, <2>3
    <3> QED BY <2>3, <3>1, <3>2 DEF PauseFollows
  <2>4. ASSUME \A k \in 1..Len(queue') : queue'[k].kind = "resolved"
        PROVE  paused = stopped
    <3>1. \A k \in 1..Len(queue) : queue[k].kind = "resolved"  BY <2>1, <2>4
    <3> QED BY <3>1 DEF PauseFollows
  <2> QED BY <2>2, <2>3, <2>4 DEF PauseFollows
<1>3. ASSUME NEW e, StopsFor(e), e \in Events, e.kind # "resolved", e.pause = counts.pauses + 1
      PROVE  PauseFollows'
  BY <1>0, <1>3, PauseTold DEF StopsFor
<1>4. CASE StopsAtLine
  <2>1. PICK id \in Ids : StopsFor(Pause(counts.pauses + 1, id, NoRow))
    BY <1>4 DEF StopsAtLine
  <2>2. PICK e : e = Pause(counts.pauses + 1, id, NoRow)  OBVIOUS
  <2>3. e \in Events /\ e.kind # "resolved" /\ e.pause = counts.pauses + 1
    <3>1. id \in Nat  BY <1>0, LenProperties DEF Typed, Ids
    <3>2. counts.pauses + 1 \in Nat  BY <1>0 DEF Typed, Counts
    <3> QED BY <2>2, <3>1, <3>2 DEF Pause, Events, Spots
  <2> QED BY <1>3, <2>1, <2>2, <2>3
<1>5. CASE StopsOtherwise
  <2>1. StopsFor(Pause(counts.pauses + 1, NoId, NoRow))  BY <1>5 DEF StopsOtherwise
  <2>2. PICK e : e = Pause(counts.pauses + 1, NoId, NoRow)  OBVIOUS
  <2>3. e \in Events /\ e.kind # "resolved" /\ e.pause = counts.pauses + 1
    <3>2. counts.pauses + 1 \in Nat  BY <1>0 DEF Typed, Counts
    <3> QED BY <2>2, <3>2 DEF Pause, Events, Spots, NoId
  <2> QED BY <1>3, <2>1, <2>2, <2>3
<1>6. CASE RemovesNode
  <2>1. PICK n \in alive : IF [node |-> n, kind |-> NodeRemoved] \in held
                           THEN StopsFor(Pause(counts.pauses + 1, NoId, n))
                           ELSE UNCHANGED <<stopped, counts, queue>>
    BY <1>6 DEF RemovesNode
  <2>2. CASE StopsFor(Pause(counts.pauses + 1, NoId, n))
    <3>1. PICK e : e = Pause(counts.pauses + 1, NoId, n)  OBVIOUS
    <3>2. counts.pauses + 1 \in Nat  BY <1>0 DEF Typed, Counts
    <3>3. n \in Nodes  BY DEF AgentInv, Departed
    <3>4. e \in Events /\ e.kind # "resolved" /\ e.pause = counts.pauses + 1
      BY <3>1, <3>2, <3>3 DEF Pause, Events, Spots, NoId
    <3> QED BY <1>3, <2>2, <3>1, <3>4
  <2>3. CASE UNCHANGED <<stopped, counts, queue>>
    <3>1. paused' = paused  BY <1>6 DEF RemovesNode, agentVars
    <3> QED BY <2>3, <3>1 DEF PauseFollows
  <2> QED BY <2>1, <2>2, <2>3
<1>7. CASE Resumes \/ Reloads
  <2>1. queue' = Append(queue, Continued) /\ stopped' = 0
    BY <1>7 DEF Resumes, Reloads
  <2>2. Continued \in Events /\ Continued.kind # "resolved" /\ Continued.pause = 0
    BY DEF Continued, Events, Spots, NoId
  <2> QED BY <1>0, <2>1, <2>2, PauseTold
<1>8. CASE UNCHANGED <<queue, paused, stopped>>  BY <1>8 DEF PauseFollows
<1>9. \/ OnEvent \/ Parses \/ StopsAtLine \/ StopsOtherwise \/ RemovesNode \/ Resumes \/ Reloads
      \/ UNCHANGED <<queue, paused, stopped>>
  <2>1. SetBreakpointByUrl \/ FinishLine \/ AskRow \/ FinishRow => UNCHANGED <<queue, paused, stopped>>
    BY DEF SetBreakpointByUrl, FinishLine, AskRow, FinishRow, debuggeeVars, agentVars
  <2>2. AnswersLine \/ AnswersRow \/ Refuses \/ UNCHANGED vars => UNCHANGED <<queue, paused, stopped>>
    BY DEF AnswersLine, AnswersRow, Refuses, vars, debuggeeVars, agentVars
  <2> QED BY <2>1, <2>2 DEF Next
<1> QED BY <1>1, <1>2, <1>4, <1>5, <1>6, <1>7, <1>8, <1>9

\* Where nothing but the call and the rows changes, the hits stay.
LEMMA QuietHits ==
    ASSUME HitsFollow, UNCHANGED <<all, hits, queue>>, Len(bound') = Len(bound)
    PROVE  HitsFollow'
<1>1. \A id : (Named(id))' <=> Named(id)  BY DEF Named
<1> QED BY <1>1 DEF HitsFollow

\* An event that is no hit changes no count.
LEMMA NoHitTold ==
    ASSUME Typed, HitsFollow, NEW e \in Events, e.id = NoId, queue' = Append(queue, e),
           UNCHANGED <<all, hits>>, Len(bound') = Len(bound)
    PROVE  HitsFollow'
<1>1. \A id : (Named(id))' <=> Named(id)  BY DEF Named
<1>2. /\ Len(queue) \in Nat /\ Len(queue') = Len(queue) + 1
      /\ \A i \in 1..Len(queue) : queue'[i] = queue[i]
      /\ queue'[Len(queue) + 1] = e
  BY Appended
<1>3. \A k \in 1..Len(queue') : k \in 1..Len(queue) \/ queue'[k] = e  BY <1>2
<1>4. bound \in Seq(Bindings) /\ Len(bound) \in Nat /\ queue \in Seq(Events)
  BY LenProperties DEF Typed
<1>5. \A k \in 1..Len(queue') : queue'[k].kind = "paused" => queue'[k].id \in 0..Len(bound)
  BY <1>2, <1>3, <1>4 DEF HitsFollow, NoId
<1>6. \A id \in 1..Len(bound) : Waiting(queue', id) = Waiting(queue, id)
  <2> TAKE id \in 1..Len(bound)
  <2>1. e.id # id  BY <1>4 DEF NoId
  <2> QED BY <1>4, <2>1, OneMoreWaits
<1>7. \A id \in 1..Len(bound) :
        /\ \A i \in 1..Len(all) : all[i].id = id => all[i].hits + Waiting(queue', id) = hits[id]
        /\ ~Named(id) => Waiting(queue', id) = hits[id]
  BY <1>6, Zenon DEF HitsFollow
<1> QED BY <1>1, <1>5, <1>7 DEF HitsFollow

LEMMA HitsKept ==
    ASSUME AgentInv, HitsFollow, [Next]_vars
    PROVE  HitsFollow'
<1>0. /\ Typed /\ IdsFollow
      /\ all \in Seq(Bps) /\ bound \in Seq(Bindings) /\ queue \in Seq(Events)
      /\ Len(all) \in Nat /\ Len(bound) \in Nat /\ Len(queue) \in Nat
      /\ DOMAIN bound = 1..Len(bound)
  BY LenProperties DEF AgentInv, Typed, StoreFollows
<1>1. CASE SetBreakpointByUrl
  <2>1. PICK s \in Sources, enabled \in BOOLEAN : Insert(New(s, enabled))
    BY <1>1 DEF SetBreakpointByUrl
  <2>2. PICK bp : bp = New(s, enabled)  OBVIOUS
  <2>3. bp = [id |-> 0, source |-> s, at |-> NoPlace, hits |-> 0,
              state |-> IF enabled THEN "pending" ELSE "disabled"]
    BY <2>2 DEF New, NoId
  <2>4. bp \in Bps /\ bp.id = 0 /\ bp.hits = 0  BY <2>3 DEF Bps, States, Spots
  <2>5. all' = Append(all, bp) /\ UNCHANGED <<hits, queue, bound>>
    BY <1>1, <2>1, <2>2 DEF Insert, SetBreakpointByUrl, debuggeeVars
  <2>6. /\ Len(all') = Len(all) + 1 /\ all'[Len(all) + 1] = bp
        /\ \A i \in 1..Len(all) : all'[i] = all[i]
    BY <1>0, <2>4, <2>5, AppendProperties
  <2>7. \A i \in 1..Len(all') : i \in 1..Len(all) \/ i = Len(all) + 1  BY <1>0, <2>6
  <2>8. \A i \in 1..Len(all) : i \in 1..Len(all')  BY <1>0, <2>6
  <2>9. \A id \in 1..Len(bound) : (Named(id))' <=> Named(id)
    BY <2>4, <2>6, <2>7, <2>8 DEF Named
  <2>10. \A i \in 1..Len(all') : all'[i].id = 0 => all'[i].hits = 0
    BY <2>4, <2>6, <2>7 DEF HitsFollow, NoId
  <2>11. \A id \in 1..Len(bound) : \A i \in 1..Len(all') :
           all'[i].id = id => i \in 1..Len(all) /\ all'[i] = all[i]
    BY <2>4, <2>6, <2>7
  <2>12. \A id \in 1..Len(bound) : \A i \in 1..Len(all') :
           all'[i].id = id => all'[i].hits + Waiting(queue, id) = hits[id]
    BY <2>11 DEF HitsFollow
  <2> QED BY <2>5, <2>9, <2>10, <2>12 DEF HitsFollow, NoId
<1>2. CASE FinishLine
  <2>1. PICK n \in 1..Len(all) : n = call.index  BY <1>2, FinishedLine
  <2>2. /\ all[n].id = 0 /\ Len(all') = Len(all)
        /\ \A i \in 1..Len(all) : i # n => all'[i] = all[i]
        /\ all'[n].hits = all[n].hits
        /\ ~call.ok => all'[n].id = 0
        /\ call.ok => all'[n].id = call.id
    BY <1>2, <2>1, FinishedLine
  <2>3. UNCHANGED <<bound, hits, queue>> /\ call.step = "answered" /\ call.kind = "line"
    BY <1>2 DEF FinishLine, debuggeeVars
  <2>4. call.ok => call.id \in 1..Len(bound) /\ ~Named(call.id)
    BY <2>3 DEF AgentInv, StoreFollows, AskingForOne, Answering
  <2>5. all'[n].hits = 0  BY <2>2 DEF HitsFollow, NoId
  <2>6. \A i \in 1..Len(all') : all'[i].id = 0 => all'[i].hits = 0
    BY <2>2, <2>5 DEF HitsFollow, NoId
  <2>7. ASSUME NEW id \in 1..Len(bound), NEW i \in 1..Len(all'), all'[i].id = id
        PROVE  all'[i].hits + Waiting(queue, id) = hits[id]
    <3>1. Waiting(queue, id) \in Nat  BY <1>0, WaitingIsFinite
    <3>2. CASE i = n
      <4>1. call.ok /\ call.id = id  BY <2>2, <2>7, <3>2
      <4>2. Waiting(queue, id) = hits[id]  BY <2>4, <4>1 DEF HitsFollow
      <4> QED BY <2>5, <3>1, <3>2, <4>2
    <3>3. CASE i # n
      <4>1. all'[i] = all[i] /\ i \in 1..Len(all)  BY <2>2, <3>3
      <4> QED BY <2>7, <4>1 DEF HitsFollow
    <3> QED BY <3>2, <3>3
  <2>8. ASSUME NEW id \in 1..Len(bound), ~(Named(id))' PROVE Waiting(queue, id) = hits[id]
    <3>1. ~Named(id)
      <4> SUFFICES ASSUME NEW i \in 1..Len(all), all[i].id = id PROVE FALSE
        BY DEF Named
      <4>1. i # n  BY <2>2
      <4>2. all'[i].id = id /\ i \in 1..Len(all')  BY <2>2, <4>1
      <4> QED BY <2>8, <4>2 DEF Named
    <3> QED BY <3>1 DEF HitsFollow
  <2> QED BY <2>3, <2>6, <2>7, <2>8 DEF HitsFollow, NoId
<1>3. CASE OnEvent
  <2>1. PICK e : e = Head(queue)  OBVIOUS
  <2>2. /\ e \in Events /\ queue' \in Seq(Events) /\ Len(queue') = Len(queue) - 1
        /\ \A i \in 1..Len(queue') : queue'[i] = queue[i + 1]
        /\ 1 \in 1..Len(queue) /\ queue[1] = e
        /\ \A id \in 1..Len(bound) : Named(id)
        /\ Len(all') = Len(all)
        /\ \A j \in 1..Len(all) : all'[j].id = all[j].id
        /\ \A j \in 1..Len(all) :
             all'[j].hits = IF e.kind = "paused" /\ e.id # 0 /\ all[j].id = e.id
                            THEN all[j].hits + 1 ELSE all[j].hits
    <3>1. OnEvent  BY <1>3
    <3>2. /\ e \in Events /\ queue' \in Seq(Events) /\ Len(queue') = Len(queue) - 1
          /\ \A i \in 1..Len(queue') : queue'[i] = queue[i + 1]
          /\ 1 \in 1..Len(queue) /\ queue[1] = e
      BY <2>1, <3>1, Folds
    <3>3. /\ \A id \in 1..Len(bound) : Named(id)
          /\ Len(all') = Len(all)
          /\ \A j \in 1..Len(all) : all'[j].id = all[j].id
      BY <2>1, <3>1, Folds
    <3>4. \A j \in 1..Len(all) :
             all'[j].hits = IF e.kind = "paused" /\ e.id # 0 /\ all[j].id = e.id
                            THEN all[j].hits + 1 ELSE all[j].hits
      BY <2>1, <3>1, Folds
    <3> QED BY <3>2, <3>3, <3>4
  <2>3. UNCHANGED <<bound, hits>>  BY <1>3 DEF OnEvent, debuggeeVars
  <2>4. \A id : (Named(id))' <=> Named(id)  BY <2>2 DEF Named
  <2>5. \A k \in 1..Len(queue') : queue'[k].kind = "paused" => queue'[k].id \in 0..Len(bound)
    <3>1. \A k \in 1..Len(queue') : k + 1 \in 1..Len(queue)  BY <1>0, <2>2
    <3> QED BY <2>2, <3>1 DEF HitsFollow
  <2>6. \A i \in 1..Len(all') : all'[i].id = 0 => all'[i].hits = 0
    <3> SUFFICES ASSUME NEW i \in 1..Len(all'), all'[i].id = 0 PROVE all'[i].hits = 0
      OBVIOUS
    <3>1. i \in 1..Len(all) /\ all[i].id = 0  BY <2>2
    <3>2. all[i].hits = 0  BY <3>1 DEF HitsFollow, NoId
    <3>3. ~(e.id # 0 /\ all[i].id = e.id)  BY <3>1
    <3> QED BY <2>2, <3>1, <3>2, <3>3
  <2>7. ASSUME NEW id \in 1..Len(bound), NEW i \in 1..Len(all'), all'[i].id = id
        PROVE  all'[i].hits + Waiting(queue', id) = hits[id]
    <3>1. i \in 1..Len(all) /\ all[i].id = id /\ id # 0  BY <2>2, <2>7
    <3>2. all[i].hits + Waiting(queue, id) = hits[id]  BY <3>1 DEF HitsFollow
    <3>3. Waiting(queue, id) = IF e.kind = "paused" /\ e.id = id
                               THEN Waiting(queue', id) + 1 ELSE Waiting(queue', id)
      <4>1. PICK rest \in Seq(Events) : rest = queue'  BY <2>2
      <4>2. Len(rest) = Len(queue) - 1 /\ \A k \in 1..Len(rest) : rest[k] = queue[k + 1]
        BY <2>2, <4>1
      <4>3. Waiting(queue, id) = IF queue[1].kind = "paused" /\ queue[1].id = id
                                 THEN Waiting(rest, id) + 1 ELSE Waiting(rest, id)
        <5>1. queue \in Seq(Events) /\ 1 \in 1..Len(queue)  BY <1>0, <2>2
        <5> QED BY <4>2, <5>1, OneLessWaits
      <4> QED BY <2>2, <4>1, <4>3
    <3>4. PICK w \in Nat : w = Waiting(queue', id)  BY <2>2, WaitingIsFinite
    <3>5. PICK h \in Nat : h = all[i].hits
      <4>1. all[i] \in Bps  BY <1>0, <3>1, ElementOfSeq
      <4> QED BY <4>1 DEF Bps
    <3>6. CASE e.kind = "paused" /\ e.id = id
      <4>1. all'[i].hits = h + 1 /\ Waiting(queue, id) = w + 1
        BY <2>2, <3>1, <3>3, <3>4, <3>5, <3>6
      <4> QED BY SMTT(30), <3>2, <3>4, <3>5, <4>1
    <3>7. CASE ~(e.kind = "paused" /\ e.id = id)
      <4>1. all'[i].hits = h /\ Waiting(queue, id) = w
        BY <2>2, <3>1, <3>3, <3>4, <3>5, <3>7
      <4> QED BY <3>2, <3>4, <3>5, <4>1
    <3> QED BY <3>6, <3>7
  <2>8. hits' \in Seq(Nat) /\ Len(hits') = Len(bound')  BY <2>3 DEF HitsFollow
  <2> QED BY <2>2, <2>3, <2>4, <2>5, <2>6, <2>7, <2>8 DEF HitsFollow, NoId
<1>4. CASE AnswersLine
  <2>1. PICK s, at : bound' = Append(bound, [source |-> s, at |-> at])
                     /\ [source |-> s, at |-> at] \in Bindings
    <3>1. PICK s : s = all[call.index].source  OBVIOUS
    <3>2. PICK at \in IF s \in parsed THEN Places ELSE {NoPlace} :
            bound' = Append(bound, [source |-> s, at |-> at])
      BY <1>4, <3>1 DEF AnswersLine
    <3>3. call.kind = "line"  BY <1>4 DEF AnswersLine
    <3>4. call.index \in 1..Len(all)  BY <3>3 DEF AgentInv, StoreFollows, AskingForOne
    <3>5. s \in Sources
      <4>1. all[call.index] \in Bps  BY <1>0, <3>4, ElementOfSeq
      <4> QED BY <3>1, <4>1 DEF Bps
    <3>6. at \in Spots  BY <3>2 DEF Spots
    <3> QED BY <3>2, <3>5, <3>6 DEF Bindings
  <2>2. Len(bound') = Len(bound) + 1  BY <1>0, <2>1, AppendProperties
  <2>3. hits' = Append(hits, 0) /\ UNCHANGED <<all, queue>>
    BY <1>4 DEF AnswersLine, agentVars
  <2>4. /\ hits' \in Seq(Nat) /\ Len(hits') = Len(bound) + 1 /\ hits'[Len(bound) + 1] = 0
        /\ \A id \in 1..Len(bound) : hits'[id] = hits[id]
    BY <1>0, <2>3, AppendProperties DEF HitsFollow
  <2>5. \A id : (Named(id))' <=> Named(id)  BY <2>3 DEF Named
  <2>6. PICK m \in Nat : m = Len(bound) + 1 /\ m > Len(bound)  BY <1>0
  <2>7. \A i \in 1..Len(all) : all[i].id # m  BY <1>0, <2>6 DEF IdsFollow
  <2>8. Waiting(queue, m) = 0
    <3>1. PausesAt(queue, m) = {}
      <4>1. \A k \in 1..Len(queue) : queue[k].kind = "paused" => queue[k].id # m
        BY <1>0, <2>6 DEF HitsFollow
      <4> QED BY <1>0, <4>1, LenProperties DEF PausesAt
    <3> QED BY <3>1, FS_EmptySet DEF Waiting
  <2>9. \A id \in 1..m : id \in 1..Len(bound) \/ id = m  BY <1>0, <2>6
  <2>10. ASSUME NEW id \in 1..m
         PROVE  /\ \A i \in 1..Len(all) : all[i].id = id => all[i].hits + Waiting(queue, id) = hits'[id]
                /\ ~Named(id) => Waiting(queue, id) = hits'[id]
    <3>1. CASE id \in 1..Len(bound)  BY <2>4, <3>1 DEF HitsFollow
    <3>2. CASE id = m  BY <2>4, <2>6, <2>7, <2>8, <3>2
    <3> QED BY <2>9, <3>1, <3>2
  <2>11. \A k \in 1..Len(queue) : queue[k].kind = "paused" => queue[k].id \in 0..m
    BY <1>0, <2>6 DEF HitsFollow
  <2>12. \A i \in 1..Len(all) : all[i].id = NoId => all[i].hits = 0  BY DEF HitsFollow
  <2> QED BY <2>2, <2>3, <2>4, <2>5, <2>6, <2>10, <2>11, <2>12 DEF HitsFollow
<1>5. CASE Parses
  <2>1. /\ \A k \in 1..Len(queue) : k \in 1..Len(queue') /\ queue'[k] = queue[k]
        /\ \A k \in 1..Len(queue') : k \in 1..Len(queue) \/ queue'[k].kind = "resolved"
        /\ queue' \in Seq(Events)
    BY <1>0, <1>5, ParseTells
  <2>2. UNCHANGED <<all, hits>>  BY <1>5 DEF Parses, agentVars
  <2>3. bound' \in Seq(Bindings) /\ Len(bound') = Len(bound)
    <3>1. PICK s, at : bound' = [id \in DOMAIN bound |-> IF bound[id].source = s
                                   THEN [source |-> s, at |-> at] ELSE bound[id]]
      <4>1. PICK s \in Sources, at \in Places :
              bound' = [id \in Ids |-> IF bound[id].source = s
                                       THEN [source |-> s, at |-> at] ELSE bound[id]]
        BY <1>5 DEF Parses
      <4> QED BY <4>1 DEF Ids
    <3>2. DOMAIN bound' = 1..Len(bound)  BY <1>0, <3>1
    <3>3. bound' \in Seq(Bindings)  BY <1>5, ParsesKeeps DEF AgentInv, Typed
    <3> QED BY <1>0, <3>2, <3>3, LenProperties
  <2>4. \A id : (Named(id))' <=> Named(id)  BY <2>2 DEF Named
  <2>5. \A id : Waiting(queue', id) = Waiting(queue, id)
    <3> TAKE id
    <3>1. PausesAt(queue', id) = PausesAt(queue, id)
      <4>1. DOMAIN queue' = 1..Len(queue') /\ DOMAIN queue = 1..Len(queue)
        BY <1>0, <2>1, LenProperties
      <4> QED BY <2>1, <4>1 DEF PausesAt
    <3> QED BY <3>1 DEF Waiting
  <2>6. \A k \in 1..Len(queue') : queue'[k].kind = "paused" => queue'[k].id \in 0..Len(bound)
    BY <2>1 DEF HitsFollow
  <2>7. \A id \in 1..Len(bound) :
          /\ \A i \in 1..Len(all) : all[i].id = id => all[i].hits + Waiting(queue', id) = hits[id]
          /\ ~Named(id) => Waiting(queue', id) = hits[id]
    BY <2>5, Zenon DEF HitsFollow
  <2> QED BY <2>2, <2>3, <2>4, <2>6, <2>7 DEF HitsFollow
<1>6. CASE StopsAtLine
  <2>1. PICK m \in Ids : /\ StopsFor(Pause(counts.pauses + 1, m, NoRow))
                         /\ hits' = [hits EXCEPT ![m] = @ + 1]
                         /\ UNCHANGED <<bound, all>>
    BY <1>6 DEF StopsAtLine, agentVars
  <2>2. PICK e : e = Pause(counts.pauses + 1, m, NoRow)  OBVIOUS
  <2>3. m \in 1..Len(bound)  BY <1>0 DEF Ids
  <2>4. e \in Events /\ e.kind = "paused" /\ e.id = m
    <3>1. counts.pauses + 1 \in Nat  BY <1>0 DEF Typed, Counts
    <3> QED BY <1>0, <2>2, <2>3, <3>1 DEF Pause, Events, Spots
  <2>5. queue' = Append(queue, e)  BY <2>1, <2>2 DEF StopsFor
  <2>6. /\ Len(queue') = Len(queue) + 1 /\ queue'[Len(queue) + 1] = e
        /\ \A i \in 1..Len(queue) : queue'[i] = queue[i]
    BY <1>0, <2>4, <2>5, Appended
  <2>7. \A k \in 1..Len(queue') : k \in 1..Len(queue) \/ k = Len(queue) + 1
    BY <1>0, <2>6
  <2>8. \A k \in 1..Len(queue') : queue'[k].kind = "paused" => queue'[k].id \in 0..Len(bound)
    <3>1. \A k \in 1..Len(queue) : queue'[k].kind = "paused" => queue'[k].id \in 0..Len(bound)
      BY <2>6 DEF HitsFollow
    <3>2. queue'[Len(queue) + 1].id \in 0..Len(bound)  BY <1>0, <2>3, <2>4, <2>6
    <3> QED BY <2>7, <3>1, <3>2
  <2>9. /\ hits' \in Seq(Nat) /\ Len(hits') = Len(bound)
        /\ \A id \in 1..Len(bound) : hits'[id] = (IF id = m THEN hits[id] + 1 ELSE hits[id])
    <3>1. hits \in Seq(Nat) /\ Len(hits) = Len(bound)  BY DEF HitsFollow
    <3>2. hits[m] \in Nat /\ hits[m] + 1 \in Nat  BY <2>3, <3>1, ElementOfSeq
    <3>3. hits' = [hits EXCEPT ![m] = hits[m] + 1]  BY <2>1
    <3> QED BY <2>3, <3>1, <3>2, <3>3, ExceptSeq
  <2>10. \A id : (Named(id))' <=> Named(id)  BY <2>1 DEF Named
  <2>11. ASSUME NEW id \in 1..Len(bound)
         PROVE  /\ \A i \in 1..Len(all) : all[i].id = id => all[i].hits + Waiting(queue', id) = hits'[id]
                /\ ~Named(id) => Waiting(queue', id) = hits'[id]
    <3>1. PICK w \in Nat : w = Waiting(queue, id)  BY <1>0, WaitingIsFinite
    <3>2. Waiting(queue', id) = IF m = id THEN w + 1 ELSE w
      BY <1>0, <2>4, <2>5, <3>1, OneMoreWaits
    <3>3. /\ \A i \in 1..Len(all) : all[i].id = id => all[i].hits + w = hits[id]
          /\ ~Named(id) => w = hits[id]
      BY <3>1 DEF HitsFollow
    <3>4. \A i \in 1..Len(all) : all[i].hits \in Nat
      <4>1. \A i \in 1..Len(all) : all[i] \in Bps  BY <1>0, ElementOfSeq
      <4> QED BY <4>1 DEF Bps
    <3>5. CASE id = m
      <4>1. Waiting(queue', id) = w + 1 /\ hits'[id] = hits[id] + 1  BY <2>9, <3>2, <3>5
      <4>2. \A i \in 1..Len(all) : all[i].id = id => all[i].hits + (w + 1) = hits[id] + 1
        <5> SUFFICES ASSUME NEW i \in 1..Len(all), all[i].id = id
                     PROVE  all[i].hits + (w + 1) = hits[id] + 1
          OBVIOUS
        <5>1. PICK x \in Nat : x = all[i].hits  BY <3>4
        <5>2. x + w = hits[id]  BY <3>3, <5>1
        <5> QED BY SMTT(30), <5>1, <5>2
      <4>3. ~Named(id) => w + 1 = hits[id] + 1  BY <3>3
      <4> QED BY <4>1, <4>2, <4>3
    <3>6. CASE id # m  BY <2>9, <3>2, <3>3, <3>6
    <3> QED BY <3>5, <3>6
  <2>12. \A i \in 1..Len(all) : all[i].id = NoId => all[i].hits = 0  BY DEF HitsFollow
  <2> QED BY <2>1, <2>8, <2>9, <2>10, <2>11, <2>12 DEF HitsFollow
<1>7. CASE StopsOtherwise
  <2>1. StopsFor(Pause(counts.pauses + 1, NoId, NoRow)) /\ UNCHANGED <<all, hits, bound>>
    BY <1>7 DEF StopsOtherwise, agentVars
  <2>2. PICK e : e = Pause(counts.pauses + 1, NoId, NoRow)  OBVIOUS
  <2>3. counts.pauses + 1 \in Nat  BY <1>0 DEF Typed, Counts
  <2>4. e \in Events /\ e.id = NoId  BY <2>2, <2>3 DEF Pause, Events, Spots, NoId
  <2>5. queue' = Append(queue, e)  BY <2>1, <2>2 DEF StopsFor
  <2> QED BY <1>0, <2>1, <2>4, <2>5, NoHitTold
<1>8. CASE RemovesNode
  <2>1. PICK n \in alive : IF [node |-> n, kind |-> NodeRemoved] \in held
                           THEN StopsFor(Pause(counts.pauses + 1, NoId, n))
                           ELSE UNCHANGED <<stopped, counts, queue>>
    BY <1>8 DEF RemovesNode
  <2>2. UNCHANGED <<all, hits, bound>>  BY <1>8 DEF RemovesNode, agentVars
  <2>3. CASE StopsFor(Pause(counts.pauses + 1, NoId, n))
    <3>1. PICK e : e = Pause(counts.pauses + 1, NoId, n)  OBVIOUS
    <3>2. counts.pauses + 1 \in Nat  BY <1>0 DEF Typed, Counts
    <3>3. n \in Nodes  BY DEF AgentInv, Departed
    <3>4. e \in Events /\ e.id = NoId  BY <3>1, <3>2, <3>3 DEF Pause, Events, Spots, NoId
    <3>5. queue' = Append(queue, e)  BY <2>3, <3>1 DEF StopsFor
    <3> QED BY <1>0, <2>2, <3>4, <3>5, NoHitTold
  <2>4. CASE UNCHANGED <<stopped, counts, queue>>  BY <2>2, <2>4, QuietHits
  <2> QED BY <2>1, <2>3, <2>4
<1>9. CASE Resumes \/ Reloads
  <2>1. queue' = Append(queue, Continued) /\ UNCHANGED <<all, hits>>
    BY <1>9 DEF Resumes, Reloads, agentVars
  <2>2. Continued \in Events /\ Continued.id = NoId
    BY DEF Continued, Events, Spots, NoId
  <2>3. Len(bound') = Len(bound)
    <3>1. CASE Resumes  BY <3>1 DEF Resumes
    <3>2. CASE Reloads
      <4>1. DOMAIN bound' = 1..Len(bound)  BY <1>0, <3>2 DEF Reloads, Ids
      <4>2. bound' \in Seq(Bindings)  BY <3>2, ReloadsKeeps DEF AgentInv, Typed
      <4> QED BY <1>0, <4>1, <4>2, LenProperties
    <3> QED BY <1>9, <3>1, <3>2
  <2> QED BY <1>0, <2>1, <2>2, <2>3, NoHitTold
<1>10. CASE AskRow \/ FinishRow \/ AnswersRow \/ Refuses \/ UNCHANGED vars
  <2>1. UNCHANGED <<all, hits, queue, bound>>
    BY <1>10 DEF AskRow, FinishRow, AnswersRow, Refuses, vars, debuggeeVars, agentVars
  <2> QED BY <2>1, QuietHits
<1> QED BY <1>1, <1>2, <1>3, <1>4, <1>5, <1>6, <1>7, <1>8, <1>9, <1>10 DEF Next

\* Every stop at a breakpoint is counted once and at that breakpoint, or waits
\* to be; the gutter's index says what the list says; and with nothing under
\* way the agent shows the pause the debuggee is in.
\* [record_hit, reindex, handle_paused, handle_execution_continued]
THEOREM HitsAlwaysCounted == Spec => []HitsAreCounted
<1>1. Init => CountInv
  <2> SUFFICES ASSUME Init PROVE CountInv
    OBVIOUS
  <2>1. /\ bound = <<>> /\ hits = <<>> /\ queue = <<>> /\ all = <<>> /\ paused = 0 /\ stopped = 0
        /\ bySource = [s \in Sources |-> <<>>]
    BY DEF Init
  <2>2. \A S : <<>> \in Seq(S) /\ Len(<<>>) = 0 /\ DOMAIN <<>> = {}
    BY EmptySeq
  <2>3. IndexFollows  BY <2>1, ExcerptOfNothing DEF IndexFollows, Reindexed
  <2>4. HitsFollow  BY <2>1, <2>2 DEF HitsFollow
  <2>5. PauseFollows  BY <2>1, <2>2 DEF PauseFollows
  <2> QED BY <2>3, <2>4, <2>5 DEF CountInv
<1>2. AgentInv /\ CountInv /\ [Next]_vars => CountInv'
  <2>1. AgentInv => Typed  BY DEF AgentInv
  <2> QED BY <2>1, IndexKept, HitsKept, PauseKept DEF CountInv
<1>3. AgentInv /\ CountInv => HitsAreCounted
  <2> SUFFICES ASSUME AgentInv, CountInv PROVE HitsAreCounted
    OBVIOUS
  <2>1. bySource = Reindexed(all)  BY DEF CountInv, IndexFollows
  <2>2. /\ all \in Seq(Bps) /\ Len(all) \in Nat /\ DOMAIN all = 1..Len(all)
        /\ queue \in Seq(Events) /\ DOMAIN bound = 1..Len(bound) /\ Len(bound) \in Nat
    BY LenProperties DEF AgentInv, Typed
  <2>3. IdsFollow /\ HitsFollow /\ PauseFollows  BY DEF AgentInv, StoreFollows, CountInv
  <2>4. ASSUME NEW id \in 1..Len(bound)
        PROVE  (IF FindIndex(all, id) = 0 THEN 0 ELSE all[FindIndex(all, id)].hits)
                 + Waiting(queue, id) = hits[id]
    <3>1. Waiting(queue, id) \in Nat  BY <2>2, WaitingIsFinite
    <3>2. CASE Named(id)
      <4>1. PICK i \in 1..Len(all) : all[i].id = id  BY <3>2 DEF Named
      <4>2. \A j \in 1..Len(all) : all[j].id = id => j = i
        BY <2>2, <2>3, <4>1 DEF IdsFollow, NoId
      <4>3. FindIndex(all, id) = i /\ i # 0  BY <2>2, <4>1, <4>2, FindsIt
      <4> QED BY <2>3, <4>1, <4>3 DEF HitsFollow
    <3>3. CASE ~Named(id)
      <4>1. FindIndex(all, id) = 0  BY <2>2, <3>3 DEF Named, FindIndex
      <4> QED BY <2>3, <3>1, <3>3, <4>1 DEF HitsFollow
    <3> QED BY <3>2, <3>3
  <2>5. Settled => paused = stopped
    <3> SUFFICES ASSUME queue = <<>> PROVE paused = stopped
      BY DEF Settled
    <3>1. \A k \in 1..Len(queue) : queue[k].kind = "resolved"  BY EmptySeq
    <3> QED BY <2>3, <3>1 DEF PauseFollows
  <2> QED BY <2>1, <2>2, <2>4, <2>5 DEF HitsAreCounted, Ids, Waiting, PausesAt
<1> QED BY <1>1, <1>2, <1>3, InvariantHolds, PTL DEF Spec

-----------------------------------------------------------------------------
(* Clicks *)

\* A sequence and whatever is appended to it.
LEMMA AppendAny ==
    ASSUME NEW S, NEW list \in Seq(S), NEW x
    PROVE  LET more == Append(list, x) IN
           /\ \E R : more \in Seq(R)
           /\ Len(more) = Len(list) + 1 /\ more[Len(list) + 1] = x
           /\ \A i \in 1..Len(list) : more[i] = list[i]
<1>1. PICK R : R = S \cup {x}  OBVIOUS
<1>2. list \in Seq(R)  BY <1>1, SeqMonotonic
<1> QED BY <1>1, <1>2, AppendProperties

-----------------------------------------------------------------------------
(* Marks *)

IsMark(bp) ==
    bp = [id |-> bp.id, asked |-> bp.asked, actual |-> bp.actual,
          condition |-> bp.condition, action |-> bp.action]
IsRequest(r) ==
    /\ r = [what |-> r.what, place |-> r.place, of |-> r.of, value |-> r.value]
    /\ r.what \in {"none", "toggle", "remove"} \cup MarkEdits
    /\ r.what = "none" => r = NoEdit

Apart(bps) ==
    \A i, j \in 1..Len(bps) : bps[i].asked = bps[j].asked \/ bps[i].id = bps[j].id => i = j

\* Breakpoints with ids up to a number.
Listed(bps, n) ==
    /\ \E S : bps \in Seq(S)
    /\ \A i \in 1..Len(bps) : /\ IsMark(bps[i]) /\ bps[i].id \in 1..n
                              /\ bps[i].action \in {Unset, "logpoint", "probe"}

LEMMA FindIsUnique ==
    ASSUME NEW n \in Nat, NEW bps, Listed(bps, n), Apart(bps), NEW i \in 1..Len(bps)
    PROVE  AskedAt(bps, bps[i].asked) = {i} /\ Find(bps, bps[i].asked) = i
<1>1. PICK S : bps \in Seq(S)  BY DEF Listed
<1>2. PICK L \in Nat : L = Len(bps)  BY <1>1, LenProperties
<1>3. PICK a : a = bps[i].asked  OBVIOUS
<1>4. AskedAt(bps, a) = {i}  BY <1>3 DEF AskedAt, Apart
<1>5. i <= i  BY <1>2
<1>6. Find(bps, a) = i  BY <1>4, <1>5 DEF Find
<1> QED BY <1>3, <1>4, <1>6

\* A removed breakpoint is not there, and the others are.
LEMMA RemovedIsListed ==
    ASSUME NEW n \in Nat, NEW bps, Listed(bps, n), Apart(bps), NEW k \in 1..Len(bps)
    PROVE  LET rest == RemoveLineBp(bps, bps[k].asked) IN
           /\ Listed(rest, n) /\ Apart(rest)
           /\ MarkIds(rest) = MarkIds(bps) \ {bps[k].id}
           /\ rest = Excerpt(bps, (1..Len(bps)) \ {k})
<1>1. PICK S : bps \in Seq(S)  BY DEF Listed
<1>2. PICK L \in Nat : L = Len(bps)  BY <1>1, LenProperties
<1>3. PICK P : P = (1..L) \ {k}  OBVIOUS
<1>4. PICK rest : rest = RemoveLineBp(bps, bps[k].asked)  OBVIOUS
<1>5. rest = Excerpt(bps, P)  BY <1>2, <1>3, <1>4, FindIsUnique DEF RemoveLineBp
<1>6. Distinct(bps)  BY DEF Distinct, Apart
<1>7. /\ rest \in Seq(S) /\ Distinct(rest)
      /\ \A x : InList(rest, x) <=> \E i \in 1..L : i \in P /\ bps[i] = x
  BY <1>1, <1>2, <1>5, <1>6, ExcerptHolds
<1>8. \A j \in 1..Len(rest) : \E i \in 1..L : i # k /\ bps[i] = rest[j]
  BY <1>3, <1>7 DEF InList
<1>9. \A i \in 1..L : i # k => \E j \in 1..Len(rest) : rest[j] = bps[i]
  <2> SUFFICES ASSUME NEW i \in 1..L, i # k PROVE InList(rest, bps[i])
    BY DEF InList
  <2> QED BY <1>3, <1>7
<1>10. Listed(rest, n)
  <2>1. \A i \in 1..L : /\ IsMark(bps[i]) /\ bps[i].id \in 1..n
                        /\ bps[i].action \in {Unset, "logpoint", "probe"}
    BY <1>2 DEF Listed
  <2> QED BY <1>7, <1>8, <2>1 DEF Listed
<1>11. Apart(rest)
  <2> SUFFICES ASSUME NEW i \in 1..Len(rest), NEW j \in 1..Len(rest),
                      rest[i].asked = rest[j].asked \/ rest[i].id = rest[j].id
               PROVE  i = j
    BY DEF Apart
  <2>1. PICK a \in 1..L : bps[a] = rest[i]  BY <1>8
  <2>2. PICK b \in 1..L : bps[b] = rest[j]  BY <1>8
  <2>3. a = b  BY <1>2, <2>1, <2>2 DEF Apart
  <2> QED BY <1>7, <2>1, <2>2, <2>3 DEF Distinct
<1>12. MarkIds(rest) = MarkIds(bps) \ {bps[k].id}
  <2>1. ASSUME NEW j \in 1..Len(rest) PROVE rest[j].id \in MarkIds(bps) \ {bps[k].id}
    <3>1. PICK i \in 1..L : i # k /\ bps[i] = rest[j]  BY <1>8
    <3>2. bps[i].id # bps[k].id  BY <1>2, <3>1 DEF Apart
    <3> QED BY <1>2, <3>1, <3>2 DEF MarkIds
  <2>2. ASSUME NEW i \in 1..L, bps[i].id # bps[k].id PROVE bps[i].id \in MarkIds(rest)
    <3>1. PICK j \in 1..Len(rest) : rest[j] = bps[i]  BY <1>9, <2>2
    <3> QED BY <3>1 DEF MarkIds
  <2> QED BY <1>2, <2>1, <2>2 DEF MarkIds
<1> QED BY <1>2, <1>3, <1>4, <1>5, <1>10, <1>11, <1>12

LEMMA AddedIsListed ==
    ASSUME NEW n \in Nat, NEW bps, Listed(bps, n), Apart(bps), NEW place,
           AskedAt(bps, place) = {}, NEW actual
    PROVE  LET more == Append(bps, NewMark(n + 1, place, actual)) IN
           /\ Listed(more, n + 1) /\ Apart(more)
           /\ MarkIds(more) = MarkIds(bps) \cup {n + 1}
<1>1. PICK S : bps \in Seq(S)  BY DEF Listed
<1>2. PICK L \in Nat : L = Len(bps)  BY <1>1, LenProperties
<1>3. PICK v : v = NewMark(n + 1, place, actual)  OBVIOUS
<1>4. PICK more : more = Append(bps, v)  OBVIOUS
<1>5. PICK R : more \in Seq(R)  BY <1>1, <1>4, AppendAny
<1>6. Len(more) = L + 1 /\ more[L + 1] = v /\ \A i \in 1..L : more[i] = bps[i]
  BY <1>1, <1>2, <1>4, AppendAny
<1>7. v.id = n + 1 /\ v.asked = place /\ v.action = Unset /\ IsMark(v)
  BY <1>3 DEF NewMark, IsMark
<1>8. \A i \in 1..(L + 1) : i = L + 1 \/ i \in 1..L  OBVIOUS
<1>9. \A i \in 1..L : IsMark(bps[i]) /\ bps[i].id \in 1..n /\ bps[i].action \in {Unset, "logpoint", "probe"}
  BY <1>2 DEF Listed
<1>10. Listed(more, n + 1)
  <2>1. \A i \in 1..(L + 1) : /\ IsMark(more[i]) /\ more[i].id \in 1..(n + 1)
                              /\ more[i].action \in {Unset, "logpoint", "probe"}
    BY <1>6, <1>7, <1>8, <1>9
  <2> QED BY <1>5, <1>6, <2>1 DEF Listed
<1>11. Apart(more)
  <2> SUFFICES ASSUME NEW i \in 1..(L + 1), NEW j \in 1..(L + 1),
                      more[i].asked = more[j].asked \/ more[i].id = more[j].id
               PROVE  i = j
    BY <1>6 DEF Apart
  <2>1. \A k \in 1..L : bps[k].asked # place /\ bps[k].id # n + 1
    BY <1>2, <1>9 DEF AskedAt
  <2>2. CASE i \in 1..L /\ j \in 1..L  BY <1>2, <1>6, <2>2 DEF Apart
  <2>3. CASE i = L + 1 /\ j \in 1..L  BY <1>6, <1>7, <2>1, <2>3
  <2>4. CASE i \in 1..L /\ j = L + 1  BY <1>6, <1>7, <2>1, <2>4
  <2> QED BY <1>8, <2>2, <2>3, <2>4
<1>12. MarkIds(more) = MarkIds(bps) \cup {n + 1}
  <2>1. \A i \in 1..L : i \in 1..(L + 1)  OBVIOUS
  <2>2. L + 1 \in 1..(L + 1)  OBVIOUS
  <2> QED BY <1>2, <1>6, <1>7, <1>8, <2>1, <2>2 DEF MarkIds
<1> QED BY <1>3, <1>4, <1>10, <1>11, <1>12

\* What an edit keeps.
LEMMA EditedRight ==
    ASSUME NEW bp, IsMark(bp), bp.action \in {Unset, "logpoint", "probe"},
           NEW r, IsRequest(r), ~Switches(r), r.what # "none"
    PROVE  LET new == Edited(bp, r) IN
           /\ IsMark(new) /\ new.action \in {Unset, "logpoint", "probe"}
           /\ new.id = bp.id /\ new.asked = bp.asked /\ new.actual = bp.actual
           /\ r.value # Unset => RowKind(new) \in {"conditional", "logpoint", "probe"}
<1>1. r.what \in {"condition", "logpoint", "probe"}
  BY MarksConstants DEF IsRequest, Switches
<1>2. PICK c, a : c = (IF r.what = "condition" THEN r.value ELSE bp.condition)
                  /\ a = (IF r.what = "condition" THEN bp.action
                          ELSE IF r.value = Unset THEN Unset ELSE r.what)
  OBVIOUS
<1>3. Edited(bp, r) = [id |-> bp.id, asked |-> bp.asked, actual |-> bp.actual, condition |-> c, action |-> a]
  <2>1. CASE r.what = "condition"
    <3>1. Edited(bp, r) = [bp EXCEPT !.condition = r.value]  BY <2>1 DEF Edited
    <3>2. bp = [id |-> bp.id, asked |-> bp.asked, actual |-> bp.actual,
                condition |-> bp.condition, action |-> bp.action]  BY DEF IsMark
    <3>3. c = r.value /\ a = bp.action  BY <1>2, <2>1
    <3> QED BY <3>1, <3>2, <3>3
  <2>2. CASE r.what # "condition"
    <3>1. Edited(bp, r) = [bp EXCEPT !.action = a]  BY <1>2, <2>2 DEF Edited
    <3>2. bp = [id |-> bp.id, asked |-> bp.asked, actual |-> bp.actual,
                condition |-> bp.condition, action |-> bp.action]  BY DEF IsMark
    <3>3. c = bp.condition  BY <1>2, <2>2
    <3> QED BY <3>1, <3>2, <3>3
  <2> QED BY <2>1, <2>2
<1>4. a \in {Unset, "logpoint", "probe"}  BY <1>1, <1>2
<1>5. PICK new : new = Edited(bp, r)  OBVIOUS
<1>6. /\ new.id = bp.id /\ new.asked = bp.asked /\ new.actual = bp.actual
      /\ new.condition = c /\ new.action = a
  BY <1>3, <1>5
<1>7. IsMark(new)  BY <1>3, <1>5, <1>6 DEF IsMark
<1>9. ASSUME r.value # Unset PROVE RowKind(new) \in {"conditional", "logpoint", "probe"}
  <2>1. CASE a # Unset  BY <1>4, <1>6, <2>1 DEF RowKind
  <2>2. CASE a = Unset
    <3>1. r.what = "condition"
      <4>1. "logpoint" # Unset /\ "probe" # Unset  BY DEF Unset
      <4> QED BY <1>1, <1>2, <1>9, <2>2, <4>1
    <3>2. c = r.value  BY <1>2, <3>1
    <3> QED BY <1>6, <1>9, <2>2, <3>2 DEF RowKind
  <2> QED BY <2>1, <2>2
<1> QED BY <1>4, <1>5, <1>6, <1>7, <1>9

LEMMA UpdatedIsListed ==
    ASSUME NEW n \in Nat, NEW bps, Listed(bps, n), Apart(bps),
           NEW r, IsRequest(r), ~Switches(r), r.what # "none"
    PROVE  LET new == UpdateBreakpointSpec(bps, r) IN
           /\ Listed(new, n) /\ Apart(new) /\ MarkIds(new) = MarkIds(bps)
           /\ Len(new) = Len(bps)
           /\ \A k \in 1..Len(bps) :
                IF bps[k].asked = r.place THEN new[k] = Edited(bps[k], r) ELSE new[k] = bps[k]
<1>1. PICK S : bps \in Seq(S)  BY DEF Listed
<1>2. PICK L \in Nat : L = Len(bps)  BY <1>1, LenProperties
<1>3. PICK new : new = UpdateBreakpointSpec(bps, r)  OBVIOUS
<1>4. bps = [i \in 1..L |-> bps[i]]
  <2>1. bps \in [1..L -> S]  BY <1>1, <1>2, LenProperties
  <2> QED BY <2>1
<1>5. new = [k \in 1..L |-> IF bps[k].asked = r.place THEN Edited(bps[k], r) ELSE bps[k]]
  <2>1. CASE AskedAt(bps, r.place) = {}
    <3>1. new = bps  BY <1>3, <2>1 DEF UpdateBreakpointSpec
    <3>2. \A k \in 1..L : bps[k].asked # r.place  BY <1>2, <2>1 DEF AskedAt
    <3> QED BY <1>4, <3>1, <3>2
  <2>2. CASE AskedAt(bps, r.place) # {}
    <3>1. PICK i \in 1..L : bps[i].asked = r.place  BY <1>2, <2>2 DEF AskedAt
    <3>2. Find(bps, r.place) = i  BY <1>2, <3>1, FindIsUnique
    <3>3. new = [bps EXCEPT ![i] = Edited(bps[i], r)]  BY <1>3, <2>2, <3>2 DEF UpdateBreakpointSpec
    <3>4. \A k \in 1..L : bps[k].asked = r.place <=> k = i  BY <1>2, <3>1 DEF Apart
    <3>5. new = [k \in 1..L |-> IF k = i THEN Edited(bps[i], r) ELSE bps[k]]  BY <1>4, <3>3
    <3> QED BY <3>4, <3>5
  <2> QED BY <2>1, <2>2
<1>6. PICK R : R = {new[k] : k \in 1..L}  OBVIOUS
<1>7. new \in Seq(R) /\ Len(new) = L
  <2>1. new \in [1..L -> R]  BY <1>5, <1>6
  <2> QED BY <2>1
<1>8. \A k \in 1..L : IF bps[k].asked = r.place THEN new[k] = Edited(bps[k], r) ELSE new[k] = bps[k]
  BY <1>5
<1>9. \A k \in 1..L : IsMark(bps[k]) /\ bps[k].id \in 1..n /\ bps[k].action \in {Unset, "logpoint", "probe"}
  BY <1>2 DEF Listed
<1>10. ASSUME NEW k \in 1..L
       PROVE  /\ IsMark(new[k]) /\ new[k].action \in {Unset, "logpoint", "probe"}
              /\ new[k].id = bps[k].id /\ new[k].asked = bps[k].asked
  <2>1. CASE bps[k].asked = r.place
    <3>1. PICK bp : bp = bps[k]  OBVIOUS
    <3>2. IsMark(bp) /\ bp.action \in {Unset, "logpoint", "probe"}  BY <1>9, <3>1
    <3>3. PICK z : z = Edited(bp, r)  OBVIOUS
    <3>4. IsMark(z) /\ z.action \in {Unset, "logpoint", "probe"} /\ z.id = bp.id /\ z.asked = bp.asked
      BY <3>2, <3>3, EditedRight
    <3>5. new[k] = z  BY <1>8, <2>1, <3>1, <3>3
    <3> QED BY <3>1, <3>4, <3>5
  <2>2. CASE bps[k].asked # r.place  BY <1>8, <1>9, <2>2
  <2> QED BY <2>1, <2>2
<1>11. Listed(new, n)  BY <1>7, <1>9, <1>10 DEF Listed
<1>12. Apart(new)  BY <1>2, <1>7, <1>10 DEF Apart
<1>13. MarkIds(new) = MarkIds(bps)  BY <1>2, <1>7, <1>10 DEF MarkIds
<1> QED BY <1>2, <1>3, <1>7, <1>8, <1>11, <1>12, <1>13

\* A request reaches the breakpoint that was asked for where it says.
LEMMA RequestReaches ==
    ASSUME NEW n \in Nat, Listed(marks, n), Apart(marks), NEW r, IsRequest(r)
    PROVE  Reaches(r)
<1> SUFFICES ASSUME NEW i \in 1..Len(marks), marks[i].id = r.of, marks[i].asked = r.place
             PROVE  LET after == After(marks, r) IN
                    /\ Find(marks, r.place) = i
                    /\ IF Switches(r) THEN after = Excerpt(marks, (1..Len(marks)) \ {i})
                       ELSE /\ Len(after) = Len(marks)
                            /\ \A j \in 1..Len(marks) : j # i => after[j] = marks[j]
                            /\ \A f \in {"id", "asked", "actual"} : after[i][f] = marks[i][f]
                            /\ r.value # Unset => RowKind(after[i]) \in {"conditional", "logpoint", "probe"}
  BY DEF Reaches
<1>1. Find(marks, r.place) = i  BY FindIsUnique
<1>2. CASE Switches(r)
  <2>1. After(marks, r) = RemoveLineBp(marks, marks[i].asked)  BY <1>2 DEF After
  <2> QED BY <1>1, <1>2, <2>1, RemovedIsListed
<1>3. CASE ~Switches(r)
  <2>1. marks[i].id \in 1..n  BY DEF Listed
  <2>2. r.what # "none"
    <3>1. NoEdit.of = 0  BY DEF NoEdit, Request, NoMark
    <3>2. r.of # 0  BY <2>1
    <3> QED BY <3>1, <3>2 DEF IsRequest
  <2>3. PICK new : new = After(marks, r)  OBVIOUS
  <2>4. /\ Len(new) = Len(marks)
        /\ \A k \in 1..Len(marks) :
              IF marks[k].asked = r.place THEN new[k] = Edited(marks[k], r) ELSE new[k] = marks[k]
    BY <1>3, <2>2, <2>3, UpdatedIsListed DEF After
  <2>5. \A k \in 1..Len(marks) : k # i => new[k] = marks[k]  BY <2>4 DEF Apart
  <2>6. PICK bp : bp = marks[i]  OBVIOUS
  <2>7. IsMark(bp) /\ bp.action \in {Unset, "logpoint", "probe"}  BY <2>6 DEF Listed
  <2>8. PICK z : z = Edited(bp, r)  OBVIOUS
  <2>9. /\ z.id = bp.id /\ z.asked = bp.asked /\ z.actual = bp.actual
        /\ r.value # Unset => RowKind(z) \in {"conditional", "logpoint", "probe"}
    BY <1>3, <2>2, <2>7, <2>8, EditedRight
  <2>10. new[i] = z  BY <2>4, <2>6, <2>8
  <2>11. \A f \in {"id", "asked", "actual"} : new[i][f] = marks[i][f]  BY <2>6, <2>9, <2>10
  <2> QED BY <1>1, <1>3, <2>3, <2>4, <2>5, <2>9, <2>10, <2>11
<1> QED BY <1>2, <1>3

\* The inductive invariant: breakpoints, requests and editors are such, ids are
\* given in order, and what the debuggee holds is shown or lost.
AreRequests(list) ==
    /\ \E S : list \in Seq(S)
    /\ \A k \in 1..Len(list) : IsRequest(list[k]) /\ list[k].what # "none"
MarksTyped ==
    /\ given \in Nat /\ Listed(marks, given) /\ lost \in SUBSET (1..given)
    /\ AreRequests(requests)
    /\ editors = [list |-> editors.list, gutter |-> editors.gutter]
    /\ IsRequest(editors.list) /\ IsRequest(editors.gutter)
MarksInv == MarksTyped /\ MarksAreHeld

LEMMA MarksReach == MarksInv => RequestsReachTheirMark
<1> SUFFICES ASSUME MarksInv PROVE RequestsReachTheirMark
  OBVIOUS
<1>1. given \in Nat /\ Listed(marks, given) /\ Apart(marks)
  BY DEF MarksInv, MarksTyped, MarksAreHeld, Apart
<1>2. \A r : IsRequest(r) => Reaches(r)  BY <1>1, RequestReaches
<1>3. \A k \in 1..Len(requests) : IsRequest(requests[k])
  BY DEF MarksInv, MarksTyped, AreRequests
<1>4. \A w \in {"list", "gutter"} : IsRequest(editors[w])  BY DEF MarksInv, MarksTyped
<1> QED BY <1>2, <1>3, <1>4 DEF RequestsReachTheirMark

LEMMA RequestMade ==
    ASSUME NEW what \in {"toggle", "remove"} \cup MarkEdits, NEW place, NEW of
    PROVE  LET r == Request(what, place, of, Unset) IN IsRequest(r) /\ r.what # "none"
  BY MarksConstants DEF IsRequest, Request

LEMMA NoEditIsRequest == IsRequest(NoEdit)
  BY DEF IsRequest, NoEdit, Request

LEMMA RequestPosted ==
    ASSUME NEW list, AreRequests(list), NEW r, IsRequest(r), r.what # "none"
    PROVE  AreRequests(Append(list, r))
<1>1. PICK S : list \in Seq(S)  BY DEF AreRequests
<1>2. PICK L \in Nat : L = Len(list)  BY <1>1, LenProperties
<1>3. PICK more : more = Append(list, r)  OBVIOUS
<1>4. PICK R : more \in Seq(R)  BY <1>1, <1>3, AppendAny
<1>5. Len(more) = L + 1 /\ more[L + 1] = r /\ \A i \in 1..L : more[i] = list[i]
  BY <1>1, <1>2, <1>3, AppendAny
<1>6. \A i \in 1..(L + 1) : i = L + 1 \/ i \in 1..L  OBVIOUS
<1>7. \A i \in 1..L : IsRequest(list[i]) /\ list[i].what # "none"  BY <1>2 DEF AreRequests
<1>8. \A i \in 1..(L + 1) : IsRequest(more[i]) /\ more[i].what # "none"  BY <1>5, <1>6, <1>7
<1> QED BY <1>3, <1>4, <1>5, <1>8 DEF AreRequests

LEMMA RequestTaken ==
    ASSUME NEW list, AreRequests(list), list # <<>>
    PROVE  IsRequest(Head(list)) /\ Head(list).what # "none" /\ AreRequests(Tail(list))
<1>1. PICK S : list \in Seq(S)  BY DEF AreRequests
<1>2. PICK L \in Nat : L = Len(list)  BY <1>1, LenProperties
<1>3. L # 0  BY <1>1, <1>2, EmptySeq
<1>4. Head(list) = list[1] /\ 1 \in 1..L  BY <1>1, <1>2, <1>3, HeadTailProperties
<1>5. Tail(list) \in Seq(S) /\ Len(Tail(list)) = L - 1
      /\ \A i \in 1..Len(Tail(list)) : Tail(list)[i] = list[i + 1]
  BY <1>1, <1>2, <1>3, HeadTailProperties
<1>6. \A i \in 1..(L - 1) : i + 1 \in 1..L  OBVIOUS
<1> QED BY <1>2, <1>4, <1>5, <1>6 DEF AreRequests

LEMMA MarksStart == MarksInit => MarksInv
<1> SUFFICES ASSUME MarksInit PROVE MarksInv
  OBVIOUS
<1>1. /\ marks = <<>> /\ requests = <<>> /\ editors = [list |-> NoEdit, gutter |-> NoEdit]
      /\ holds = {} /\ given = 0 /\ lost = {}
  BY DEF MarksInit
<1>2. <<>> \in Seq({}) /\ Len(<<>>) = 0  BY EmptySeq
<1>3. 1..0 = {}  OBVIOUS
<1>4. Listed(marks, given) /\ AreRequests(requests)  BY <1>1, <1>2, <1>3 DEF Listed, AreRequests
<1>5. MarksAreHeld  BY <1>1, <1>2, <1>3 DEF MarksAreHeld, MarkIds
<1>6. editors = [list |-> editors.list, gutter |-> editors.gutter]
      /\ editors.list = NoEdit /\ editors.gutter = NoEdit
  BY <1>1
<1> QED BY <1>1, <1>4, <1>5, <1>6, NoEditIsRequest DEF MarksInv, MarksTyped

\* Of the invariant, what depends on the breakpoints, and on the widgets.
HoldsRight == MarksAreHeld /\ given \in Nat /\ Listed(marks, given) /\ lost \in SUBSET (1..given)
WidgetsRight ==
    /\ AreRequests(requests)
    /\ editors = [list |-> editors.list, gutter |-> editors.gutter]
    /\ IsRequest(editors.list) /\ IsRequest(editors.gutter)

LEMMA RemovesKeeps ==
    ASSUME HoldsRight, NEW r, NEW granted \in BOOLEAN, RemovesMark(r, granted)
    PROVE  HoldsRight'
<1>1. PICK n \in Nat : n = given /\ given' = n  BY DEF HoldsRight, RemovesMark
<1>2. Listed(marks, n) /\ Apart(marks)  BY <1>1 DEF HoldsRight, MarksAreHeld, Apart
<1>3. PICK k \in 1..Len(marks) : marks[k].asked = r.place  BY DEF RemovesMark, AskedAt
<1>4. Find(marks, r.place) = k  BY <1>2, <1>3, FindIsUnique
<1>5. PICK id : id = marks[k].id  OBVIOUS
<1>6. id \in MarkIds(marks) /\ id \in 1..n  BY <1>2, <1>5 DEF MarkIds, Listed
<1>7. marks' = RemoveLineBp(marks, marks[k].asked)  BY <1>3 DEF RemovesMark, After
<1>8. Listed(marks', n) /\ Apart(marks') /\ MarkIds(marks') = MarkIds(marks) \ {id}
  BY <1>2, <1>5, <1>7, RemovedIsListed
<1>9. holds' = (IF granted THEN holds \ {id} ELSE holds) /\ lost' = (IF granted THEN lost ELSE lost \cup {id})
  BY <1>4, <1>5 DEF RemovesMark
<1>10. holds = MarkIds(marks) \cup lost /\ MarkIds(marks) \cap lost = {} /\ lost \in SUBSET (1..n)
  BY <1>1 DEF HoldsRight, MarksAreHeld
<1>11. holds' = MarkIds(marks') \cup lost' /\ MarkIds(marks') \cap lost' = {} /\ lost' \in SUBSET (1..n)
  BY <1>6, <1>8, <1>9, <1>10
<1> QED BY <1>1, <1>8, <1>11 DEF HoldsRight, MarksAreHeld, Apart

LEMMA AddsKeeps ==
    ASSUME HoldsRight, NEW r, NEW granted \in BOOLEAN, AddsMark(r, granted)
    PROVE  HoldsRight'
<1>1. PICK n \in Nat : n = given  BY DEF HoldsRight
<1>2. Listed(marks, n) /\ Apart(marks) /\ AskedAt(marks, r.place) = {}
  BY <1>1 DEF HoldsRight, MarksAreHeld, Apart, AddsMark
<1>3. holds = MarkIds(marks) \cup lost /\ MarkIds(marks) \cap lost = {} /\ lost \in SUBSET (1..n)
  BY <1>1 DEF HoldsRight, MarksAreHeld
<1>4. lost' = lost  BY DEF AddsMark
<1>5. CASE granted
  <2>1. PICK actual : marks' = Append(marks, NewMark(n + 1, r.place, actual))  BY <1>1, <1>5 DEF AddsMark
  <2>2. given' = n + 1 /\ holds' = holds \cup {n + 1}  BY <1>1, <1>5 DEF AddsMark
  <2>3. Listed(marks', n + 1) /\ Apart(marks') /\ MarkIds(marks') = MarkIds(marks) \cup {n + 1}
    BY <1>2, <2>1, AddedIsListed
  <2>4. n + 1 \notin 1..n /\ 1..n \subseteq 1..(n + 1)  OBVIOUS
  <2>5. holds' = MarkIds(marks') \cup lost' /\ MarkIds(marks') \cap lost' = {} /\ lost' \in SUBSET (1..(n + 1))
    BY <1>3, <1>4, <2>2, <2>3, <2>4
  <2> QED BY <2>2, <2>3, <2>5 DEF HoldsRight, MarksAreHeld, Apart
<1>6. CASE ~granted
  <2>1. UNCHANGED <<marks, holds, given, lost>>  BY <1>4, <1>6 DEF AddsMark
  <2> QED BY <2>1 DEF HoldsRight, MarksAreHeld
<1> QED BY <1>5, <1>6

LEMMA EditsKeeps ==
    ASSUME HoldsRight, NEW r, IsRequest(r), EditsMark(r), r.what # "none"
    PROVE  HoldsRight'
<1>1. PICK n \in Nat : n = given  BY DEF HoldsRight
<1>2. Listed(marks, n) /\ Apart(marks)  BY <1>1 DEF HoldsRight, MarksAreHeld, Apart
<1>3. marks' = UpdateBreakpointSpec(marks, r) /\ ~Switches(r) /\ UNCHANGED <<holds, given, lost>>
  BY DEF EditsMark, After
<1>4. Listed(marks', n) /\ Apart(marks') /\ MarkIds(marks') = MarkIds(marks)
  BY <1>2, <1>3, UpdatedIsListed
<1> QED BY <1>1, <1>3, <1>4 DEF HoldsRight, MarksAreHeld, Apart

LEMMA HandlesKeeps ==
    ASSUME HoldsRight, WidgetsRight, HostHandles
    PROVE  HoldsRight' /\ WidgetsRight'
<1>1. PICK r : r = Head(requests)  OBVIOUS
<1>2. IsRequest(r) /\ r.what # "none" /\ AreRequests(Tail(requests))
  BY <1>1, RequestTaken DEF WidgetsRight, HostHandles
<1>3. requests' = Tail(requests) /\ editors' = editors  BY DEF HostHandles
<1>4. WidgetsRight'  BY <1>2, <1>3 DEF WidgetsRight
<1>5. (\E granted \in BOOLEAN : RemovesMark(r, granted) \/ AddsMark(r, granted)) \/ EditsMark(r)
  BY <1>1 DEF HostHandles
<1>6. CASE EditsMark(r)  BY <1>2, <1>4, <1>6, EditsKeeps
<1>7. CASE \E granted \in BOOLEAN : RemovesMark(r, granted) \/ AddsMark(r, granted)
  <2>1. PICK granted \in BOOLEAN : RemovesMark(r, granted) \/ AddsMark(r, granted)  BY <1>7
  <2> QED BY <1>4, <2>1, RemovesKeeps, AddsKeeps
<1> QED BY <1>5, <1>6, <1>7

LEMMA OverwriteKeeps ==
    ASSUME HoldsRight, WidgetsRight, AgentOverwrites
    PROVE  HoldsRight' /\ WidgetsRight'
<1>1. /\ marks' = <<>> /\ lost' = lost \cup MarkIds(marks)
      /\ UNCHANGED <<editors, requests, holds, given>>
  BY DEF AgentOverwrites
<1>2. <<>> \in Seq({}) /\ Len(<<>>) = 0  BY EmptySeq
<1>3. 1..0 = {}  OBVIOUS
<1>4. PICK none : none = <<>>  OBVIOUS
<1>5. none \in Seq({}) /\ Len(none) = 0  BY <1>2, <1>4
<1>6. Listed(none, given) /\ Apart(none) /\ MarkIds(none) = {}
  <2>1. \A i \in 1..Len(none) : FALSE  BY <1>3, <1>5
  <2> QED BY <1>5, <2>1 DEF Listed, Apart, MarkIds
<1>7. MarkIds(marks) \subseteq 1..given  BY DEF HoldsRight, Listed, MarkIds
<1>8. HoldsRight'
  <2>1. marks' = none  BY <1>1, <1>4
  <2>2. Listed(marks', given) /\ Apart(marks') /\ MarkIds(marks') = {}  BY <1>6, <2>1
  <2>3. given' = given /\ holds' = holds /\ lost' = lost \cup MarkIds(marks)  BY <1>1
  <2>4. given \in Nat /\ holds = MarkIds(marks) \cup lost /\ lost \in SUBSET (1..given)
    BY DEF HoldsRight, MarksAreHeld
  <2>5. lost' \in SUBSET (1..given)  BY <1>7, <2>3, <2>4
  <2>6. holds' = MarkIds(marks') \cup lost' /\ MarkIds(marks') \cap lost' = {}
    BY <2>2, <2>3, <2>4
  <2> QED BY <2>2, <2>3, <2>4, <2>5, <2>6 DEF HoldsRight, MarksAreHeld, Apart
<1>9. WidgetsRight'  BY <1>1 DEF WidgetsRight
<1> QED BY <1>8, <1>9

LEMMA ClickKeeps ==
    ASSUME HoldsRight, WidgetsRight, ClickMark
    PROVE  HoldsRight' /\ WidgetsRight'
<1>1. PICK what, place, of :
         what \in {"toggle", "remove"} /\ requests' = Append(requests, Request(what, place, of, Unset))
  BY DEF ClickMark
<1>2. UNCHANGED <<marks, editors, holds, given, lost>>  BY DEF ClickMark
<1>3. PICK r : r = Request(what, place, of, Unset)  OBVIOUS
<1>4. IsRequest(r) /\ r.what # "none"  BY <1>1, <1>3, RequestMade
<1>5. AreRequests(requests')  BY <1>1, <1>3, <1>4, RequestPosted DEF WidgetsRight
<1> QED BY <1>2, <1>5 DEF HoldsRight, MarksAreHeld, WidgetsRight

\* An editor changes, and the other stays.
LEMMA EditorChanges ==
    ASSUME WidgetsRight, NEW w \in {"list", "gutter"}, NEW e, IsRequest(e)
    PROVE  LET es == [editors EXCEPT ![w] = e] IN
           es = [list |-> es.list, gutter |-> es.gutter] /\ IsRequest(es.list) /\ IsRequest(es.gutter)
<1>1. PICK a, b : a = editors.list /\ b = editors.gutter  OBVIOUS
<1>2. editors = [list |-> a, gutter |-> b] /\ IsRequest(a) /\ IsRequest(b)  BY <1>1 DEF WidgetsRight
<1>3. CASE w = "list"
  <2>1. [editors EXCEPT ![w] = e] = [list |-> e, gutter |-> b]  BY <1>2, <1>3
  <2> QED BY <1>2, <2>1
<1>4. CASE w = "gutter"
  <2>1. [editors EXCEPT ![w] = e] = [list |-> a, gutter |-> e]  BY <1>2, <1>4
  <2> QED BY <1>2, <2>1
<1> QED BY <1>3, <1>4

LEMMA OpenKeeps ==
    ASSUME HoldsRight, WidgetsRight, OpenEditor
    PROVE  HoldsRight' /\ WidgetsRight'
<1>1. UNCHANGED <<marks, requests, holds, given, lost>>  BY DEF OpenEditor
<1>2. PICK what, w, place, of :
         what \in MarkEdits /\ w \in {"list", "gutter"} /\ editors' = [editors EXCEPT ![w] = Request(what, place, of, Unset)]
  BY DEF OpenEditor
<1>3. PICK e : e = Request(what, place, of, Unset)  OBVIOUS
<1>4. IsRequest(e)  BY <1>2, <1>3, RequestMade
<1>5. editors' = [editors EXCEPT ![w] = e]  BY <1>2, <1>3
<1>6. editors' = [list |-> editors'.list, gutter |-> editors'.gutter]
      /\ IsRequest(editors'.list) /\ IsRequest(editors'.gutter)
  BY <1>2, <1>4, <1>5, EditorChanges
<1> QED BY <1>1, <1>6 DEF HoldsRight, MarksAreHeld, WidgetsRight

LEMMA CloseKeeps ==
    ASSUME HoldsRight, WidgetsRight, CloseEditor
    PROVE  HoldsRight' /\ WidgetsRight'
<1>1. UNCHANGED <<marks, holds, given, lost>>  BY DEF CloseEditor
<1>2. PICK w \in {"list", "gutter"} :
        /\ editors[w] # NoEdit
        /\ editors' = [editors EXCEPT ![w] = NoEdit]
        /\ \/ \E v \in {Unset, "set"} : requests' = Append(requests, [editors[w] EXCEPT !.value = v])
           \/ UNCHANGED requests
  BY DEF CloseEditor
<1>3. editors' = [list |-> editors'.list, gutter |-> editors'.gutter]
      /\ IsRequest(editors'.list) /\ IsRequest(editors'.gutter)
  BY <1>2, NoEditIsRequest, EditorChanges
<1>4. PICK e : e = editors[w]  OBVIOUS
<1>5. IsRequest(e) /\ e.what # "none"
  <2>1. IsRequest(e)  BY <1>4 DEF WidgetsRight
  <2> QED BY <1>2, <1>4, <2>1 DEF IsRequest
<1>6. ASSUME NEW v PROVE IsRequest([e EXCEPT !.value = v]) /\ [e EXCEPT !.value = v].what # "none"
  <2>1. e = [what |-> e.what, place |-> e.place, of |-> e.of, value |-> e.value]  BY <1>5 DEF IsRequest
  <2>2. PICK z : z = [e EXCEPT !.value = v]  OBVIOUS
  <2>3. z = [what |-> e.what, place |-> e.place, of |-> e.of, value |-> v]  BY <2>1, <2>2
  <2>4. z.what = e.what /\ z = [what |-> z.what, place |-> z.place, of |-> z.of, value |-> z.value]  BY <2>3
  <2> QED BY <1>5, <2>2, <2>4 DEF IsRequest
<1>7. AreRequests(requests')
  <2>1. AreRequests(requests)  BY DEF WidgetsRight
  <2>2. ASSUME NEW v, requests' = Append(requests, [editors[w] EXCEPT !.value = v])
        PROVE  AreRequests(requests')
    <3>1. PICK z : z = [e EXCEPT !.value = v]  OBVIOUS
    <3>2. requests' = Append(requests, z)  BY <1>4, <2>2, <3>1
    <3> QED BY <1>6, <2>1, <3>1, <3>2, RequestPosted
  <2> QED BY <1>2, <2>1, <2>2
<1> QED BY <1>1, <1>3, <1>7 DEF HoldsRight, MarksAreHeld, WidgetsRight

LEMMA MarksStep ==
    ASSUME MarksInv, [MarksNext]_marksVars
    PROVE  MarksInv'
<1>1. HoldsRight /\ WidgetsRight  BY DEF MarksInv, MarksTyped, HoldsRight, WidgetsRight
<1>2. HoldsRight' /\ WidgetsRight'
  <2>1. CASE UNCHANGED marksVars
    BY <1>1, <2>1 DEF marksVars, HoldsRight, WidgetsRight, MarksAreHeld
  <2>2. CASE MarksNext
    BY <1>1, <2>2, ClickKeeps, OpenKeeps, CloseKeeps, HandlesKeeps, OverwriteKeeps DEF MarksNext
  <2> QED BY <2>1, <2>2
<1> QED BY <1>2 DEF MarksInv, MarksTyped, HoldsRight, WidgetsRight

-----------------------------------------------------------------------------
(* The call stack *)

\* A function on the numbers up to n is a sequence of length n.
LEMMA SequenceOf ==
    ASSUME NEW S, NEW n \in Nat, NEW t \in [1..n -> S]
    PROVE  t \in Seq(S) /\ Len(t) = n
OBVIOUS

RowShape == [row : {"frame", "more", "async"}, number : Nat]

\* A row stands for the frames between two numbers; `hid` says which are hidden.
Stands(row, a, b, hid) ==
    \/ row.row = "frame" /\ row.number = a + 1 /\ b = a + 1 /\ hid[b] = FALSE
    \/ row.row = "more" /\ a < b /\ row.number = b - a /\ \A i \in (a + 1)..b : hid[i] = TRUE
    \/ row.row = "async" /\ b = a

\* Rows for the first n frames.
Tiled(drawn, hid, n) ==
    /\ drawn \in Seq(RowShape) /\ n \in Nat
    /\ \E above \in [0..Len(drawn) -> 0..n] :
          /\ above[0] = 0 /\ above[Len(drawn)] = n
          /\ \A k \in 1..Len(drawn) : Stands(drawn[k], above[k - 1], above[k], hid)

NoTwoMore(drawn) == \A k \in 1..(Len(drawn) - 1) : drawn[k].row = "more" => drawn[k + 1].row # "more"
EndsClear(drawn) == Len(drawn) = 0 \/ drawn[Len(drawn)].row # "more"

LEMMA NothingTiled == ASSUME NEW hid PROVE Tiled(<<>>, hid, 0) /\ NoTwoMore(<<>>) /\ EndsClear(<<>>)
<1>1. PICK e : e = <<>>  OBVIOUS
<1>2. e \in Seq(RowShape) /\ Len(e) = 0  BY <1>1, EmptySeq
<1>3. PICK f : f = [i \in 0..0 |-> 0]  OBVIOUS
<1>4. f \in [0..0 -> 0..0] /\ f[0] = 0 /\ (\A i \in 1..0 : FALSE) /\ \A i \in 1..(0 - 1) : FALSE
  BY <1>3
<1>5. Tiled(e, hid, 0)  BY <1>2, <1>4 DEF Tiled
<1>6. NoTwoMore(e) /\ EndsClear(e)  BY <1>2, <1>4 DEF NoTwoMore, EndsClear
<1> QED BY <1>1, <1>5, <1>6

LEMMA OneMoreRow ==
    ASSUME NEW drawn, NEW hid, NEW n, Tiled(drawn, hid, n), NEW row \in RowShape, NEW m \in Nat,
           m >= n, Stands(row, n, m, hid)
    PROVE  Tiled(Append(drawn, row), hid, m)
<1>1. drawn \in Seq(RowShape) /\ n \in Nat  BY DEF Tiled
<1>2. PICK L \in Nat : L = Len(drawn)  BY <1>1, LenProperties
<1>3. PICK above \in [0..L -> 0..n] :
          /\ above[0] = 0 /\ above[L] = n
          /\ \A k \in 1..L : Stands(drawn[k], above[k - 1], above[k], hid)
  BY <1>2 DEF Tiled
<1>4. PICK new : new = Append(drawn, row)  OBVIOUS
<1>5. /\ new \in Seq(RowShape) /\ Len(new) = L + 1
      /\ new[L + 1] = row /\ \A k \in 1..L : new[k] = drawn[k]
  BY <1>1, <1>2, <1>4, AppendProperties
<1>6. PICK f : f = [k \in 0..(L + 1) |-> IF k = L + 1 THEN m ELSE above[k]]  OBVIOUS
<1>7. \A k \in 0..L : k \in 0..(L + 1) /\ k # L + 1 /\ f[k] = above[k]  BY <1>6
<1>8. f[L + 1] = m  BY <1>6
<1>9. f \in [0..(L + 1) -> 0..m]
  <2>1. \A k \in 0..L : above[k] \in 0..m  BY <1>1, <1>3
  <2>2. \A k \in 0..(L + 1) : k = L + 1 \/ k \in 0..L  OBVIOUS
  <2>3. m \in 0..m  OBVIOUS
  <2> QED BY <1>6, <2>1, <2>2, <2>3
<1>10. f[0] = 0  BY <1>3, <1>7
<1>11. ASSUME NEW k \in 1..(L + 1) PROVE Stands(new[k], f[k - 1], f[k], hid)
  <2>1. CASE k = L + 1
    <3>1. k - 1 = L /\ L \in 0..L  BY <2>1
    <3>2. f[k - 1] = n /\ f[k] = m /\ new[k] = row  BY <1>3, <1>5, <1>7, <1>8, <2>1, <3>1
    <3> QED BY <3>2
  <2>2. CASE k # L + 1
    <3>1. k \in 1..L /\ k \in 0..L /\ k - 1 \in 0..L  BY <2>2
    <3>2. f[k - 1] = above[k - 1] /\ f[k] = above[k] /\ new[k] = drawn[k]  BY <1>5, <1>7, <3>1
    <3> QED BY <1>3, <3>1, <3>2
  <2> QED BY <2>1, <2>2
<1>12. \E g \in [0..Len(new) -> 0..m] :
          /\ g[0] = 0 /\ g[Len(new)] = m
          /\ \A k \in 1..Len(new) : Stands(new[k], g[k - 1], g[k], hid)
  BY <1>5, <1>8, <1>9, <1>10, <1>11
<1> QED BY <1>4, <1>5, <1>12 DEF Tiled

\* The row of a run of hidden frames comes after one of another kind, and before one.
LEMMA RowAfter ==
    ASSUME NEW drawn \in Seq(RowShape), NoTwoMore(drawn), NEW row \in RowShape,
           row.row = "more" => EndsClear(drawn)
    PROVE  NoTwoMore(Append(drawn, row)) /\ (row.row # "more" => EndsClear(Append(drawn, row)))
<1>1. PICK L \in Nat : L = Len(drawn)  BY LenProperties
<1>2. PICK new : new = Append(drawn, row)  OBVIOUS
<1>3. Len(new) = L + 1 /\ new[L + 1] = row /\ \A k \in 1..L : new[k] = drawn[k]
  BY <1>1, <1>2, AppendProperties
<1>4. ASSUME NEW k \in 1..L, new[k].row = "more", new[k + 1].row = "more" PROVE FALSE
  <2>1. CASE k = L  BY <1>1, <1>3, <1>4, <2>1 DEF EndsClear
  <2>2. CASE k # L
    <3>1. k \in 1..(L - 1) /\ k + 1 \in 1..L  BY <2>2
    <3>2. drawn[k].row = "more" /\ drawn[k + 1].row = "more"  BY <1>3, <1>4, <3>1
    <3> QED BY <1>1, <3>1, <3>2 DEF NoTwoMore
  <2> QED BY <2>1, <2>2
<1>5. \A k \in 1..((L + 1) - 1) : k \in 1..L  OBVIOUS
<1>6. NoTwoMore(new)  BY <1>3, <1>4, <1>5 DEF NoTwoMore
<1> QED BY <1>2, <1>3, <1>6 DEF EndsClear

\* What rows for n frames stand for.
LEMMA TiledStandsFor ==
    ASSUME NEW N \in Nat, NEW hid \in [1..N -> BOOLEAN], NEW drawn, Tiled(drawn, hid, N)
    PROVE  StoodFor(drawn) = [i \in 1..N |-> <<i, hid[i]>>]
<1> DEFINE Body(s) == [k \in 0..Len(drawn) |->
                          IF k = 0 THEN <<>> ELSE s[k - 1] \o StandsFor(drawn[k], Len(s[k - 1]))]
           g == CHOOSE g : g = Body(g)
           P == {<<i, TRUE>> : i \in Nat} \cup {<<i, FALSE>> : i \in Nat}
<1>1. drawn \in Seq(RowShape)  BY DEF Tiled
<1>2. PICK L \in Nat : L = Len(drawn)  BY <1>1, LenProperties
<1>3. PICK above \in [0..L -> 0..N] :
          /\ above[0] = 0 /\ above[L] = N
          /\ \A k \in 1..L : Stands(drawn[k], above[k - 1], above[k], hid)
  BY <1>2 DEF Tiled
<1>4. StoodFor(drawn) = g[Len(drawn)]  BY Zenon DEF StoodFor
<1>5. \A s : Body(s) = [k \in 0..L |-> IF k = 0 THEN <<>> ELSE s[k - 1] \o StandsFor(drawn[k], Len(s[k - 1]))]
  BY <1>2
<1> HIDE DEF g, Body
<1> DEFINE S(a) == [i \in 1..a |-> <<i, hid[i]>>]
<1>6. ASSUME NEW a \in 0..N PROVE S(a) \in Seq(P) /\ Len(S(a)) = a
  <2>1. ASSUME NEW i \in 1..a PROVE <<i, hid[i]>> \in P
    <3>1. hid[i] = TRUE \/ hid[i] = FALSE  OBVIOUS
    <3>2. i \in Nat  OBVIOUS
    <3> QED BY <3>1, <3>2
  <2> HIDE DEF P
  <2> QED BY <2>1
<1>7. ASSUME NEW k \in 1..L PROVE S(above[k]) = S(above[k - 1]) \o StandsFor(drawn[k], above[k - 1])
  <2>1. PICK a \in 0..N, b \in 0..N : a = above[k - 1] /\ b = above[k]
    <3>1. k - 1 \in 0..L /\ k \in 0..L  OBVIOUS
    <3> QED BY <1>3, <3>1
  <2>2. PICK row \in RowShape : row = drawn[k]  BY <1>1, <1>2, ElementOfSeq
  <2>3. Stands(row, a, b, hid)  BY <1>3, <2>1, <2>2
  <2>4. PICK t : t = StandsFor(row, a)  OBVIOUS
  <2>5. a <= b /\ t \in Seq(P) /\ Len(t) = b - a /\ \A j \in 1..(b - a) : t[j] = <<a + j, hid[a + j]>>
    <3>1. CASE row.row = "frame"
      <4>1. t = << <<row.number, FALSE>> >>  BY <2>4, <3>1 DEF StandsFor
      <4>2. row.number = a + 1 /\ b = a + 1 /\ hid[b] = FALSE  BY <2>3, <3>1 DEF Stands
      <4>3. PICK v : v = <<a + 1, FALSE>>  OBVIOUS
      <4>4. t = <<v>> /\ v \in P
        <5>1. t = <<v>>  BY <4>1, <4>2, <4>3
        <5>2. a + 1 \in Nat  OBVIOUS
        <5> QED BY <4>3, <5>1, <5>2
      <4>5. t \in Seq(P) /\ Len(t) = 1 /\ t[1] = v
        <5> HIDE DEF P
        <5> QED BY <4>4
      <4>6. \A j \in 1..(b - a) : j = 1  BY <4>2
      <4>7. t[1] = <<a + 1, hid[a + 1]>>  BY <4>2, <4>3, <4>5
      <4> QED BY <4>2, <4>5, <4>6, <4>7
    <3>2. CASE row.row = "more"
      <4>1. t = [i \in 1..row.number |-> <<a + i, TRUE>>]  BY <2>4, <3>2 DEF StandsFor
      <4>2. a < b /\ row.number = b - a /\ \A i \in (a + 1)..b : hid[i] = TRUE
        BY <2>3, <3>2 DEF Stands
      <4>3. PICK d \in Nat : d = b - a  BY <4>2
      <4>4. t = [i \in 1..d |-> <<a + i, TRUE>>]  BY <4>1, <4>2, <4>3
      <4>5. \A i \in 1..d : <<a + i, TRUE>> \in P
        <5>1. \A i \in 1..d : a + i \in Nat  OBVIOUS
        <5> QED BY <5>1
      <4>6. t \in Seq(P) /\ Len(t) = d
        <5> HIDE DEF P
        <5>1. t \in [1..d -> P]  BY <4>4, <4>5
        <5> QED BY <5>1
      <4>7. \A i \in 1..d : a + i \in (a + 1)..b  BY <4>3
      <4>8. \A i \in 1..d : t[i] = <<a + i, hid[a + i]>>  BY <4>2, <4>4, <4>7
      <4> QED BY <4>2, <4>3, <4>6, <4>8
    <3>3. CASE row.row = "async"
      <4>1. t = <<>>  BY <2>4, <3>3 DEF StandsFor
      <4>2. b = a  BY <2>3, <3>3 DEF Stands
      <4>3. t \in Seq(P) /\ Len(t) = 0  BY <4>1, EmptySeq
      <4>4. b - a = 0 /\ \A j \in 1..(b - a) : FALSE  BY <4>2
      <4> QED BY <4>2, <4>3, <4>4
    <3> QED BY <3>1, <3>2, <3>3 DEF RowShape
  <2>6. PICK s : s = S(a)  OBVIOUS
  <2>7. s \in Seq(P) /\ Len(s) = a /\ \A i \in 1..a : s[i] = <<i, hid[i]>>  BY <1>6, <2>6
  <2>8. PICK u : u = S(b)  OBVIOUS
  <2>9. u \in Seq(P) /\ Len(u) = b /\ \A i \in 1..b : u[i] = <<i, hid[i]>>  BY <1>6, <2>8
  <2>10. PICK w : w = s \o t  OBVIOUS
  <2>11. w \in Seq(P) /\ Len(w) = a + (b - a)
         /\ \A i \in 1..(a + (b - a)) : w[i] = IF i <= a THEN s[i] ELSE t[i - a]
    <3> HIDE DEF P
    <3>1. /\ w \in Seq(P) /\ Len(w) = Len(s) + Len(t)
          /\ \A i \in 1..(Len(s) + Len(t)) : w[i] = IF i <= Len(s) THEN s[i] ELSE t[i - Len(s)]
      BY <2>5, <2>7, <2>10, ConcatProperties
    <3> QED BY <2>5, <2>7, <3>1
  <2>12. a + (b - a) = b  OBVIOUS
  <2>13. ASSUME NEW i \in 1..b PROVE w[i] = u[i]
    <3>1. CASE i <= a
      <4>1. i \in 1..a  BY <3>1
      <4> QED BY <2>7, <2>9, <2>11, <2>12, <3>1, <4>1
    <3>2. CASE ~(i <= a)
      <4>1. i - a \in 1..(b - a) /\ a + (i - a) = i  BY <3>2
      <4>2. t[i - a] = <<i, hid[i]>>  BY <2>5, <4>1
      <4> QED BY <2>9, <2>11, <2>12, <3>2, <4>2
    <3> QED BY <3>1, <3>2
  <2>14. u = w
    <3> HIDE DEF P
    <3> QED BY <2>9, <2>11, <2>12, <2>13, SeqEqual
  <2> QED BY <2>1, <2>2, <2>4, <2>6, <2>8, <2>10, <2>14
<1> HIDE DEF S
<1> DEFINE s == [k \in 0..L |-> S(above[k])]
<1>8. \A k \in 0..L : s[k] = S(above[k]) /\ above[k] \in 0..N  OBVIOUS
<1>9. S(0) = <<>>
  <2>1. S(0) = [i \in 1..0 |-> <<i, hid[i]>>]  BY DEF S
  <2>2. Len(S(0)) = 0 /\ S(0) \in Seq(P)
    <3>1. 0 \in 0..N  OBVIOUS
    <3> QED BY <1>6, <3>1 DEF S
  <2> QED BY <2>2, EmptySeq
<1>10. ASSUME NEW k \in 1..L PROVE s[k] = s[k - 1] \o StandsFor(drawn[k], Len(s[k - 1]))
  <2>1. k \in 0..L /\ k - 1 \in 0..L  OBVIOUS
  <2>2. Len(s[k - 1]) = above[k - 1]  BY <1>6, <1>8, <2>1 DEF S
  <2>3. s[k] = S(above[k]) /\ s[k - 1] = S(above[k - 1])  BY <1>8, <2>1
  <2>4. S(above[k]) = S(above[k - 1]) \o StandsFor(drawn[k], above[k - 1])  BY <1>7 DEF S
  <2> QED BY <2>2, <2>3, <2>4
<1>11. s[0] = <<>>
  <2>1. 0 \in 0..L  OBVIOUS
  <2> QED BY <1>3, <1>8, <1>9, <2>1
<1>12. s = [k \in 0..L |-> s[k]]  OBVIOUS
<1> HIDE DEF s
<1>13. s = Body(s)
  <2>1. \A k \in 0..L : k = 0 \/ k \in 1..L  OBVIOUS
  <2>2. \A k \in 0..L : s[k] = IF k = 0 THEN <<>> ELSE s[k - 1] \o StandsFor(drawn[k], Len(s[k - 1]))
    BY <1>10, <1>11, <2>1
  <2> QED BY <1>5, <1>12, <2>2
<1>14. g = Body(g)  BY <1>13 DEF g
<1>15. \A k \in 0..L : g[k] = IF k = 0 THEN <<>> ELSE g[k - 1] \o StandsFor(drawn[k], Len(g[k - 1]))
  BY <1>5, <1>14
<1> DEFINE T == {k \in Nat : k <= L => g[k] = s[k]}
<1>16. 0 \in T
  <2>1. 0 \in 0..L  OBVIOUS
  <2> QED BY <1>11, <1>15, <2>1
<1>17. ASSUME NEW k \in Nat, k \in T PROVE k + 1 \in T
  <2> SUFFICES ASSUME k + 1 <= L PROVE g[k + 1] = s[k + 1]
    OBVIOUS
  <2>1. g[k] = s[k]  BY <1>17
  <2>2. k + 1 \in 0..L /\ k + 1 # 0 /\ k + 1 \in 1..L /\ (k + 1) - 1 = k  OBVIOUS
  <2>3. g[k + 1] = g[k] \o StandsFor(drawn[k + 1], Len(g[k]))  BY <1>15, <2>2
  <2>4. s[k + 1] = s[k] \o StandsFor(drawn[k + 1], Len(s[k]))  BY <1>10, <2>2
  <2> QED BY <2>1, <2>3, <2>4
<1>18. \A k \in Nat : k \in T
  <2> HIDE DEF T
  <2> QED BY <1>16, <1>17, SetInduction
<1>19. g[L] = s[L]  BY <1>18
<1>20. s[L] = S(N)
  <2>1. L \in 0..L  OBVIOUS
  <2> QED BY <1>3, <1>8, <2>1 DEF s
<1> QED BY <1>2, <1>4, <1>19, <1>20 DEF S

\* What has been painted after i frames: rows, and a run of hidden frames below.
Painted(done, i, hid) ==
    /\ done = [rows |-> done.rows, run |-> done.run]
    /\ done.run \in 0..i /\ Tiled(done.rows, hid, i - done.run)
    /\ \A j \in ((i - done.run) + 1)..i : hid[j] = TRUE
    /\ NoTwoMore(done.rows) /\ EndsClear(done.rows)

\* The run gets a row of its own.
LEMMA RunShown ==
    ASSUME NEW i \in Nat, NEW hid, NEW done, Painted(done, i, hid)
    PROVE  LET drawn == done.rows \o ShowMore(done.run) IN
           drawn \in Seq(RowShape) /\ Tiled(drawn, hid, i) /\ NoTwoMore(drawn)
<1>1. PICK s, n : s = done.rows /\ n = done.run  OBVIOUS
<1>2. /\ n \in 0..i /\ Tiled(s, hid, i - n) /\ NoTwoMore(s) /\ EndsClear(s)
      /\ \A j \in ((i - n) + 1)..i : hid[j] = TRUE
  BY <1>1 DEF Painted
<1>3. s \in Seq(RowShape)  BY <1>2 DEF Tiled
<1>4. PICK drawn : drawn = s \o ShowMore(n)  OBVIOUS
<1>5. CASE n = 0
  <2>1. ShowMore(n) = <<>>  BY <1>5 DEF ShowMore
  <2>2. drawn = s  BY <1>3, <1>4, <2>1, ConcatEmptySeq
  <2>3. i - n = i  BY <1>5
  <2> QED BY <1>1, <1>2, <1>3, <1>4, <2>2, <2>3
<1>6. CASE n # 0
  <2>1. PICK row : row = [row |-> "more", number |-> n]  OBVIOUS
  <2>2. ShowMore(n) = <<row>>  BY <1>6, <2>1 DEF ShowMore
  <2>3. row \in RowShape /\ row.row = "more" /\ row.number = n  BY <1>2, <2>1 DEF RowShape
  <2>4. drawn = Append(s, row)  BY <1>3, <1>4, <2>2, <2>3, AppendIsConcat
  <2>5. PICK a \in Nat : a = i - n  BY <1>2
  <2>6. a < i /\ n = i - a  BY <1>2, <1>6, <2>5
  <2>7. Stands(row, a, i, hid)  BY <1>2, <2>3, <2>5, <2>6 DEF Stands
  <2>8. Tiled(s, hid, a) /\ i >= a  BY <1>2, <2>5, <2>6
  <2>9. Tiled(drawn, hid, i)  BY <2>3, <2>4, <2>7, <2>8, OneMoreRow
  <2>10. NoTwoMore(drawn)  BY <1>2, <1>3, <2>3, <2>4, RowAfter
  <2>11. drawn \in Seq(RowShape)  BY <2>9 DEF Tiled
  <2> QED BY <1>1, <1>4, <2>9, <2>10, <2>11
<1> QED BY <1>5, <1>6

\* One more frame.
LEMMA PaintsOn ==
    ASSUME NEW i \in Nat, NEW hid, NEW done, Painted(done, i, hid), NEW hides \in BOOLEAN,
           hid[i + 1] = hides
    PROVE  Painted(Paint(done, i + 1, hides), i + 1, hid)
<1>1. PICK s, n : s = done.rows /\ n = done.run  OBVIOUS
<1>2. /\ n \in 0..i /\ Tiled(s, hid, i - n) /\ NoTwoMore(s) /\ EndsClear(s)
      /\ \A j \in ((i - n) + 1)..i : hid[j] = TRUE
      /\ done = [rows |-> s, run |-> n]
  BY <1>1 DEF Painted
<1>3. PICK new : new = Paint(done, i + 1, hides)  OBVIOUS
<1>4. CASE hides
  <2>1. new = [done EXCEPT !.run = @ + 1]  BY <1>3, <1>4 DEF Paint
  <2>2. new = [rows |-> s, run |-> n + 1]  BY <1>2, <2>1
  <2>3. new.rows = s /\ new.run = n + 1 /\ new = [rows |-> new.rows, run |-> new.run]  BY <2>2
  <2>4. n + 1 \in 0..(i + 1) /\ (i + 1) - (n + 1) = i - n  BY <1>2
  <2>5. \A j \in ((i - n) + 1)..(i + 1) : j = i + 1 \/ j \in ((i - n) + 1)..i  BY <1>2
  <2>6. \A j \in ((i - n) + 1)..(i + 1) : hid[j] = TRUE  BY <1>2, <1>4, <2>5
  <2> QED BY <1>2, <1>3, <2>3, <2>4, <2>6 DEF Painted
<1>5. CASE ~hides
  <2>1. PICK base : base = s \o ShowMore(n)  OBVIOUS
  <2>2. base \in Seq(RowShape) /\ Tiled(base, hid, i) /\ NoTwoMore(base)  BY <1>1, <2>1, RunShown
  <2>3. PICK row : row = FrameRow(i + 1)  OBVIOUS
  <2>4. row \in RowShape /\ row.row = "frame" /\ row.number = i + 1  BY <2>3 DEF FrameRow, RowShape
  <2>5. PICK drawn : drawn = Append(base, row)  OBVIOUS
  <2>6. new = [rows |-> drawn, run |-> 0]  BY <1>1, <1>3, <1>5, <2>1, <2>3, <2>5 DEF Paint
  <2>7. new.rows = drawn /\ new.run = 0 /\ new = [rows |-> new.rows, run |-> new.run]  BY <2>6
  <2>8. row.row # "more"  BY <2>4
  <2>9. NoTwoMore(drawn) /\ EndsClear(drawn)  BY <2>2, <2>4, <2>5, <2>8, RowAfter
  <2>10. PICK m \in Nat : m = i + 1  OBVIOUS
  <2>11. Stands(row, i, m, hid) /\ m >= i  BY <1>5, <2>4, <2>10 DEF Stands
  <2>12. Tiled(drawn, hid, m)  BY <2>2, <2>4, <2>5, <2>11, OneMoreRow
  <2>13. 0 \in 0..m /\ m - 0 = m /\ \A j \in ((m - 0) + 1)..m : FALSE  BY <2>10
  <2>14. Painted(new, m, hid)  BY <2>7, <2>9, <2>12, <2>13 DEF Painted
  <2> QED BY <1>3, <2>10, <2>14
<1> QED BY <1>4, <1>5

\* All rows of n frames, and below them of A async ones.
AllShown(drawn, hid, n, A) ==
    /\ Tiled(drawn, hid, n) /\ NoTwoMore(drawn) /\ Len(drawn) - A \in Nat
    /\ \A i \in 1..A : drawn[(Len(drawn) - A) + i] = AsyncRow(i)

LEMMA AsyncBelow ==
    ASSUME NEW n \in Nat, NEW hid, NEW drawn, Tiled(drawn, hid, n), NoTwoMore(drawn), NEW state,
           NEW A \in Nat, A = Len(state.async)
    PROVE  AllShown(drawn \o AsyncRows(state), hid, n, A)
<1>1. drawn \in Seq(RowShape)  BY DEF Tiled
<1>2. PICK L \in Nat : L = Len(drawn)  BY <1>1, LenProperties
<1>3. PICK above \in [0..L -> 0..n] :
          /\ above[0] = 0 /\ above[L] = n
          /\ \A k \in 1..L : Stands(drawn[k], above[k - 1], above[k], hid)
  BY <1>2 DEF Tiled
<1>4. PICK t : t = AsyncRows(state)  OBVIOUS
<1>5. t = [i \in 1..A |-> AsyncRow(i)]  BY <1>4 DEF AsyncRows
<1>6. \A i \in 1..A : t[i] = AsyncRow(i) /\ AsyncRow(i) \in RowShape /\ AsyncRow(i).row = "async"
  BY <1>5 DEF AsyncRow, RowShape
<1>7. t \in Seq(RowShape) /\ Len(t) = A
  <2>1. t \in [1..A -> RowShape]  BY <1>5, <1>6
  <2> QED BY <2>1, SequenceOf
<1>8. PICK whole : whole = drawn \o t  OBVIOUS
<1>9. /\ whole \in Seq(RowShape) /\ Len(whole) = L + A
      /\ \A k \in 1..(L + A) : whole[k] = IF k <= L THEN drawn[k] ELSE t[k - L]
  <2>1. /\ whole \in Seq(RowShape) /\ Len(whole) = Len(drawn) + Len(t)
        /\ \A k \in 1..(Len(drawn) + Len(t)) : whole[k] = IF k <= Len(drawn) THEN drawn[k] ELSE t[k - Len(drawn)]
    BY <1>1, <1>7, <1>8, ConcatProperties
  <2> QED BY <1>2, <1>7, <2>1
<1>10. \A k \in 1..L : whole[k] = drawn[k]
  <2>1. \A k \in 1..L : k \in 1..(L + A) /\ k <= L  OBVIOUS
  <2> QED BY <1>9, <2>1
<1>11. \A k \in (L + 1)..(L + A) : whole[k] = t[k - L] /\ k - L \in 1..A
  <2>1. \A k \in (L + 1)..(L + A) : k \in 1..(L + A) /\ ~(k <= L) /\ k - L \in 1..A  OBVIOUS
  <2> QED BY <1>9, <2>1
<1>12. \A k \in 1..(L + A) : k \in 1..L \/ k \in (L + 1)..(L + A)  OBVIOUS
<1>13. PICK f : f = [k \in 0..(L + A) |-> IF k <= L THEN above[k] ELSE n]  OBVIOUS
<1>14. \A k \in 0..L : f[k] = above[k]
  <2>1. \A k \in 0..L : k \in 0..(L + A) /\ k <= L  OBVIOUS
  <2> QED BY <1>13, <2>1
<1>15. \A k \in L..(L + A) : f[k] = n
  <2>1. f[L] = n
    <3>1. L \in 0..L  OBVIOUS
    <3> QED BY <1>3, <1>14, <3>1
  <2>2. \A k \in L..(L + A) : k \in 0..(L + A) /\ (k = L \/ ~(k <= L))  OBVIOUS
  <2> QED BY <1>13, <2>1, <2>2
<1>16. f \in [0..(L + A) -> 0..n] /\ f[0] = 0 /\ f[L + A] = n
  <2>1. 0 \in 0..L /\ L + A \in L..(L + A) /\ n \in 0..n  OBVIOUS
  <2>2. \A k \in 0..(L + A) : k <= L => k \in 0..L  OBVIOUS
  <2>3. f \in [0..(L + A) -> 0..n]  BY <1>13, <2>1, <2>2
  <2> QED BY <1>3, <1>14, <1>15, <2>1, <2>3
<1>17. ASSUME NEW k \in 1..(L + A) PROVE Stands(whole[k], f[k - 1], f[k], hid)
  <2>1. CASE k \in 1..L
    <3>1. k \in 0..L /\ k - 1 \in 0..L  BY <2>1
    <3>2. f[k] = above[k] /\ f[k - 1] = above[k - 1] /\ whole[k] = drawn[k]  BY <1>10, <1>14, <2>1, <3>1
    <3> QED BY <1>3, <2>1, <3>2
  <2>2. CASE k \in (L + 1)..(L + A)
    <3>1. k \in L..(L + A) /\ k - 1 \in L..(L + A)  BY <2>2
    <3>2. f[k] = n /\ f[k - 1] = n  BY <1>15, <3>1
    <3>3. whole[k].row = "async"  BY <1>6, <1>11, <2>2
    <3> QED BY <3>2, <3>3 DEF Stands
  <2> QED BY <1>12, <2>1, <2>2
<1>18. Tiled(whole, hid, n)
  <2>1. \E g \in [0..Len(whole) -> 0..n] :
          /\ g[0] = 0 /\ g[Len(whole)] = n
          /\ \A k \in 1..Len(whole) : Stands(whole[k], g[k - 1], g[k], hid)
    BY <1>9, <1>16, <1>17
  <2> QED BY <1>9, <2>1 DEF Tiled
<1>19. NoTwoMore(whole)
  <2> SUFFICES ASSUME NEW k \in 1..((L + A) - 1), whole[k].row = "more", whole[k + 1].row = "more" PROVE FALSE
    BY <1>9 DEF NoTwoMore
  <2>1. k + 1 \in 1..L \/ k + 1 \in (L + 1)..(L + A)  OBVIOUS
  <2>2. k + 1 \notin (L + 1)..(L + A)  BY <1>6, <1>11
  <2>3. k \in 1..(L - 1) /\ k \in 1..L  BY <2>1, <2>2
  <2> QED BY <1>2, <1>10, <2>1, <2>2, <2>3 DEF NoTwoMore
<1>20. \A i \in 1..A : whole[((L + A) - A) + i] = AsyncRow(i)
  <2>1. \A i \in 1..A : ((L + A) - A) + i \in (L + 1)..(L + A) /\ (((L + A) - A) + i) - L = i  OBVIOUS
  <2> QED BY <1>6, <1>11, <2>1
<1>21. (L + A) - A \in Nat  OBVIOUS
<1> QED BY <1>4, <1>8, <1>9, <1>18, <1>19, <1>20, <1>21 DEF AllShown

\* A row's number is that of a frame.
LEMMA RowNumbersAFrame ==
    ASSUME NEW n \in Nat, NEW hid, NEW drawn, Tiled(drawn, hid, n), NEW k \in 1..Len(drawn),
           drawn[k].row = "frame"
    PROVE  drawn[k].number \in 1..n
<1>1. drawn \in Seq(RowShape)  BY DEF Tiled
<1>2. PICK L \in Nat : L = Len(drawn)  BY <1>1, LenProperties
<1>3. PICK above \in [0..L -> 0..n] : \A j \in 1..L : Stands(drawn[j], above[j - 1], above[j], hid)
  BY <1>2 DEF Tiled
<1>4. k \in 0..L /\ k - 1 \in 0..L  BY <1>2
<1>5. PICK a \in 0..n, b \in 0..n : a = above[k - 1] /\ b = above[k]  BY <1>3, <1>4
<1>6. Stands(drawn[k], a, b, hid)  BY <1>2, <1>3, <1>5
<1>7. drawn[k].number = a + 1 /\ b = a + 1  BY <1>6 DEF Stands
<1> QED BY <1>7

\* What is painted is rows.
LEMMA PaintedIsRows ==
    ASSUME NEW v \in [rows : Seq(RowShape), run : Nat], NEW i \in Nat, NEW hides
    PROVE  Paint(v, i, hides) \in [rows : Seq(RowShape), run : Nat]
<1>1. PICK s \in Seq(RowShape), n \in Nat : v = [rows |-> s, run |-> n]  OBVIOUS
<1>2. CASE hides
  <2>1. Paint(v, i, hides) = [v EXCEPT !.run = @ + 1]  BY <1>2 DEF Paint
  <2>2. Paint(v, i, hides) = [rows |-> s, run |-> n + 1]  BY <1>1, <2>1
  <2> QED BY <2>2
<1>3. CASE ~hides
  <2>1. PICK more : more = ShowMore(n)  OBVIOUS
  <2>2. more \in Seq(RowShape)
    <3>1. CASE n = 0
      <4>1. more = <<>>  BY <2>1, <3>1 DEF ShowMore
      <4> QED BY <4>1, EmptySeq
    <3>2. CASE n # 0
      <4>1. PICK r : r = [row |-> "more", number |-> n]  OBVIOUS
      <4>2. r \in RowShape  BY <4>1 DEF RowShape
      <4>3. more = <<r>>  BY <2>1, <3>2, <4>1 DEF ShowMore
      <4> QED BY <4>2, <4>3
    <3> QED BY <3>1, <3>2
  <2>3. PICK r : r = FrameRow(i)  OBVIOUS
  <2>4. r \in RowShape  BY <2>3 DEF RowShape, FrameRow
  <2>5. PICK t : t = s \o more  OBVIOUS
  <2>6. t \in Seq(RowShape)  BY <2>2, <2>5, ConcatProperties
  <2>7. PICK u : u = Append(t, r)  OBVIOUS
  <2>8. u \in Seq(RowShape)  BY <2>4, <2>6, <2>7, AppendProperties
  <2>9. v.rows = s /\ v.run = n  BY <1>1
  <2>10. Paint(v, i, hides) = [rows |-> u, run |-> 0]
    BY <1>3, <2>1, <2>3, <2>5, <2>7, <2>9 DEF Paint
  <2> QED BY <2>8, <2>10
<1> QED BY <1>2, <1>3

LEMMA PaintedRight ==
    ASSUME NEW state, NEW everything \in BOOLEAN, NEW N \in Nat, N = Len(state.frames),
           NEW A \in Nat, A = Len(state.async),
           \A i \in 1..N : state.frames[i].hidden \in BOOLEAN
    PROVE  LET hid == [i \in 1..N |-> state.frames[i].hidden /\ ~everything]
           IN  AllShown(PaintFrames(state, everything), hid, N, A)
<1> DEFINE h(i) == state.frames[i].hidden /\ ~everything
           hid == [i \in 1..N |-> h(i)]
           V == [rows : Seq(RowShape), run : Nat]
           none == [rows |-> <<>>, run |-> 0]
           Body(s) == [i \in 0..Len(state.frames) |->
                          IF i = 0 THEN [rows |-> <<>>, run |-> 0]
                          ELSE Paint(s[i - 1], i, state.frames[i].hidden /\ ~everything)]
           g == CHOOSE g : g = Body(g)
           step == [i \in 1..N |-> [v \in V |-> Paint(v, i, h(i))]]
<1>1. none \in V
  <2>1. <<>> \in Seq(RowShape)  BY EmptySeq
  <2> QED BY <2>1
<1>2. ASSUME NEW v \in V, NEW i \in 1..N PROVE Paint(v, i, h(i)) \in V
  BY PaintedIsRows
<1>3. PaintFrames(state, everything) = (g[N].rows \o ShowMore(g[N].run)) \o AsyncRows(state)
  BY Zenon DEF PaintFrames
<1>4. \A s : Body(s) = [i \in 0..N |-> IF i = 0 THEN none ELSE Paint(s[i - 1], i, h(i))]
  BY Zenon
<1> HIDE DEF g, Body, V, none
<1>5. step \in [1..N -> [V -> V]]  BY <1>2
<1>6. \A i \in 1..N, v \in V : step[i][v] = Paint(v, i, h(i))  OBVIOUS
<1> HIDE DEF step, h
<1>7. PICK s \in [0..N -> V] : s[0] = none /\ \A i \in 1..N : s[i] = step[i][s[i - 1]]
  <2>1. Runs(N, V, none, step) # {}  BY <1>1, <1>5, RecursionExists DEF Steps
  <2>2. PICK s \in Runs(N, V, none, step) : TRUE  BY <2>1
  <2> QED BY <2>2 DEF Runs
<1>8. s = Body(s)
  <2>1. \A i \in 1..N : i - 1 \in 0..N  OBVIOUS
  <2>2. \A i \in 1..N : s[i] = Paint(s[i - 1], i, h(i))  BY <1>6, <1>7, <2>1
  <2>3. \A i \in 0..N : i = 0 \/ i \in 1..N  OBVIOUS
  <2>4. \A i \in 0..N : s[i] = IF i = 0 THEN none ELSE Paint(s[i - 1], i, h(i))
    BY <1>7, <2>2, <2>3
  <2> QED BY <1>4, <1>7, <2>4
<1>9. g = Body(g)  BY <1>8 DEF g
<1>10. \A i \in 0..N : g[i] = IF i = 0 THEN none ELSE Paint(g[i - 1], i, h(i))
  BY <1>4, <1>9
<1> DEFINE T == {i \in Nat : i <= N => Painted(g[i], i, hid)}
<1>11. 0 \in T
  <2>1. g[0] = none /\ none.rows = <<>> /\ none.run = 0 /\ none = [rows |-> none.rows, run |-> none.run]
    <3>1. 0 \in 0..N  OBVIOUS
    <3> QED BY <1>10, <3>1 DEF none
  <2>2. PICK d : d = g[0]  OBVIOUS
  <2>3. d.rows = <<>> /\ d.run = 0 /\ d = [rows |-> d.rows, run |-> d.run]  BY <2>1, <2>2
  <2> HIDE DEF hid
  <2>4. Tiled(d.rows, hid, 0) /\ NoTwoMore(d.rows) /\ EndsClear(d.rows)  BY <2>3, NothingTiled
  <2>5. 0 \in 0..0 /\ 0 - 0 = 0 /\ \A j \in ((0 - 0) + 1)..0 : FALSE  OBVIOUS
  <2>6. Painted(d, 0, hid)  BY <2>3, <2>4, <2>5 DEF Painted
  <2> QED BY <2>2, <2>6
<1>12. ASSUME NEW i \in Nat, i \in T PROVE i + 1 \in T
  <2> SUFFICES ASSUME i + 1 <= N PROVE Painted(g[i + 1], i + 1, hid)
    OBVIOUS
  <2>1. i + 1 \in 1..N /\ i + 1 \in 0..N /\ i + 1 # 0 /\ (i + 1) - 1 = i /\ i <= N  OBVIOUS
  <2>2. g[i + 1] = Paint(g[i], i + 1, h(i + 1))  BY <1>10, <2>1
  <2>3. PICK hides \in BOOLEAN : hides = h(i + 1)  BY <2>1 DEF h
  <2>4. hid[i + 1] = hides  BY <2>1, <2>3
  <2>5. Painted(g[i], i, hid)  BY <1>12, <2>1
  <2> HIDE DEF hid
  <2>6. PICK d : d = g[i]  OBVIOUS
  <2>7. Painted(Paint(d, i + 1, hides), i + 1, hid)  BY <2>4, <2>5, <2>6, PaintsOn
  <2> QED BY <2>2, <2>3, <2>6, <2>7
<1> HIDE DEF T, hid
<1>13. \A i \in Nat : i \in T  BY <1>11, <1>12, SetInduction
<1>14. PICK d : d = g[N]  OBVIOUS
<1>15. Painted(d, N, hid)  BY <1>13, <1>14 DEF T
<1>16. PICK base : base = d.rows \o ShowMore(d.run)  OBVIOUS
<1>17. Tiled(base, hid, N) /\ NoTwoMore(base)  BY <1>15, <1>16, RunShown
<1>18. PICK drawn : drawn = base \o AsyncRows(state)  OBVIOUS
<1>19. AllShown(drawn, hid, N, A)  BY <1>17, <1>18, AsyncBelow
<1>20. PaintFrames(state, everything) = drawn  BY <1>3, <1>14, <1>16, <1>18
<1> QED BY <1>19, <1>20 DEF hid, h

LEMMA ShownRight ==
    ASSUME NEW N \in Nat, N = Len(stack.frames), Len(stack.async) \in Nat, showsAll \in BOOLEAN,
           \A i \in 1..N : stack.frames[i].hidden \in BOOLEAN
    PROVE  /\ FramesAreShown
           /\ \A k \in 1..Len(ShownRows) : ShownRows[k].row = "frame" => ShownRows[k].number \in 1..N
<1>1. PICK A \in Nat : A = Len(stack.async)  OBVIOUS
<1>2. PICK drawn : drawn = ShownRows  OBVIOUS
<1>3. PICK hid : hid = [i \in 1..N |-> stack.frames[i].hidden /\ ~showsAll]  OBVIOUS
<1>4. AllShown(drawn, hid, N, A)  BY <1>1, <1>2, <1>3, PaintedRight DEF ShownRows
<1>5. hid \in [1..N -> BOOLEAN]  BY <1>3
<1>6. StoodFor(drawn) = [i \in 1..N |-> <<i, hid[i]>>]
  BY <1>4, <1>5, TiledStandsFor DEF AllShown
<1>7. [i \in 1..N |-> <<i, hid[i]>>] = [i \in 1..N |-> <<i, stack.frames[i].hidden /\ ~showsAll>>]
  BY <1>3, Zenon
<1>8. FramesAreShown
  <2>1. \A k \in 1..(Len(drawn) - 1) : drawn[k].row = "more" => drawn[k + 1].row # "more"
    BY <1>4 DEF AllShown, NoTwoMore
  <2>2. \A i \in 1..A : drawn[(Len(drawn) - A) + i] = AsyncRow(i)  BY <1>4 DEF AllShown
  <2> QED BY <1>1, <1>2, <1>6, <1>7, <2>1, <2>2, Zenon DEF FramesAreShown
<1>9. \A k \in 1..Len(drawn) : drawn[k].row = "frame" => drawn[k].number \in 1..N
  BY <1>4, RowNumbersAFrame DEF AllShown
<1> QED BY <1>2, <1>8, <1>9

\* What the agent makes of p pauses.
IsFold(s, p) ==
    /\ s = [pause |-> s.pause, frames |-> s.frames, async |-> s.async, selected |-> 1]
    /\ s.pause \in 0..p /\ (s.pause = 0 => s.frames = <<>>)
    /\ \E S : s.frames \in Seq(S)
    /\ Len(s.async) \in Nat
    /\ \A i \in 1..Len(s.frames) : s.frames[i].hidden \in BOOLEAN /\ s.frames[i].pause = s.pause

\* Clicks on frames of p pauses: those on the pause that is shown are on its frames.
AreClicks(list, s, p) ==
    /\ \E S : list \in Seq(S)
    /\ \A k \in 1..Len(list) :
          /\ list[k].number \in Nat /\ list[k].number >= 1
          /\ list[k].of.pause \in 1..p
          /\ list[k].of.pause = s.pause =>
                list[k].number <= Len(s.frames) /\ s.frames[list[k].number] = list[k].of

\* The inductive invariant: but for the selection the agent's state is published.
StackTyped ==
    /\ pauses \in Nat /\ showsAll \in BOOLEAN
    /\ IsFold(folded, pauses) /\ AreClicks(selections, folded, pauses)
    /\ stack = [folded EXCEPT !.selected = stack.selected]
StackInv == StackTyped /\ HasSelection(stack)

LEMMA RunningIsFold == ASSUME NEW p \in Nat PROVE IsFold(Running, p) /\ HasSelection(Running)
<1>1. PICK s : s = Running  OBVIOUS
<1>2. PICK e : e = <<>>  OBVIOUS
<1>3. e \in Seq({}) /\ Len(e) = 0  BY <1>2, EmptySeq
<1>4. s = [pause |-> 0, frames |-> e, async |-> e, selected |-> 1]  BY <1>1, <1>2 DEF Running
<1>5. s.pause = 0 /\ s.frames = e /\ s.async = e  BY <1>4
<1>6. 0 \in 0..p /\ \A i \in 1..0 : FALSE  OBVIOUS
<1>7. IsFold(s, p)  BY <1>2, <1>3, <1>4, <1>5, <1>6 DEF IsFold
<1> QED BY <1>1, <1>2, <1>5, <1>7 DEF HasSelection

LEMMA PauseIsFold ==
    ASSUME NEW p \in Nat, NEW event \in PauseEvents
    PROVE  IsFold(FromPaused(p + 1, event), p + 1) /\ FromPaused(p + 1, event).pause = p + 1
<1>1. PICK s : s = FromPaused(p + 1, event)  OBVIOUS
<1>2. PICK N \in Nat, A \in Nat : N = Len(event.frames) /\ A = Len(FlattenSeq(event.async))
  BY StackConstants
<1>3. PICK fs : fs = [i \in 1..N |-> StackFrame(p + 1, i, event.frames[i])]  OBVIOUS
<1>4. PICK as : as = FlattenAsyncStack(p + 1, event.async)  OBVIOUS
<1>5. s = [pause |-> p + 1, frames |-> fs, async |-> as, selected |-> 1]
  BY <1>1, <1>2, <1>3, <1>4 DEF FromPaused
<1>6. s.pause = p + 1 /\ s.frames = fs /\ s.async = as  BY <1>5
<1>7. PICK S : S = {fs[i] : i \in 1..N}  OBVIOUS
<1>8. fs \in Seq(S) /\ Len(fs) = N
  <2>1. fs \in [1..N -> S]  BY <1>3, <1>7
  <2> QED BY <2>1, SequenceOf
<1>9. Len(as) = A
  <2>1. PICK fns : fns = FlattenSeq(event.async)  OBVIOUS
  <2>2. as = [i \in 1..A |-> StackFrame(p + 1, i, fns[i])]  BY <1>2, <1>4, <2>1 DEF FlattenAsyncStack
  <2>3. PICK R : R = {as[i] : i \in 1..A}  OBVIOUS
  <2>4. as \in [1..A -> R]  BY <2>2, <2>3
  <2> QED BY <2>4, SequenceOf
<1>10. ASSUME NEW i \in 1..N PROVE fs[i].hidden \in BOOLEAN /\ fs[i].pause = p + 1
  <2>1. fs[i] = [pause |-> p + 1, place |-> i, hidden |-> event.frames[i] \in Blackboxed]
    BY <1>3 DEF StackFrame
  <2> QED BY <2>1
<1>11. p + 1 \in 0..(p + 1) /\ p + 1 # 0  OBVIOUS
<1>12. IsFold(s, p + 1)  BY <1>5, <1>6, <1>8, <1>9, <1>10, <1>11 DEF IsFold
<1> QED BY <1>1, <1>6, <1>12

\* The agent's own state selects the first frame.
LEMMA FoldSelects == ASSUME NEW p \in Nat, NEW s, IsFold(s, p) PROVE HasSelection(s)
<1>1. PICK S : s.frames \in Seq(S)  BY DEF IsFold
<1>2. s.frames # <<>> => Len(s.frames) \in Nat \ {0}  BY <1>1, EmptySeq
<1>3. s.selected = 1  BY DEF IsFold
<1> QED BY <1>2, <1>3 DEF HasSelection

\* What the selection does not change.
LEMMA StackIsFold ==
    ASSUME StackTyped
    PROVE  stack.pause = folded.pause /\ stack.frames = folded.frames /\ stack.async = folded.async
<1>1. PICK n : n = stack.selected  OBVIOUS
<1>2. folded = [pause |-> folded.pause, frames |-> folded.frames, async |-> folded.async, selected |-> 1]
  BY DEF StackTyped, IsFold
<1>3. stack = [folded EXCEPT !.selected = n]  BY <1>1 DEF StackTyped
<1> QED BY <1>2, <1>3

LEMMA StackReal == ASSUME StackInv PROVE FramesAreShown /\ SelectionIsReal
<1>1. stack.pause = folded.pause /\ stack.frames = folded.frames /\ stack.async = folded.async
  BY StackIsFold DEF StackInv
<1>2. PICK S : folded.frames \in Seq(S)  BY DEF StackInv, StackTyped, IsFold
<1>3. PICK N \in Nat : N = Len(stack.frames)  BY <1>1, <1>2, LenProperties
<1>4. FramesAreShown
  BY <1>1, <1>3, ShownRight DEF StackInv, StackTyped, IsFold
<1>5. ASSUME NEW k \in 1..Len(selections)
      PROVE  LET click == selections[k]
                 after == SelectFrame(stack, click.number)
             IN  /\ HasSelection(after)
                 /\ click.of.pause = after.pause => after.frames[after.selected] = click.of
  <2>1. PICK click : click = selections[k]  OBVIOUS
  <2>2. /\ click.number \in Nat /\ click.number >= 1
        /\ click.of.pause = stack.pause => click.number <= N /\ stack.frames[click.number] = click.of
    BY <1>1, <1>3, <2>1 DEF StackInv, StackTyped, AreClicks
  <2>3. PICK after : after = SelectFrame(stack, click.number)  OBVIOUS
  <2>4. CASE click.number <= N
    <3>1. after = [stack EXCEPT !.selected = click.number]  BY <1>3, <2>3, <2>4 DEF SelectFrame
    <3>2. PICK n : n = stack.selected  OBVIOUS
    <3>3. stack = [pause |-> folded.pause, frames |-> folded.frames, async |-> folded.async, selected |-> n]
      BY <3>2 DEF StackInv, StackTyped, IsFold
    <3>4. after.pause = stack.pause /\ after.frames = stack.frames /\ after.selected = click.number
      BY <3>1, <3>3
    <3>5. HasSelection(after)  BY <1>3, <2>2, <2>4, <3>4 DEF HasSelection
    <3> QED BY <2>1, <2>2, <2>3, <3>4, <3>5
  <2>5. CASE ~(click.number <= N)
    <3>1. after = stack  BY <1>3, <2>3, <2>5 DEF SelectFrame
    <3> QED BY <2>1, <2>2, <2>3, <2>5, <3>1 DEF StackInv
  <2> QED BY <2>4, <2>5
<1> QED BY <1>4, <1>5, Zenon DEF SelectionIsReal, StackInv

LEMMA StackStart == StackInit => StackInv
<1> SUFFICES ASSUME StackInit PROVE StackInv
  OBVIOUS
<1>1. folded = Running /\ stack = Running /\ showsAll = FALSE /\ selections = <<>> /\ pauses = 0
  BY DEF StackInit
<1>2. IsFold(Running, 0) /\ HasSelection(Running)  BY RunningIsFold
<1>3. selections \in Seq({}) /\ Len(selections) = 0  BY <1>1, EmptySeq
<1>4. \A k \in 1..0 : FALSE  OBVIOUS
<1>5. AreClicks(selections, folded, pauses)  BY <1>3, <1>4 DEF AreClicks
<1>6. stack = [folded EXCEPT !.selected = stack.selected]  BY <1>1 DEF Running
<1> QED BY <1>1, <1>2, <1>5, <1>6 DEF StackInv, StackTyped

\* The agent publishes a pause, or that it is over, or what it published before.
LEMMA PublishedKeeps ==
    ASSUME StackInv, NEW s, NEW p \in Nat, StackPublished(s), pauses' = p, p >= pauses,
           IsFold(s, p), s.pause = 0 \/ s.pause > pauses \/ s = folded
    PROVE  StackInv'
<1>1. folded' = s /\ stack' = s /\ showsAll' = showsAll /\ selections' = selections
  BY DEF StackPublished
<1>2. AreClicks(selections, folded, pauses) /\ pauses \in Nat /\ showsAll \in BOOLEAN
  BY DEF StackInv, StackTyped
<1>3. AreClicks(selections, s, p)
  <2>1. ASSUME NEW k \in 1..Len(selections)
        PROVE  /\ selections[k].number \in Nat /\ selections[k].number >= 1
               /\ selections[k].of.pause \in 1..p
               /\ selections[k].of.pause = s.pause =>
                     /\ selections[k].number <= Len(s.frames)
                     /\ s.frames[selections[k].number] = selections[k].of
    <3>1. PICK c : c = selections[k]  OBVIOUS
    <3>2. /\ c.number \in Nat /\ c.number >= 1 /\ c.of.pause \in 1..pauses
          /\ c.of.pause = folded.pause =>
                c.number <= Len(folded.frames) /\ folded.frames[c.number] = c.of
      BY <1>2, <3>1 DEF AreClicks
    <3>3. c.of.pause \in 1..p  BY <1>2, <3>2
    <3>4. s.pause = 0 \/ s.pause > pauses => c.of.pause # s.pause
      <4>1. s.pause \in 0..p  BY DEF IsFold
      <4> QED BY <1>2, <3>2, <4>1
    <3> QED BY <3>1, <3>2, <3>3, <3>4
  <2> QED BY <1>2, <2>1 DEF AreClicks
<1>4. HasSelection(s)  BY FoldSelects
<1>5. s = [s EXCEPT !.selected = s.selected]  BY DEF IsFold
<1>6. stack' = [folded' EXCEPT !.selected = stack'.selected]  BY <1>1, <1>5
<1> QED BY <1>1, <1>2, <1>3, <1>4, <1>6 DEF StackInv, StackTyped, HasSelection

LEMMA ClickFrameKeeps == ASSUME StackInv, ClickFrame PROVE StackInv'
<1>1. stack.pause = folded.pause /\ stack.frames = folded.frames /\ stack.async = folded.async
  BY StackIsFold DEF StackInv
<1>2. PICK S : folded.frames \in Seq(S)  BY DEF StackInv, StackTyped, IsFold
<1>3. PICK N \in Nat : N = Len(stack.frames)  BY <1>1, <1>2, LenProperties
<1>4. \A k \in 1..Len(ShownRows) : ShownRows[k].row = "frame" => ShownRows[k].number \in 1..N
  BY <1>1, <1>3, ShownRight DEF StackInv, StackTyped, IsFold
<1>5. PICK n : n \in 1..N /\ selections' = Append(selections, [number |-> n, of |-> stack.frames[n]])
  BY <1>4 DEF ClickFrame
<1>6. PICK c : c = [number |-> n, of |-> stack.frames[n]]  OBVIOUS
<1>7. c.number = n /\ c.of = folded.frames[n]  BY <1>1, <1>6
<1>8. c.of.pause = folded.pause /\ folded.pause \in 1..pauses
  <2>1. folded.frames[n].pause = folded.pause  BY <1>1, <1>3, <1>5 DEF StackInv, StackTyped, IsFold
  <2>2. folded.frames # <<>>
    <3>1. Len(folded.frames) # 0  BY <1>1, <1>3, <1>5
    <3> QED BY <3>1, EmptySeq
  <2> QED BY <1>7, <2>1, <2>2 DEF StackInv, StackTyped, IsFold
<1>9. AreClicks(selections, folded, pauses)  BY DEF StackInv, StackTyped
<1>10. AreClicks(selections', folded, pauses)
  <2>1. PICK Q : selections \in Seq(Q)  BY <1>9 DEF AreClicks
  <2>2. PICK L \in Nat : L = Len(selections)  BY <2>1, LenProperties
  <2>3. PICK R : Append(selections, c) \in Seq(R)  BY <2>1, AppendAny
  <2>4. PICK more : more = Append(selections, c)  OBVIOUS
  <2>5. more \in Seq(R) /\ Len(more) = L + 1 /\ more[L + 1] = c /\ \A i \in 1..L : more[i] = selections[i]
    BY <2>1, <2>2, <2>3, <2>4, AppendAny
  <2>6. \A k \in 1..(L + 1) : k = L + 1 \/ k \in 1..L  OBVIOUS
  <2>7. \A k \in 1..(L + 1) :
          /\ more[k].number \in Nat /\ more[k].number >= 1 /\ more[k].of.pause \in 1..pauses
          /\ more[k].of.pause = folded.pause =>
                more[k].number <= Len(folded.frames) /\ folded.frames[more[k].number] = more[k].of
    <3> SUFFICES ASSUME NEW k \in 1..(L + 1), NEW m, m = more[k]
                 PROVE  /\ m.number \in Nat /\ m.number >= 1 /\ m.of.pause \in 1..pauses
                        /\ m.of.pause = folded.pause =>
                              m.number <= Len(folded.frames) /\ folded.frames[m.number] = m.of
      OBVIOUS
    <3>1. CASE k = L + 1
      <4>1. m = c  BY <2>5, <3>1
      <4> QED BY <1>1, <1>3, <1>5, <1>7, <1>8, <4>1
    <3>2. CASE k \in 1..L  BY <1>9, <2>2, <2>5, <3>2 DEF AreClicks
    <3> QED BY <2>6, <3>1, <3>2
  <2>8. AreClicks(more, folded, pauses)  BY <2>5, <2>7 DEF AreClicks
  <2> QED BY <1>5, <1>6, <2>4, <2>8
<1>11. UNCHANGED <<folded, stack, showsAll, pauses>>  BY DEF ClickFrame
<1> QED BY <1>10, <1>11 DEF StackInv, StackTyped, HasSelection

LEMMA HostSelectsKeeps == ASSUME StackInv, HostSelects PROVE StackInv'
<1>1. stack.pause = folded.pause /\ stack.frames = folded.frames /\ stack.async = folded.async
  BY StackIsFold DEF StackInv
<1>2. PICK S : folded.frames \in Seq(S)  BY DEF StackInv, StackTyped, IsFold
<1>3. PICK N \in Nat : N = Len(stack.frames)  BY <1>1, <1>2, LenProperties
<1>4. AreClicks(selections, folded, pauses)  BY DEF StackInv, StackTyped
<1>5. PICK Q : selections \in Seq(Q)  BY <1>4 DEF AreClicks
<1>6. PICK L \in Nat : L = Len(selections)  BY <1>5, LenProperties
<1>7. selections # <<>> /\ L # 0  BY <1>5, <1>6, EmptySeq DEF HostSelects
<1>8. PICK c : c = Head(selections)  OBVIOUS
<1>9. c = selections[1] /\ 1 \in 1..L  BY <1>5, <1>6, <1>7, <1>8, HeadTailProperties
<1>10. c.number \in Nat /\ c.number >= 1  BY <1>4, <1>6, <1>9 DEF AreClicks
<1>11. AreClicks(Tail(selections), folded, pauses)
  <2>1. PICK rest : rest = Tail(selections)  OBVIOUS
  <2>2. rest \in Seq(Q) /\ Len(rest) = L - 1 /\ \A k \in 1..(L - 1) : rest[k] = selections[k + 1]
    BY <1>5, <1>6, <1>7, <2>1, HeadTailProperties
  <2>3. \A k \in 1..(L - 1) : k + 1 \in 1..L  BY <1>7
  <2>4. ASSUME NEW k \in 1..(L - 1)
        PROVE  /\ rest[k].number \in Nat /\ rest[k].number >= 1 /\ rest[k].of.pause \in 1..pauses
               /\ rest[k].of.pause = folded.pause =>
                     rest[k].number <= Len(folded.frames) /\ folded.frames[rest[k].number] = rest[k].of
    <3>1. PICK j \in 1..L : j = k + 1  BY <2>3
    <3>2. rest[k] = selections[j]  BY <2>2, <3>1
    <3> QED BY <1>4, <1>6, <3>2 DEF AreClicks
  <2>5. AreClicks(rest, folded, pauses)  BY <2>2, <2>4 DEF AreClicks
  <2> QED BY <2>1, <2>5
<1>12. PICK n : n = stack.selected  OBVIOUS
<1>13. stack = [pause |-> folded.pause, frames |-> folded.frames, async |-> folded.async, selected |-> n]
  BY <1>12 DEF StackInv, StackTyped, IsFold
<1>14. folded = [pause |-> folded.pause, frames |-> folded.frames, async |-> folded.async, selected |-> 1]
  BY DEF StackInv, StackTyped, IsFold
<1>15. stack' = [folded EXCEPT !.selected = stack'.selected] /\ HasSelection(stack')
  <2>1. CASE c.number <= N
    <3>1. stack' = [stack EXCEPT !.selected = c.number]  BY <1>3, <1>8, <2>1 DEF HostSelects, SelectFrame
    <3>2. stack' = [pause |-> folded.pause, frames |-> folded.frames, async |-> folded.async, selected |-> c.number]
      BY <1>13, <3>1
    <3>3. stack'.selected = c.number /\ stack'.frames = stack.frames  BY <1>1, <3>2
    <3>4. stack' = [folded EXCEPT !.selected = c.number]  BY <1>14, <3>2
    <3>5. c.number \in 1..Len(stack.frames)  BY <1>3, <1>10, <2>1
    <3> QED BY <3>3, <3>4, <3>5 DEF HasSelection
  <2>2. CASE ~(c.number <= N)
    <3>1. stack' = stack  BY <1>3, <1>8, <2>2 DEF HostSelects, SelectFrame
    <3> QED BY <3>1 DEF StackInv, StackTyped
  <2> QED BY <2>1, <2>2
<1>16. UNCHANGED <<folded, showsAll, pauses>> /\ selections' = Tail(selections)  BY DEF HostSelects
<1> QED BY <1>11, <1>15, <1>16 DEF StackInv, StackTyped, HasSelection

LEMMA StackStep == ASSUME StackInv, [StackNext]_stackVars PROVE StackInv'
<1>1. pauses \in Nat /\ IsFold(folded, pauses)  BY DEF StackInv, StackTyped
<1>2. CASE UNCHANGED stackVars  BY <1>2 DEF stackVars, StackInv, StackTyped, HasSelection
<1>3. CASE ClickFrame  BY <1>3, ClickFrameKeeps
<1>4. CASE ClickMore  BY <1>4 DEF ClickMore, StackInv, StackTyped, HasSelection
<1>5. CASE HostSelects  BY <1>5, HostSelectsKeeps
<1>6. CASE PausesOn
  <2>1. PICK event \in PauseEvents :
           StackPublished(FromPaused(pauses + 1, event)) /\ pauses' = pauses + 1
    BY <1>6 DEF PausesOn
  <2>2. PICK s, p : s = FromPaused(pauses + 1, event) /\ p = pauses + 1  OBVIOUS
  <2>3. p \in Nat /\ IsFold(s, p) /\ s.pause = p  BY <1>1, <2>2, PauseIsFold
  <2>4. StackPublished(s) /\ pauses' = p /\ p >= pauses /\ p > pauses  BY <1>1, <2>1, <2>2
  <2> QED BY <2>3, <2>4, PublishedKeeps
<1>7. CASE RunsOn
  <2>1. IsFold(Running, pauses) /\ Running.pause = 0 /\ pauses >= pauses
    BY <1>1, RunningIsFold DEF Running
  <2> QED BY <1>1, <1>7, <2>1, PublishedKeeps DEF RunsOn
<1>8. CASE OtherEvent
  <2>1. pauses >= pauses  BY <1>1
  <2> QED BY <1>1, <1>8, <2>1, PublishedKeeps DEF OtherEvent
<1> QED BY <1>2, <1>3, <1>4, <1>5, <1>6, <1>7, <1>8 DEF StackNext

-----------------------------------------------------------------------------
(* Both *)

\* The debuggee holds the breakpoints that are shown and those that were lost, a
\* request reaches the breakpoint it was meant for and no other, the rows of the
\* call stack stand for its frames, and a click on one selects it: for any lines,
\* sources the user does not want to see, and pauses.
\* [toggle_breakpoint, remove_line_bp, update_breakpoint_spec, paint_frames,
\* select_frame]
THEOREM ClicksAlwaysReach == ClicksSpec => []ClicksReachWhatTheyShow
<1> DEFINE Inv == MarksInv /\ StackInv
<1>1. ClicksInit => Inv
  BY MarksStart, StackStart DEF ClicksInit
<1>2. Inv /\ [ClicksNext]_clicksVars => Inv'
  <2> SUFFICES ASSUME Inv, [ClicksNext]_clicksVars PROVE Inv'
    OBVIOUS
  <2>1. [MarksNext]_marksVars /\ [StackNext]_stackVars  BY DEF ClicksNext, clicksVars
  <2> QED BY <2>1, MarksStep, StackStep
<1>3. Inv => ClicksReachWhatTheyShow
  BY MarksReach, StackReal DEF ClicksReachWhatTheyShow, MarksInv
<1> QED BY <1>1, <1>2, <1>3, PTL DEF ClicksSpec
=============================================================================
