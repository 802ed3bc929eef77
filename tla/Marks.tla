-------------------------------- MODULE Marks --------------------------------
(***************************************************************************)
(* Line breakpoints in the user's hands: the rows of the breakpoint list,  *)
(* the marks in the gutter, the editors opened from either, the Actions    *)
(* they post, and what the host does with each when its turn has come.     *)
(*                                                                         *)
(* A widget names a breakpoint by the place it is shown at, which is where *)
(* the debuggee bound it; the host looks for one that was asked for there. *)
(* An Action is handled at one go here: what may come between its calls    *)
(* and their replies is in DebugHost.                                      *)
(*                                                                         *)
(* `of` and `lost` are history: the breakpoint a click was meant for, and  *)
(* those the debuggee holds that nothing shows.                            *)
(***************************************************************************)
EXTENDS Naturals, Sequences, FiniteSets, SequencesExt, Excerpt

CONSTANTS
    MarkLines,   \* where a breakpoint may be asked for, a source and a line
    MarkEdits    \* what may be edited: "condition", "logpoint", "probe"

ASSUME MarksConstants == MarkEdits \subseteq {"condition", "logpoint", "probe"}

Nowhere == [source |-> 0, line |-> 0]
NoMark == 0
Unset == "unset"

\* BreakpointSpec::at, with the debuggee's id and where it bound the breakpoint.
NewMark(id, asked, actual) ==
    [id |-> id, asked |-> asked, actual |-> actual, condition |-> Unset, action |-> Unset]

Request(what, place, of, value) == [what |-> what, place |-> place, of |-> of, value |-> value]
NoEdit == Request("none", Nowhere, NoMark, Unset)

VARIABLES
    marks,      \* the breakpoints the host publishes
    editors,    \* the open editor of the list and that of the gutter
    requests,   \* Actions on their way
    holds,      \* the ids the debuggee holds
    given,      \* how many it has given out
    lost

marksVars == <<marks, editors, requests, holds, given, lost>>

MarksInit ==
    /\ marks = <<>> /\ requests = <<>>
    /\ editors = [list |-> NoEdit, gutter |-> NoEdit]
    /\ holds = {} /\ given = 0 /\ lost = {}

-----------------------------------------------------------------------------
(* The widgets *)

DisplayLocation(bp) == IF bp.actual = Nowhere THEN bp.asked ELSE bp.actual

\* The sources in the order in which they first appear.
Groups(bps) ==
    FoldLeft(LAMBDA seen, bp : IF DisplayLocation(bp).source \in ToSet(seen) THEN seen
                               ELSE Append(seen, DisplayLocation(bp).source), <<>>, bps)

RowKind(bp) ==
    IF bp.action # Unset THEN bp.action
    ELSE IF bp.condition # Unset THEN "conditional"
    ELSE IF bp.actual = Nowhere THEN "pending" ELSE "plain"

Row(bp) == [of |-> bp.id, place |-> DisplayLocation(bp), kind |-> RowKind(bp)]

\* rebuild_rows of the breakpoint list.
RebuildRows(bps) ==
    LET group(source) ==
            LET own == SelectSeq(bps, LAMBDA bp : DisplayLocation(bp).source = source)
            IN  <<[group |-> source]>> \o [i \in DOMAIN own |-> Row(own[i])]
        order == Groups(bps)
    IN  FlattenSeq([i \in DOMAIN order |-> group(order[i])])

\* The gutter: the first mark shown on a line, if any.
GutterMark(bps, place) ==
    LET there == SelectSeq(bps, LAMBDA bp : DisplayLocation(bp) = place)
    IN  IF there = <<>> THEN NoMark ELSE there[1].id

\* What may be clicked on: a row of the list, or the gutter beside a line,
\* whether there is a mark or not.
RowsShown ==
    {[place |-> r.place, of |-> r.of] : r \in {r \in ToSet(RebuildRows(marks)) : "place" \in DOMAIN r}}
BesideLines == {[place |-> p, of |-> GutterMark(marks, p)] : p \in MarkLines}

\* Toggle, or remove what is there.
ClickMark ==
    /\ \E m \in RowsShown \cup BesideLines, what \in {"toggle", "remove"} :
          /\ what = "remove" => m.of # NoMark
          /\ requests' = Append(requests, Request(what, m.place, m.of, Unset))
    /\ UNCHANGED <<marks, editors, holds, given, lost>>

\* The editor of a widget is opened, in the place of one that was open.
OpenEditor ==
    /\ \E what \in MarkEdits :
        \/ \E m \in RowsShown : editors' = [editors EXCEPT !.list = Request(what, m.place, m.of, Unset)]
        \/ \E m \in BesideLines : editors' = [editors EXCEPT !.gutter = Request(what, m.place, m.of, Unset)]
    /\ UNCHANGED <<marks, requests, holds, given, lost>>

\* It is submitted, maybe with nothing in it, or cancelled.
CloseEditor ==
    /\ \E w \in {"list", "gutter"} :
        /\ editors[w] # NoEdit
        /\ editors' = [editors EXCEPT ![w] = NoEdit]
        /\ \/ \E v \in {Unset, "set"} : requests' = Append(requests, [editors[w] EXCEPT !.value = v])
           \/ UNCHANGED requests
    /\ UNCHANGED <<marks, holds, given, lost>>

-----------------------------------------------------------------------------
(* The host *)

\* The breakpoints that were asked for on a line.
AskedAt(bps, place) == {i \in 1..Len(bps) : bps[i].asked = place}

\* The first of them.
Find(bps, place) == CHOOSE i \in AskedAt(bps, place) : \A j \in AskedAt(bps, place) : i <= j

\* Faulty: forgets the source.
BadRemoveLineBp(bps, place) ==
    Excerpt(bps, {i \in 1..Len(bps) : bps[i].asked.line # place.line})

\* remove_line_bp.
RemoveLineBp(bps, place) == Excerpt(bps, (1..Len(bps)) \ AskedAt(bps, place))

\* What an edit makes of a breakpoint.
Edited(bp, request) ==
    IF request.what = "condition" THEN [bp EXCEPT !.condition = request.value]
    ELSE [bp EXCEPT !.action = IF request.value = Unset THEN Unset ELSE request.what]

\* Faulty: the breakpoint that is built anew is not given its id again.
BadUpdateBreakpointSpec(bps, request) ==
    LET i == Find(bps, request.place)
    IN  IF AskedAt(bps, request.place) = {} THEN bps
        ELSE [bps EXCEPT ![i] = [Edited(@, request) EXCEPT !.id = NoMark]]

\* update_breakpoint_spec: the store is built anew with one spec changed.
UpdateBreakpointSpec(bps, request) ==
    LET i == Find(bps, request.place)
    IN  IF AskedAt(bps, request.place) = {} THEN bps ELSE [bps EXCEPT ![i] = Edited(@, request)]

Switches(request) == request.what \in {"toggle", "remove"}

\* What an Action makes of the breakpoints, unless it asks for a new one.
After(bps, request) ==
    IF Switches(request) THEN RemoveLineBp(bps, request.place) ELSE UpdateBreakpointSpec(bps, request)

\* toggle_breakpoint of one that is there, and remove_breakpoint, which is the
\* same: it goes, whether the debuggee grants it or not.
RemovesMark(request, granted) ==
    /\ Switches(request)
    /\ AskedAt(marks, request.place) # {}
    /\ LET id == marks[Find(marks, request.place)].id IN
       /\ holds' = IF granted THEN holds \ {id} ELSE holds
       /\ lost' = IF granted THEN lost ELSE lost \cup {id}
    /\ marks' = After(marks, request)
    /\ UNCHANGED given

\* Of one that is not there: it comes if the debuggee grants it, which binds it
\* there, or below, or not yet.
BindingsOf(place) == {Nowhere} \cup {p \in MarkLines : p.source = place.source /\ p.line >= place.line}
AddsMark(request, granted) ==
    /\ Switches(request)
    /\ AskedAt(marks, request.place) = {}
    /\ IF granted
       THEN /\ \E actual \in BindingsOf(request.place) :
                 marks' = Append(marks, NewMark(given + 1, request.place, actual))
            /\ holds' = holds \cup {given + 1} /\ given' = given + 1
       ELSE UNCHANGED <<marks, holds, given>>
    /\ UNCHANGED lost

EditsMark(request) ==
    /\ ~Switches(request)
    /\ marks' = After(marks, request)
    /\ UNCHANGED <<holds, given, lost>>

\* The next Action is handled.
HostHandles ==
    /\ requests # <<>>
    /\ \/ \E granted \in BOOLEAN :
            RemovesMark(Head(requests), granted) \/ AddsMark(Head(requests), granted)
       \/ EditsMark(Head(requests))
    /\ requests' = Tail(requests)
    /\ UNCHANGED editors

MarkIds(bps) == {bps[i].id : i \in 1..Len(bps)}

\* The agent publishes its own model, which knows of no breakpoint of the host's.
AgentOverwrites ==
    /\ marks # <<>>
    /\ marks' = <<>> /\ lost' = lost \cup MarkIds(marks)
    /\ UNCHANGED <<editors, requests, holds, given>>

MarksNext == ClickMark \/ OpenEditor \/ CloseEditor \/ HostHandles \/ AgentOverwrites

MarksSpec == MarksInit /\ [][MarksNext]_marksVars

-----------------------------------------------------------------------------
(* What the user may rely on *)

\* Each breakpoint has one row, below its own source's heading; each source has one.
MarksAreListed(bps) ==
    LET rows == RebuildRows(bps)
        heads == {i \in DOMAIN rows : "group" \in DOMAIN rows[i]}
    IN  /\ Len(rows) = Len(bps) + Cardinality({rows[i].group : i \in heads})
        /\ \A bp \in ToSet(bps) : \E i \in DOMAIN rows \ heads, h \in heads :
              /\ rows[i] = Row(bp)
              /\ h < i /\ \A j \in h + 1..i : j \notin heads
              /\ rows[h].group = DisplayLocation(bp).source

\* The debuggee holds the breakpoints shown and those known to be lost; no two
\* of those shown are one, or were asked for in the same place.
MarksAreHeld ==
    /\ holds = MarkIds(marks) \cup lost
    /\ MarkIds(marks) \cap lost = {}
    /\ \A i, j \in 1..Len(marks) :
          marks[i].asked = marks[j].asked \/ marks[i].id = marks[j].id => i = j

\* A request for a breakpoint that is shown where it was asked for reaches it
\* and no other.
Reaches(request) ==
    \A i \in 1..Len(marks) : (marks[i].id = request.of /\ marks[i].asked = request.place) =>
        LET after == After(marks, request) IN
        /\ Find(marks, request.place) = i
        /\ IF Switches(request) THEN after = Excerpt(marks, (1..Len(marks)) \ {i})
           ELSE /\ Len(after) = Len(marks)
                /\ \A j \in 1..Len(marks) : j # i => after[j] = marks[j]
                /\ \A f \in {"id", "asked", "actual"} : after[i][f] = marks[i][f]
                /\ request.value # Unset => RowKind(after[i]) \in {"conditional", "logpoint", "probe"}

\* However long it waits, in the queue or in an editor.
RequestsReachTheirMark ==
    /\ \A k \in 1..Len(requests) : Reaches(requests[k])
    /\ \A w \in {"list", "gutter"} : Reaches(editors[w])
=============================================================================
