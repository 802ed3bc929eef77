----------------------------- MODULE Variables -----------------------------
(***************************************************************************)
(* The variables panel: which rows of the tree of values are on the        *)
(* screen, what a click on one asks for, and the host that answers, one    *)
(* request after the other, in a tree that meanwhile may be of another     *)
(* pause.                                                                  *)
(*                                                                         *)
(* What is open is remembered by node id, and ids start again with each    *)
(* tree.  No tree, before anything was asked for in a pause, is the empty  *)
(* one.  A row is a value, a "show more", the place of a watch expression  *)
(* that has no value, or the editor.                                       *)
(***************************************************************************)
EXTENDS ValueTree

CONSTANTS
    Scopes,     \* Seq(Objects): the scopes of the frame that is selected
    PageSize    \* PAGE_SIZE

Value(id, depth, disclose) == [what |-> "value", id |-> id, depth |-> depth, disclose |-> disclose]
More(id, depth, start, remaining) ==
    [what |-> "more", id |-> id, depth |-> depth, start |-> start, remaining |-> remaining]
Editor == [what |-> "editor"]
Unevaluated == [what |-> "watch"]

Request(id, start, count) == [id |-> id, start |-> start, count |-> count]

\* `excused` are the open rows nobody has to fetch: opened in a pause before
\* this one, or refused by the debuggee.
NewPanel == [tree |-> EmptyTree, expanded |-> {}, asked |-> <<>>, excused |-> {}]

-----------------------------------------------------------------------------
(* The rows *)

CanDisclose(tree, id) ==
    LET n == tree.nodes[id] IN
    n.open \/ n.row.accessor \/ n.children # <<>> \/ Remaining(tree, id, PageSize) # 0

Disclose(tree, id, expanded) ==
    IF ~CanDisclose(tree, id) THEN "none" ELSE IF id \in expanded THEN "expanded" ELSE "collapsed"

\* Faulty: "show more" starts behind the rows that are shown, the internal
\* properties among them.
BadShowMore(tree, id, depth) ==
    IF Remaining(tree, id, PageSize) = 0 THEN <<>>
    ELSE <<More(id, depth, Len(tree.nodes[id].children), Remaining(tree, id, PageSize))>>

\* The last row below one that is open.
ShowMore(tree, id, depth) ==
    IF Remaining(tree, id, PageSize) = 0 THEN <<>>
    ELSE <<More(id, depth, tree.nodes[id].fetched, Remaining(tree, id, PageSize))>>

RECURSIVE CollectValueRows(_, _, _, _)

\* collect_value_rows.
CollectValueRows(tree, id, depth, expanded) ==
    LET children == tree.nodes[id].children IN
    <<Value(id, depth, Disclose(tree, id, expanded))>>
    \o IF id \notin expanded THEN <<>>
       ELSE FlattenSeq([i \in DOMAIN children |->
                CollectValueRows(tree, children[i], depth + 1, expanded)])
            \o ShowMore(tree, id, depth + 1)

\* rebuild_rows: the watches, with a value where there is one of that number.
RebuildRows(tree, watches, expanded) ==
    FlattenSeq([i \in 1..watches |->
        IF i <= tree.watches THEN CollectValueRows(tree, tree.roots[i], 0, expanded)
        ELSE <<Unevaluated>>])
    \o <<Editor>>
    \o FlattenSeq([i \in DOMAIN ScopeRoots(tree) |->
        CollectValueRows(tree, ScopeRoots(tree)[i], 0, expanded)])

-----------------------------------------------------------------------------
(* A frame of the panel, with a click or none *)

\* What is open of nodes that are gone is forgotten at the end of the frame.
Retained(panel) ==
    LET known == panel.expanded \cap DOMAIN panel.tree.nodes
    IN  [panel EXCEPT !.expanded = known, !.excused = @ \cap known]

\* Faulty: asks for nothing while another request waits.
BadToggled(panel, id) ==
    Retained(
      IF id \in panel.expanded THEN [panel EXCEPT !.expanded = @ \ {id}]
      ELSE [panel EXCEPT
            !.expanded = @ \cup {id},
            !.excused = @ \ {id},
            !.asked = IF NeedsFetch(panel.tree, id) /\ @ = <<>>
                      THEN <<Request(id, panel.tree.nodes[id].fetched, PageSize)>> ELSE @])

\* A click on the triangle: what is opened and has no children yet is asked
\* for, a getter with a count of none.
Toggled(panel, id) ==
    LET n == panel.tree.nodes[id]
        count == IF n.row.accessor THEN 0 ELSE PageSize
    IN  Retained(
          IF id \in panel.expanded THEN [panel EXCEPT !.expanded = @ \ {id}]
          ELSE [panel EXCEPT
                !.expanded = @ \cup {id},
                !.excused = @ \ {id},
                !.asked = IF NeedsFetch(panel.tree, id) THEN Append(@, Request(id, n.fetched, count)) ELSE @])

\* A click on "show more", or on the label of a getter.
MoreAsked(panel, row) ==
    Retained([panel EXCEPT !.asked = Append(@, Request(row.id, row.start, PageSize))])
GetterAsked(panel, id) == Retained([panel EXCEPT !.asked = Append(@, Request(id, 0, 0))])

-----------------------------------------------------------------------------
(* The host: expand_value *)

\* The roots of a frame's tree, its scopes and `this`, are made with the first
\* request.
ScopeTree(tree) ==
    IF tree.nodes # <<>> THEN tree
    ELSE FoldLeft(LAMBDA t, o : PushRoot(t, [object |-> o, accessor |-> FALSE]), tree, Scopes)

HasHandle(tree, id) == id \in DOMAIN tree.nodes /\ ~tree.nodes[id].row.accessor
                           /\ tree.nodes[id].row.object # NoObject

\* The first request is answered, or refused; one for a row without a handle --
\* a getter's, or of a tree that is gone -- goes no further.
Answered(panel, granted) ==
    LET r == Head(panel.asked)
        tree == ScopeTree(panel.tree)
        object == tree.nodes[r.id].row.object
        page == IF r.count = 0 THEN PageSize ELSE r.count
        rest == [panel EXCEPT !.asked = Tail(@)]
    IN  IF ~HasHandle(tree, r.id) THEN rest
        ELSE IF ~granted THEN [rest EXCEPT !.excused = @ \cup {r.id}]
        ELSE [rest EXCEPT !.tree = ApplyProperties(tree, r.id, r.start, page,
                                        Page(object, r.start, page), Internals[object])]

\* The debuggee runs on and stops again; somebody asks for the first scope.
PausedAgain(panel) ==
    [panel EXCEPT !.tree = EmptyTree, !.excused = panel.expanded,
                  !.asked = Append(@, Request(1, 0, PageSize))]

-----------------------------------------------------------------------------
(* What the panel promises *)

\* A value's rows are its children's, in order, and then what is still to come.
\* `above` is the row a row is below.
Above(rows, i) ==
    LET up == {j \in 1..(i - 1) : rows[j].what = "value" /\ rows[j].depth = rows[i].depth - 1}
    IN  CHOOSE j \in up : \A k \in up : k <= j
Below(rows, i) ==
    SelectSeq([j \in DOMAIN rows |-> j],
              LAMBDA j : j > i /\ rows[j].what \in {"value", "more"} /\ rows[j].depth > 0 /\ Above(rows, j) = i)

RowsAreRight(tree, rows, expanded) ==
    \A i \in DOMAIN rows : rows[i].what = "value" =>
        LET id == rows[i].id
            children == tree.nodes[id].children
            below == [j \in DOMAIN Below(rows, i) |-> rows[Below(rows, i)[j]]]
            values == SelectSeq(below, LAMBDA r : r.what = "value")
        IN  /\ [j \in DOMAIN values |-> values[j].id] =
                 IF id \in expanded THEN children ELSE <<>>
            /\ (id \in expanded /\ Remaining(tree, id, PageSize) > 0) <=>
                 (below # <<>> /\ Last(below).what = "more")
            /\ Cardinality({j \in DOMAIN rows : rows[j].what = "value" /\ rows[j].id = id}) = 1

\* A click on "show more" is for the page that comes next.
MoreIsAccepted(tree, rows) ==
    \A r \in ToSet(rows) : r.what = "more" => Accepts(tree.nodes[r.id], r.start)

\* Once all is answered no row is open with nothing below it that could be.
OpenRowsAreFetched(panel) ==
    panel.asked = <<>> =>
        \A id \in (panel.expanded \cap DOMAIN panel.tree.nodes) \ panel.excused :
            panel.tree.nodes[id].row.accessor \/ ~NeedsFetch(panel.tree, id)
=============================================================================
