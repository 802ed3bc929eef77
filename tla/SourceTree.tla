------------------------------ MODULE SourceTree ------------------------------
(***************************************************************************)
(* The tree of sources, from the inventory's entries to the rows on the    *)
(* screen: build_tree groups the sources by origin and directory, the      *)
(* widget shows a chain of folders that hold nothing else as one row, and  *)
(* remembers what the user opened by the labels of those rows.             *)
(*                                                                         *)
(* A source is its id, its directories -- the origin first -- and its      *)
(* name.  Labels and names are numbers, so that they have an order; a row  *)
(* of several folders has several labels.                                  *)
(***************************************************************************)
EXTENDS Naturals, Sequences, FiniteSets, SequencesExt

Source(id, dirs, name) == [id |-> id, dirs |-> dirs, name |-> name]

-----------------------------------------------------------------------------
(* build_tree *)

Group(label, children) == [label |-> label, children |-> children]
Leaf(s) == [source |-> s]
IsGroup(node) == "children" \in DOMAIN node

\* By name, then by id.
Precedes(s, t) == s.name < t.name \/ (s.name = t.name /\ s.id < t.id)

Below(sources, depth) == {s \in sources : Len(s.dirs) > depth}
Under(sources, depth, label) == {s \in Below(sources, depth) : s.dirs[depth + 1] = label}
LabelsBelow(sources, depth) ==
    SetToSortSeq({s.dirs[depth + 1] : s \in Below(sources, depth)}, LAMBDA a, b : a < b)

RECURSIVE IntoNodes(_, _)

\* Dir::into_nodes: the folders, then what lies in the directory itself.
IntoNodes(sources, depth) ==
    LET labels == LabelsBelow(sources, depth)
        leaves == SetToSortSeq(sources \ Below(sources, depth), Precedes)
    IN  [i \in DOMAIN labels |->
            Group(labels[i], IntoNodes(Under(sources, depth, labels[i]), depth + 1))]
        \o [i \in DOMAIN leaves |-> Leaf(leaves[i])]

\* The root has no label.
Root == 0
BuildTree(sources) == Group(Root, IntoNodes(sources, 0))

-----------------------------------------------------------------------------
(* The widget *)

RECURSIVE Collapse(_, _)

\* collapse_single_child_groups: the labels shown, and what is below them.
Collapse(labels, children) ==
    IF Len(children) = 1 /\ IsGroup(children[1])
    THEN Collapse(Append(labels, children[1].label), children[1].children)
    ELSE [labels |-> labels, children |-> children]

\* extend_key: the text of a root shown by itself is empty, like no key.
NoKey == <<>>
ExtendKey(prefix, labels) ==
    IF prefix \in {NoKey, << <<Root>> >>} THEN <<labels>> ELSE Append(prefix, labels)

RECURSIVE CollectRows(_, _, _), RegisterGroupKeys(_, _), LiveKeys(_, _, _)

\* collect_rows.
CollectRows(node, parent, expanded) ==
    IF ~IsGroup(node) THEN <<[source |-> node.source]>>
    ELSE LET shown == Collapse(<<node.label>>, node.children)
             key == ExtendKey(parent, shown.labels)
         IN  <<[key |-> key, open |-> key \in expanded]>>
             \o IF key \in expanded
                THEN FlattenSeq([i \in DOMAIN shown.children |->
                        CollectRows(shown.children[i], key, expanded)])
                ELSE <<>>

\* register_group_keys, of one node.
RegisterGroupKeys(node, parent) ==
    IF ~IsGroup(node) THEN {}
    ELSE LET shown == Collapse(<<node.label>>, node.children)
             key == ExtendKey(parent, shown.labels)
         IN  {key} \cup UNION {RegisterGroupKeys(n, key) : n \in ToSet(shown.children)}

\* The keys collect_rows leaves in live_keys: those it shows, and those within
\* what is closed.
LiveKeys(node, parent, expanded) ==
    IF ~IsGroup(node) THEN {}
    ELSE LET shown == Collapse(<<node.label>>, node.children)
             key == ExtendKey(parent, shown.labels)
         IN  {key} \cup UNION {IF key \in expanded THEN LiveKeys(n, key, expanded)
                               ELSE RegisterGroupKeys(n, key) : n \in ToSet(shown.children)}

NewWidget == [expanded |-> {}, rows |-> <<>>]

\* Faulty: forgets the folders that are not shown.
BadRebuildRows(widget, tree) ==
    LET rows == CollectRows(tree, NoKey, widget.expanded)
    IN  [rows |-> rows, expanded |-> {r.key : r \in {r \in ToSet(rows) : "key" \in DOMAIN r /\ r.open}}]

\* rebuild_rows, once a frame.
RebuildRows(widget, tree) ==
    [rows |-> CollectRows(tree, NoKey, widget.expanded),
     expanded |-> widget.expanded \cap LiveKeys(tree, NoKey, widget.expanded)]

\* A click on a folder's row.
Toggled(widget, key) ==
    [widget EXCEPT !.expanded = IF key \in @ THEN @ \ {key} ELSE @ \cup {key}]

-----------------------------------------------------------------------------
(* What the tree promises, in terms of directories *)

Directories(sources) == {<<>>} \cup UNION {Prefixes(s.dirs) : s \in sources}
Parent(d) == SubSeq(d, 1, Len(d) - 1)

\* What is alone in its parent has no row of its own.
HasRow(sources, d) ==
    d = <<>> \/ (\E s \in sources : s.dirs = Parent(d))
             \/ (\E e \in Directories(sources) : Len(e) = Len(d) /\ e # d /\ Parent(e) = Parent(d))

\* The rows on the way to a directory, each by its labels.
RowsTo(sources, d) ==
    LET path == <<Root>> \o d
        heads == SetToSortSeq({n \in 0..Len(d) : HasRow(sources, SubSeq(d, 1, n))}, LAMBDA a, b : a < b)
    IN  [i \in DOMAIN heads |->
            SubSeq(path, heads[i] + 1, IF i < Len(heads) THEN heads[i + 1] ELSE Len(path))]

\* The directory at the end of the row that d heads.
EndOf(sources, d) ==
    CHOOSE e \in Directories(sources) :
        /\ d \in Prefixes(e)
        /\ \A f \in Prefixes(e) : Len(f) > Len(d) => ~HasRow(sources, f)
        /\ \A f \in Directories(sources) : (Len(f) = Len(e) + 1 /\ Parent(f) = e) => HasRow(sources, f)

\* The key of that row: the root's is left out where it stands alone.
KeyOf(sources, d) ==
    LET rows == RowsTo(sources, EndOf(sources, d))
    IN  IF Len(rows) > 1 /\ rows[1] = <<Root>> THEN Tail(rows) ELSE rows

\* Shown below: the rows of directories that have one, and the sources.
Visible(sources, expanded, d) ==
    \A e \in Prefixes(d) : HasRow(sources, e) => KeyOf(sources, e) \in expanded

\* Where a row belongs: folders before files, both in their order.
Files == 1000
PlaceOf(s) == s.dirs \o <<Files + s.name, s.id>>
Lower(p, q) ==
    \E n \in 1..Len(q) :
        /\ \A i \in 1..(n - 1) : i <= Len(p) /\ p[i] = q[i]
        /\ n > Len(p) \/ p[n] < q[n]

\* The rows are those of the visible folders and of every source in one, each
\* once and in its place.
RowsAreRight(sources, widget) ==
    LET folders == {d \in Directories(sources) : HasRow(sources, d)
                        /\ (d = <<>> \/ Visible(sources, widget.expanded, Parent(d)))}
        files == {s \in sources : Visible(sources, widget.expanded, s.dirs)}
        rows == [d \in folders |-> [key |-> KeyOf(sources, d), open |-> KeyOf(sources, d) \in widget.expanded]]
        places == SetToSortSeq(folders \cup {PlaceOf(s) : s \in files}, Lower)
    IN  widget.rows =
          [i \in DOMAIN places |->
            IF places[i] \in folders THEN rows[places[i]]
            ELSE [source |-> CHOOSE s \in files : PlaceOf(s) = places[i]]]

=============================================================================
