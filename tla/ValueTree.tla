----------------------------- MODULE ValueTree -----------------------------
(***************************************************************************)
(* The lazily expanded tree of values of mjx-wk-debug, as a value.  Nodes  *)
(* are numbered in the order they are made and never removed before the    *)
(* tree is cleared; a node the tree forgets is merely unreachable.         *)
(*                                                                         *)
(* An object of the debuggee is its handle; Props gives the own properties *)
(* getProperties reports for it, in order, and Internals its internal      *)
(* ones.  A property is another handle, an accessor with the handle its    *)
(* getter would answer, or plain.                                          *)
(***************************************************************************)
EXTENDS Naturals, Sequences, FiniteSets, SequencesExt

CONSTANTS
    Objects,    \* handles
    Props,      \* [Objects -> Seq(Rows)]
    Internals,  \* [Objects -> Seq(Rows)]
    Reported,   \* [Objects -> Nat \cup {NoTotal}]: RemoteObject.size
    NoTotal,
    NoObject    \* a row that cannot be expanded

Rows == [object : Objects \cup {NoObject}, accessor : BOOLEAN]

EmptyTree == [nodes |-> <<>>, roots |-> <<>>, watches |-> 0]

\* alloc: `listed` says whether there are children, `total` is NodeMeta's
\* known_total, `more` its may_have_more; `object` is the handle, which an
\* accessor does not have before it is invoked.
NewNode(row) ==
    [row |-> row, children |-> <<>>, listed |-> FALSE, fetched |-> 0, more |-> FALSE,
     total |-> NoTotal, open |-> ~row.accessor /\ row.object # NoObject]

Alloc(tree, rows) == [tree EXCEPT !.nodes = @ \o [i \in DOMAIN rows |-> NewNode(rows[i])]]
NewIds(tree, rows) == [i \in DOMAIN rows |-> Len(tree.nodes) + i]

WatchRoots(tree) == SubSeq(tree.roots, 1, tree.watches)
ScopeRoots(tree) == SubSeq(tree.roots, tree.watches + 1, Len(tree.roots))

-----------------------------------------------------------------------------
(* Operations *)

\* push_root.
PushRoot(tree, row) ==
    [Alloc(tree, <<row>>) EXCEPT !.roots = @ \o NewIds(tree, <<row>>)]

\* set_watch_roots: fresh results before the scopes; the old ones are detached.
SetWatchRoots(tree, rows) ==
    [Alloc(tree, rows) EXCEPT
        !.roots = NewIds(tree, rows) \o ScopeRoots(tree), !.watches = Len(rows)]

\* The guard of apply_properties: the page that continues what is there.
Accepts(n, start) ==
    /\ ~n.row.accessor
    /\ start = n.fetched \/ (start = 0 /\ ~n.listed)

\* Faulty: a page as long as asked for is taken for the last.
BadFullPage(count, page) == page > 0 /\ count > page

\* A short page means the object is exhausted.
FullPage(count, page) == page > 0 /\ count >= page

\* apply_properties: `props` answers a request for `page` of them from `start`.
ApplyProperties(tree, id, start, page, props, internal) ==
    LET n == tree.nodes[id]
        rows == IF start = 0 THEN internal \o props ELSE props
        before == IF start = 0 THEN <<>> ELSE n.children
        full == FullPage(Len(props), page)
    IN  IF id \notin DOMAIN tree.nodes \/ ~Accepts(n, start) THEN tree
        ELSE [Alloc(tree, rows) EXCEPT
                !.nodes[id] = [n EXCEPT !.children = before \o NewIds(tree, rows),
                                        !.listed = TRUE,
                                        !.fetched = start + Len(props),
                                        !.more = full,
                                        !.open = full \/ start + Len(props) > 0]]

\* apply_getter_result: the row becomes what the getter answered.
ApplyGetterResult(tree, id, object) ==
    IF id \notin DOMAIN tree.nodes \/ ~tree.nodes[id].row.accessor THEN tree
    ELSE [tree EXCEPT !.nodes[id] =
            [NewNode([object |-> object, accessor |-> FALSE]) EXCEPT
                !.total = IF object = NoObject THEN NoTotal ELSE Reported[object]]]

\* set_known_total.
SetKnownTotal(tree, id, total) ==
    IF id \in DOMAIN tree.nodes THEN [tree EXCEPT !.nodes[id].total = total] ELSE tree

\* clear: the debuggee runs on, every handle is dead.
Clear(tree) == [tree EXCEPT !.nodes = <<>>, !.roots = <<>>, !.watches = 0]

\* needs_fetch.
NeedsFetch(tree, id) ==
    LET n == tree.nodes[id] IN n.row.accessor \/ (n.open /\ ~n.listed)

\* remaining: 0 stands for None, and `page` for "at least another page".
Remaining(tree, id, page) ==
    LET n == tree.nodes[id] IN
    IF ~n.listed THEN 0
    ELSE IF n.total # NoTotal THEN (IF n.total > n.fetched THEN n.total - n.fetched ELSE 0)
    ELSE IF n.more THEN page ELSE 0

\* External: the debuggee's answer to getProperties.
Page(object, start, page) ==
    SubSeq(Props[object], start + 1,
           IF start + page < Len(Props[object]) THEN start + page ELSE Len(Props[object]))

-----------------------------------------------------------------------------
(* What the tree promises *)

\* A getter that was invoked has become its value.
Same(shown, row) == shown = row \/ (row.accessor /\ ~shown.accessor)

\* The rows below a node are its object's, from the first on, none missing and
\* none twice.
ChildrenArePrefix(tree) ==
    \A id \in DOMAIN tree.nodes :
        LET n == tree.nodes[id]
            due == Internals[n.row.object] \o SubSeq(Props[n.row.object], 1, n.fetched)
        IN  n.listed =>
              /\ Len(n.children) = Len(due)
              /\ \A i \in DOMAIN due : Same(tree.nodes[n.children[i]].row, due[i])

\* Nothing is shown in two places, and the watches come first.
IsForest(tree) ==
    LET children(id) == ToSet(tree.nodes[id].children) IN
    /\ tree.watches <= Len(tree.roots)
    /\ IsInjective(tree.roots)
    /\ \A id \in DOMAIN tree.nodes :
         /\ IsInjective(tree.nodes[id].children)
         /\ children(id) \cap ToSet(tree.roots) = {}
         /\ \A child \in children(id) : child > id
         /\ \A other \in DOMAIN tree.nodes : other # id => children(id) \cap children(other) = {}

\* Whoever sees no "show more" below an open row sees all of it, if the total
\* that was reported, where one was, is no less than what there is.
NothingHidden(tree, page) ==
    \A id \in DOMAIN tree.nodes :
        LET n == tree.nodes[id]
            size == Len(Props[n.row.object])
        IN  ( /\ n.listed
              /\ n.total # NoTotal => n.total >= size
              /\ Remaining(tree, id, page) = 0 ) => n.fetched = size
=============================================================================
