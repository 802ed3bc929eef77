------------------------------- MODULE Values -------------------------------
(***************************************************************************)
(* A tree of values under every order of its operations: pages are         *)
(* answered late, twice or out of order, getters are invoked, watches      *)
(* evaluated anew and sizes learned while a pause lasts, and the tree      *)
(* starts again with the next.                                             *)
(***************************************************************************)
EXTENDS ValueTree

CONSTANTS
    PageSize,       \* PAGE_SIZE
    RootRows,       \* a frame's scopes and `this`
    WatchRows,      \* what the watches may evaluate to, a row each
    GetterValues,   \* what a getter may answer
    Totals,         \* sizes that may be learned
    MaxOperations   \* bound on the operations

ASSUME ValuesConstants ==
    /\ NoObject \notin Objects /\ NoTotal \notin Nat
    /\ Props \in [Objects -> Seq(Rows)] /\ Internals \in [Objects -> Seq(Rows)]
    /\ \A o \in Objects : Reported[o] \in Nat \cup {NoTotal}
    /\ PageSize \in Nat \ {0}
    /\ RootRows \subseteq Rows /\ WatchRows \subseteq Seq(Rows)
    /\ GetterValues \subseteq Objects \cup {NoObject}
    /\ Totals \subseteq Nat

VARIABLES
    values,
    operations      \* how many there were

valuesVars == <<values, operations>>

ValuesInit ==
    /\ \E row \in RootRows : values = PushRoot(EmptyTree, row)
    /\ operations = 0

Operates(tree) ==
    /\ operations < MaxOperations
    /\ operations' = operations + 1
    /\ values' = tree

\* Another root of the frame's.
PushesRoot == \E row \in RootRows : Operates(PushRoot(values, row))

\* The debuggee runs on and pauses again.
StartsAgain == \E row \in RootRows : Operates(PushRoot(Clear(values), row))

SetsWatches == \E rows \in WatchRows : Operates(SetWatchRoots(values, rows))

\* The answer to a request for any page of a node that has a handle, whenever it
\* was made; the debuggee reports internal properties with each.
AppliesProperties ==
    \E id \in DOMAIN values.nodes :
        LET object == values.nodes[id].row.object IN
        /\ object # NoObject
        /\ \E start \in 0..Len(Props[object]) :
              Operates(ApplyProperties(values, id, start, PageSize,
                                       Page(object, start, PageSize), Internals[object]))

InvokesGetter ==
    \E id \in DOMAIN values.nodes, object \in GetterValues :
        Operates(ApplyGetterResult(values, id, object))

LearnsTotal ==
    \E id \in DOMAIN values.nodes, total \in Totals : Operates(SetKnownTotal(values, id, total))

ValuesNext ==
    \/ PushesRoot \/ StartsAgain \/ SetsWatches
    \/ AppliesProperties \/ InvokesGetter \/ LearnsTotal

ValuesSpec == ValuesInit /\ [][ValuesNext]_valuesVars

-----------------------------------------------------------------------------
(* What the tree promises *)

\* However its pages were asked for and answered -- twice, late, out of order --
\* an object's rows are its properties from the first on, none missing, none
\* twice, none in two places; and no row hides more without saying so.
\* [apply_properties, set_watch_roots, apply_getter_result, remaining]
RowsAreProperties ==
    /\ ChildrenArePrefix(values)
    /\ IsForest(values)
    /\ NothingHidden(values, PageSize)
=============================================================================
