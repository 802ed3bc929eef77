--------------------------- MODULE MCSourceStore ---------------------------
(* A small instance of SourceStore: texts that just fit together, a text    *)
(* larger than the budget, and an entry that cannot be fetched.             *)
EXTENDS SourceStore

CONSTANTS a, b, image, c1, c2, c3

\* Within a budget of 3, `a` and `b` just fit together on the first page; on
\* the next `b` alone exceeds it and `a` is empty.
MCSize ==
    [s \in Sources |-> [p \in Pages |->
        IF s = b THEN (IF p = 0 THEN 2 ELSE 4) ELSE (IF p = 0 THEN 1 ELSE 0)]]

=============================================================================
