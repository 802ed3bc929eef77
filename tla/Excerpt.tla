------------------------------ MODULE Excerpt ------------------------------
(***************************************************************************)
(* Filtering a list by place: what `filter`, `retain` or a loop that       *)
(* pushes some of the elements leaves, in their order.                     *)
(***************************************************************************)
EXTENDS Naturals, Sequences

\* The elements of the list at the places given.
Excerpt(list, places) ==
    LET upTo[i \in 0..Len(list)] ==
            IF i = 0 THEN <<>>
            ELSE IF i \in places THEN Append(upTo[i - 1], list[i])
            ELSE upTo[i - 1]
    IN  upTo[Len(list)]
=============================================================================
