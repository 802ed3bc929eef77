----------------------------- MODULE MCSession -----------------------------
(* A small instance of Session: which member each target lacks. *)
EXTENDS Session

CONSTANTS c1, c2, plain, gone, odd, worker

\* `plain` exists everywhere, `gone` only in the worker; `odd` cannot be encoded.
MCAbsent == [t \in Routes |-> IF t = worker THEN {} ELSE {gone} \cap Members]

=============================================================================
