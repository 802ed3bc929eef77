---------------------------- MODULE MCInventory ----------------------------
(* A small instance of Shell, and of the Inventory in it: two URLs and      *)
(* evals, pages of a few scripts, a few clicks.                             *)
EXTENDS Shell, TLC

CONSTANTS app, lib

\* Either URL may stand for the other.
Symmetry == Permutations(Urls)
=============================================================================
