---------------------------- MODULE MCDebugHost ----------------------------
(* A small instance of DebugHost: one line, two pauses, three actions.      *)
EXTENDS DebugHost

CONSTANTS line3

=============================================================================
