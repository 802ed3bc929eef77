------------------------------ MODULE MCReplay ------------------------------
(* A small instance of Replay: every recording of two methods and two pages  *)
(* up to a bound, flattened and played to every caller.                      *)
EXTENDS Replay

CONSTANTS enable, reload

=============================================================================
