--------------------------- MODULE MCCommandAgent ---------------------------
(* CommandAgent on small instances: two commands that compete for the permits. *)
EXTENDS CommandAgent, TLC

CONSTANTS c1, c2

TwoCommands == {c1, c2}
=============================================================================
