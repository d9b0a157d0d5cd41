--------------------------- MODULE MC_ConsolePoll ---------------------------
(* Two requests may overlap: the chain and one it superseded. *)
EXTENDS ConsolePoll
=============================================================================
