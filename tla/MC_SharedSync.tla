--------------------------- MODULE MC_SharedSync ----------------------------
(* One console. *)
EXTENDS SharedSync, TLC

CONSTANTS t1, k1, k2, b1

OneTab == t1 :> b1

=============================================================================
