--------------------------- MODULE MC_EdgeManager ---------------------------
(* Device a can be polled, x cannot; both are configured at the start. *)
EXTENDS EdgeManager, TLC

CONSTANTS a, x, m0, m1

TwoKeys == {a, x}
Pollable == Keys \ {x}
TwoMetas == {m0, m1}

StartWith == [k \in Keys |-> [inc |-> 0, meta |-> m0]]

=============================================================================
