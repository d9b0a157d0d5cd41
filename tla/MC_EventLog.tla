----------------------------- MODULE MC_EventLog -----------------------------
(* Small files for the model of the event history. *)
EXTENDS EventLog

\* No file, a short one, a file with a line that does not parse, and the unbounded
\* file of an earlier version with its last line unfinished.
LegacyFiles ==
    {Closed(<<>>), Closed(<<1>>), Closed(<<1, Torn, 3>>),
     [lines |-> <<1, 2, 3, 4, 5, 6>>, open |-> TRUE]}

=============================================================================
