--------------------------- MODULE MC_AlertEngine ---------------------------
(* Instances of AlertEngine for TLC. *)
EXTENDS AlertEngine

CONSTANTS k1, h1

OneKey == {k1}
OneHost == {h1}
HostOfOne == [k \in OneKey |-> h1]

None == {}

On  == [enabled |-> TRUE, url |-> 1, escalateAfter |-> 1, retryMax |-> 2]
On2 == [enabled |-> TRUE, url |-> 2, escalateAfter |-> 0, retryMax |-> 1]
Off == [enabled |-> FALSE, url |-> 1, escalateAfter |-> 0, retryMax |-> 1]
Plain == [On EXCEPT !.escalateAfter = 0]
PlainOnly == {Plain}
SomeConfigs == {On, On2, Off}

Used(c, s, f, x, u) ==
    [collects |-> c, silences |-> s, faults |-> f, crashes |-> x, updates |-> u]
Nothing == {Used(0, 0, 0, 0, 0)}
\* Of three collections, one silence, two faults, one crash and two updates: the
\* collections with a fault; two collections with the faults and the crash, or with the silence,
\* or with the updates; one collection with the silence and an update.
Scenarios ==
    {Used(0, 1, 1, 1, 2), Used(1, 1, 0, 0, 2), Used(1, 0, 2, 1, 2), Used(1, 1, 2, 1, 0),
     Used(2, 0, 2, 1, 1)}

\* Of two collections, two silences, one fault and one crash: the silences with the crash; one
\* silence with the fault; the fault with the crash.
LiveScenarios == {Used(0, 0, 1, 0, 0), Used(0, 1, 0, 1, 0), Used(0, 2, 0, 0, 0)}

=============================================================================
