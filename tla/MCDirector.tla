----------------------------- MODULE MCDirector -----------------------------
(***************************************************************************)
(* An instance of Director for TLC.                                        *)
(***************************************************************************)
EXTENDS Director

R(delay, periodic, priority) == [delay |-> delay, periodic |-> periodic, priority |-> priority]

\* Two accessors, one more urgent than the other; a callback that is due at
\* once, a periodic one and one with period 0, whose round never ends.
MixedRequests == {R(0, FALSE, 1), R(1, TRUE, 1), R(0, TRUE, 2)}

\* The update moves callbacks onto a priority that is in use.
OntoTheOther == {<<2, 1>>}
=============================================================================
