----------------------------- MODULE MCLifetimes -----------------------------
(* A composite C with an atomic accessor A in it.  A's output leaves the      *)
(* composite, and its input comes from the composite or from A itself.        *)
EXTENDS Lifetimes

CONSTANTS H, C, A, Ao, Co, Ci, Ai

TheContainer == [x \in {C, A} |-> IF x = A THEN C ELSE H]
TheOwner == [p \in {Ao, Ai, Co, Ci} |-> IF p \in {Ao, Ai} THEN A ELSE C]
TheWires == {<<Ao, Ai>>, <<Ci, Ai>>, <<Ao, Co>>}
TheCodeCallbacks == {<<C, "periodic">>}
=============================================================================
