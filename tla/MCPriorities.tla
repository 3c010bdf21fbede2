---------------------------- MODULE MCPriorities ----------------------------
(***************************************************************************)
(* An instance of Priorities for TLC: a source S, an atomic accessor B     *)
(* with two inputs and two outputs, and D inside the composite C, wired in *)
(* every way their connections allow, feedback included.                   *)
(***************************************************************************)
EXTENDS Priorities

CONSTANTS H, C, S, B, D, S1, B1, B2, Bo1, Bo2, C1, Co, D1, Do

TheComposites == {H, C}
TheAtomics == {S, B, D}
TheParent == S :> H @@ B :> H @@ C :> H @@ D :> C
TheInputs == H :> <<>> @@ S :> <<>> @@ B :> <<B1, B2>> @@ C :> <<C1>> @@ D :> <<D1>>
TheOutputs == H :> <<>> @@ S :> <<S1>> @@ B :> <<Bo1, Bo2>> @@ C :> <<Co>> @@ D :> <<Do>>
TheSpontaneous == {S1}
TheChildren == H :> <<B, C>> @@ C :> <<D>>
TheWires == {<<S1, B1>>, <<S1, C1>>, <<Bo1, C1>>, <<Bo2, C1>>, <<C1, D1>>,
             <<Do, Co>>, <<C1, Co>>, <<Co, B1>>, <<Co, B2>>, <<Bo2, B2>>}
TheRemovable == {<<B1, Bo2>>, <<B2, Bo1>>, <<B2, Bo2>>}
TheSources == {S, B, D}
=============================================================================
