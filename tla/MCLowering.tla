----------------------------- MODULE MCLowering -----------------------------
(* Values of the constants of Lowering for TLC: small numbers stand for the *)
(* 8 dimensions, the 64 bits and the 256 values of the code.                *)
EXTENDS Lowering

MCParamShapes == {<<>>, <<2, 2>>, <<1, 2>>, <<2, 2, 2>>, <<2, 4, 2>>, <<2, 1, 1, 2>>}
MCFewShapes == {<<2>>, <<2, 2>>}
MCSimpleShapes == {<<2, 2>>}
MCContractions == {<<0, 0>>, <<1, 0>>, <<0, 1>>}
MCMaxInsts == [n \in {0, 1} |-> IF n = 0 THEN 3 ELSE 2]
=============================================================================
