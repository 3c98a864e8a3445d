---------------------------- MODULE MCCombinator ----------------------------
(* Values of the constants of Combinator for TLC. *)
EXTENDS Combinator, TLC

CONSTANTS a, b

MCName == {a, b}
MCNames == Permutations(MCName)
MCOneType == {"T"}
MCOperators == BOOLEAN
MCTypes == {"T", "U"}
=============================================================================
