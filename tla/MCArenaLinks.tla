---------------------------- MODULE MCArenaLinks ----------------------------
(* Values of the constants of ArenaLinks for TLC. *)
EXTENDS ArenaLinks, TLC

CONSTANTS s1, s2, s3, s4

MCSlab == {s1, s2, s3, s4}
MCBase == [s \in MCSlab |-> 4096]
MCSymmetry == Permutations(MCSlab)
=============================================================================
