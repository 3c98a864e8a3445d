------------------------------ MODULE MCArena ------------------------------
(* Values of the constants of Arena for TLC. *)
EXTENDS Arena, TLC

CONSTANTS s1, s2, s3

MCSlab == {s1, s2, s3}

\* The buffers are 16-byte aligned (_Alignas(16) buf), and not all of them more.
MCBase == s1 :> 4096 @@ s2 :> 8208 @@ s3 :> 12320
=============================================================================
