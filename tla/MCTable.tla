------------------------------ MODULE MCTable ------------------------------
(* Values of the constants of Table for TLC. *)
EXTENDS Table

\* Five keys for four slots.  "a", "b" and "c" start in the last block, and the
\* third of them goes around the end; "a" and "b" have equal fingerprints, "a"
\* and "c" are compared equal, and so are "b" and "d".
MCKey == {"a", "b", "c", "d", "e"}
MCCmp == [k \in MCKey |-> CASE k \in {"a", "c"} -> 1 [] k \in {"b", "d"} -> 2 [] OTHER -> 3]
MCFp == [k \in MCKey |-> IF k \in {"a", "b", "e"} THEN 1 ELSE 3]
MCHome == [k \in MCKey |-> IF k \in {"a", "b", "c"} THEN 1 ELSE 0]

=============================================================================
