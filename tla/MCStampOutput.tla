--------------------------- MODULE MCStampOutput ---------------------------
(* StampOutput with two stampers and a host.                               *)
EXTENDS StampOutput, TLC

Symmetry == Permutations(Stampers) \cup Permutations(Inodes)
            \cup Permutations(Temps)
=============================================================================
