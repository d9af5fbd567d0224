---------------------------- MODULE MCMemPersist ----------------------------
(* MemPersist for TLC. *)
EXTENDS MemPersist, TLC

Symmetry == Permutations(Keys) \cup Permutations(Packets) \cup Permutations(Storers)
=============================================================================
