--------------------------- MODULE MCNodeRegistry ---------------------------
(* Instances of NodeRegistry for TLC. *)
EXTENDS NodeRegistry, TLC

Symmetry == Permutations(Hosts)

=============================================================================
