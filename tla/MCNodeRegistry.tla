--------------------------- MODULE MCNodeRegistry ---------------------------
(* Small instances of the node registry for TLC.                           *)
EXTENDS NodeRegistry, TLC

Symmetry == Permutations(Node) \cup Permutations(Pipe)
=============================================================================
