--------------------------- MODULE MCDocumentNumbers ---------------------------
(* Instances of DocumentNumbers for TLC. *)
EXTENDS DocumentNumbers, TLC

Symmetry == Permutations(Requests)
================================================================================
