----------------------- MODULE MCSupplierOperations -----------------------
(* SupplierOperations for TLC: interchangeable commit keys and workers. *)
EXTENDS SupplierOperations, TLC

Symmetry == Permutations(Keys) \cup Permutations(Workers)
============================================================================
