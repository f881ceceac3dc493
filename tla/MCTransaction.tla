--------------------------- MODULE MCTransaction ----------------------------
(* A small instance of TransactionManager: interchangeable tools.           *)
EXTENDS TransactionManager

SymmetricTools == Permutations(Tool)
=============================================================================
