------------------------------- MODULE MCBank -------------------------------
(* A small instance of Bank.                                                 *)
EXTENDS Bank, TLC

CONSTANTS c1, c2

Symmetry == Permutations({c1, c2})
=============================================================================
