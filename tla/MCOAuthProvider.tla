-------------------------- MODULE MCOAuthProvider --------------------------
(* Small instances of OAuthProvider.                                         *)
EXTENDS OAuthProvider, TLC

CONSTANTS c1, c2, k1, k2, t1, t2, p1, p2, p3

MCClientOf == [t \in Txn |-> IF t = t1 THEN k1 ELSE k2]

Symmetry == Permutations(Pair)
=============================================================================
