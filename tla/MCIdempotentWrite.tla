------------------------- MODULE MCIdempotentWrite -------------------------
(* Small instances of IdempotentWrite.  A request is <<id, n>>: the nth POST *)
(* that may carry the external id.                                           *)
EXTENDS IdempotentWrite, TLC

CONSTANTS w1, w2, e1, e2

OneExt == {e1}

TwoEach == Ext \X (1..2)

MCKeyOf == [r \in Req |-> r[1]]

NoFaults == {}
AllFaults == FaultKind
=============================================================================
