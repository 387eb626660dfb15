---------------------------- MODULE MCBulkImport ----------------------------
(* Small instances of BulkImport.                                            *)
EXTENDS BulkImport, TLC

CONSTANTS w1, w2, e1, e2

TwoEach == Ext \X (1..2)

MCKeyOf == [r \in Req |-> r[1]]

\* An id listed twice.
RepeatedFacts == <<e1, e1>>

AllFaults == FaultKind
=============================================================================
