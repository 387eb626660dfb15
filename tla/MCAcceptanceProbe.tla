------------------------- MODULE MCAcceptanceProbe -------------------------
(* A small instance of AcceptanceProbe: two of the facts, two POSTs each.    *)
EXTENDS AcceptanceProbe, TLC

CONSTANTS w1, impl, plan, open

TwoEach == (Ext \X (1..2)) \ {<<plan, 2>>}

MCKeyOf == [r \in Req |-> r[1]]

ProbeFacts == <<impl, plan, open>>

MCTold == [e \in Ext |-> IF e # open THEN {"alpha"} ELSE {"jordan", "contact"}]

MCEventDate == [e \in Ext |-> IF e = impl THEN 2 ELSE 1]

ProbeFaults == {"post", "list", "crash"}
=============================================================================
