----------------------------- MODULE MCSession -----------------------------
(* A small instance of Session: all work is where the log is.                *)
EXTENDS Session

CONSTANTS r1, x1

MCHome == [x \in Item |-> r1]
=============================================================================
