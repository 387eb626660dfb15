---------------------------- MODULE MCRestoreDrill ----------------------------
(* RestoreDrill with one memory, the canary: a bank without it is empty.      *)
EXTENDS RestoreDrill

=============================================================================
