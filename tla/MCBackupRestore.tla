--------------------------- MODULE MCBackupRestore ---------------------------
(* BackupRestore on small instances: the timer, one operator, one memory (two *)
(* would only be lost together or one after the other), two or three prefixes *)
(* in the bucket.                                                            *)
EXTENDS BackupRestore

=============================================================================
