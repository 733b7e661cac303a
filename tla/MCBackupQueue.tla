---------------------------- MODULE MCBackupQueue ----------------------------
(* Small instances of BackupQueue for TLC. *)
EXTENDS BackupQueue

CONSTANTS p1, p2, p3

=============================================================================
