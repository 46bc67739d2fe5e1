---------------------------- MODULE MCBackupSync ----------------------------
(* BackupSync on a small instance. *)
EXTENDS BackupSync

CONSTANTS w1, d1

MCWorkers == {w1}
MCDevices == {d1}
============================================================================
