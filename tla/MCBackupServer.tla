--------------------------- MODULE MCBackupServer ---------------------------
(* BackupServer on a small instance. *)
EXTENDS BackupServer

CONSTANTS w1, w2, d1

MCWorkers == {w1, w2}
MCDevices == {d1}
============================================================================
