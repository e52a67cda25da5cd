------------------------------ MODULE MCBackup ------------------------------
(* The two halves of backend/backup.  The cycle and the restore share no      *)
(* state but a finished snapshot, so that a behaviour is of one of them while *)
(* the other stands at its beginning.                                        *)
EXTENDS Backup, SnapshotRestore, TLC

CONSTANTS u1, u2, d1

MCInit == Init /\ BackupInit

MCNext ==
  \/ Init /\ schema = Latest /\ BackupNext /\ UNCHANGED vars
  \/ BackupInit /\ ~production /\ ~remoteSet /\ remote = <<>> /\ Next /\ UNCHANGED backupVars

MCSpec == MCInit /\ [][MCNext]_<<vars, backupVars>>

Symmetry == Permutations(User)
=============================================================================
