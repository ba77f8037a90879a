------------------------------ MODULE MCBackup ------------------------------
(* Instances of Backup for TLC. *)
EXTENDS Backup, TLC

CONSTANTS k1, k2
MCSymmetry == Permutations({k1, k2})
=============================================================================
