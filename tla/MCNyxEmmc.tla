------------------------------ MODULE MCNyxEmmc ------------------------------
(***************************************************************************)
(* The eMMC in Nyx for TLC: the encrypted partitions behind the cluster    *)
(* cache (NxEmmcBis) and the backup of whole partitions (EmmcBackup).      *)
(* They share no state; a behaviour runs one of them while the other       *)
(* rests.                                                                  *)
(***************************************************************************)
EXTENDS MCNxEmmcBis, MCEmmcBackup

VARIABLE part   \* which of them a behaviour is about

emmcVars == <<part, vars, backupVars>>

EmmcInit ==
    /\ part \in {"bis", "backup"}
    /\ IF part = "backup" THEN TRUE
         ELSE menu = (CHOOSE m \in Menus : TRUE) /\ exfat = FALSE /\ verify_cfg = 0
    /\ Init /\ BackupInit
    /\ part = "backup" => cache.enabled = FALSE

EmmcNext ==
    \/ part = "bis" /\ MCNext /\ UNCHANGED <<part, backupVars>>
    \/ part = "backup" /\ BackupNext /\ UNCHANGED <<part, vars>>

EmmcSpec == EmmcInit /\ [][EmmcNext]_emmcVars

=============================================================================
