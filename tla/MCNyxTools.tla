----------------------------- MODULE MCNyxTools -----------------------------
(***************************************************************************)
(* The tools of Nyx that write to the cards, for TLC: backing up the eMMC  *)
(* (EmmcBackup) and restoring it (EmmcRestore), creating and migrating     *)
(* emuMMCs (EmummcTools), and the partition manager: its sliders and       *)
(* tables (PartLayout), partitioning the SD card (SdRepartition) and       *)
(* flashing Linux and Android (PartFlash).                                 *)
(* They share no state, one window is open at a time; a behaviour runs one *)
(* of them while the others rest.                                          *)
(***************************************************************************)
EXTENDS MCEmmcBackup, MCEmmcRestore, MCEmummcTools, MCPartLayout, MCPartFlash, MCSdRepartition

VARIABLE part   \* which of them a behaviour is about

tools == <<restoreVars, emuVars, layoutVars, flashVars, repartVars>>
mcVars == <<part, backupVars, tools>>

Rests(set) == CHOOSE x \in set : TRUE
RestCard == Rests(SdCards)

MCInit ==
    /\ part \in {"backup", "restore", "emummc", "layout", "flash", "repart"}
    /\ IF part = "backup" THEN TRUE
         ELSE menu = Rests(Menus) /\ exfat = FALSE /\ verify_cfg = 0
    /\ IF part = "restore" THEN TRUE
         ELSE backup = RestCard.files /\ mbr = RestCard.mbr /\ verif = Rests(Verifications)
    /\ IF part = "emummc" THEN TRUE
         ELSE mbr_table = Rests(Tables) /\ folders = Rests(Folders0) /\ saved = Rests(SavedFiles)
    /\ IF part = "layout" THEN TRUE
         ELSE dev = Rests(Devices) /\ emmc_size = Rests(EmmcSizes)
    /\ IF part = "flash" THEN TRUE
         ELSE /\ l4t_files = Rests(L4tImages) /\ and_files = Rests(AndroidImages)
              /\ targets = Rests(FlashTargets)
    /\ IF part = "repart" THEN TRUE
         ELSE files = Rests(Contents)
    /\ BackupInit /\ RestoreInit /\ EmuInit /\ LayoutInit /\ FlashInit /\ RepartInit

MCNext ==
    \/ part = "backup" /\ BackupNext /\ UNCHANGED <<part, tools>>
    \/ /\ part = "restore" /\ RestoreNext
       /\ UNCHANGED <<part, backupVars, emuVars, layoutVars, flashVars, repartVars>>
    \/ /\ part = "emummc" /\ EmuNext
       /\ UNCHANGED <<part, backupVars, restoreVars, layoutVars, flashVars, repartVars>>
    \/ /\ part = "layout" /\ LayoutNext
       /\ UNCHANGED <<part, backupVars, restoreVars, emuVars, flashVars, repartVars>>
    \/ /\ part = "flash" /\ FlashNext
       /\ UNCHANGED <<part, backupVars, restoreVars, emuVars, layoutVars, repartVars>>
    \/ /\ part = "repart" /\ RepartNext
       /\ UNCHANGED <<part, backupVars, restoreVars, emuVars, layoutVars, flashVars>>

\* The fairness of BackupFairSpec and of RestoreFairSpec.
MCSpec ==
    /\ MCInit /\ [][MCNext]_mcVars
    /\ WF_mcVars(part = "backup" /\ BackupStep /\ UNCHANGED <<part, tools>>)
    /\ WF_mcVars(/\ part = "restore" /\ RestoreStep
                 /\ UNCHANGED <<part, backupVars, emuVars, layoutVars, flashVars, repartVars>>)

=============================================================================
