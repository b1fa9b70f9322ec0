--------------------------- MODULE SdRepartition ---------------------------
(***************************************************************************)
(* The partition manager, third part: partitioning the SD card.  The files *)
(* are copied to a RAM disk, the card is formatted, the files are copied   *)
(* back and the partition tables of PartLayout are flashed                 *)
(* (gui_tools_partition_manager.c).                                        *)
(*                                                                         *)
(* Abstractions.  A file is a place in the order the directories are read, *)
(* with where it is and its size in half clusters of the RAM disk: what is *)
(* seen of its data is how much of it is there.  The formatted card has    *)
(* room for the files.  No path is longer than 1024 characters (what is in *)
(* a deeper folder is skipped).                                            *)
(*                                                                         *)
(* The code does not look at the results of opening, reading and writing   *)
(* the files it copies, nor of mounting the card again: `hit' collects the *)
(* files such a failure happened to.  Nothing is known of their data, and  *)
(* the copy may not exist.                                                 *)
(***************************************************************************)
EXTENDS Integers, Sequences, SequencesExt, FiniteSetsExt

CONSTANTS
    Contents,     \* the files a card may have: sequences of [at, size]
    RamClusters,  \* clusters of the RAM disk (RAM_DISK_SZ)
    RamLimit      \* RAM_DISK_SZ - 16 MiB, in half clusters

ASSUME RepartSizes ==
    /\ RamClusters \in Nat /\ RamLimit \in Nat
    /\ \A c \in Contents :
         /\ Len(c) \in Nat
         /\ \A n \in 1 .. Len(c) :
              c[n].size \in Nat /\ c[n].at \in {"bootloader", "payload.bin", "other"}

VARIABLES
    files,        \* what was on the card
    backup_possible,
    on_card,      \* how much of each file is on the card, Gone when it is not
    on_ram,       \* the same for the RAM disk
    card_table,   \* "old", "none" while formatting fails, "fat", "new"
    mounted,      \* whether the card is mounted
    hit,          \* the files of which a copy failed unnoticed, at any time
    repart        \* [st, todo, total, tries]: what the manager does

repartVars == <<files, backup_possible, on_card, on_ram, card_table, mounted, hit, repart>>

Gone == -1
Repart(st, todo, tries) == [st |-> st, todo |-> todo, total |-> 0, tries |-> tries]

RepartInit ==
    /\ files \in Contents /\ backup_possible = FALSE
    /\ on_card = [n \in 1 .. Len(files) |-> files[n].size]
    /\ on_ram = [n \in 1 .. Len(files) |-> Gone]
    /\ card_table = "old" /\ mounted = TRUE /\ hit = {} /\ repart = Repart("window", {}, 0)

----------------------------------------------------------------------------
(* Counting and copying.                                                   *)

Cluster == 2
Counted(size) == IF size > Cluster THEN size ELSE Cluster
ClustersOf(size) == IF size <= 0 THEN 0 ELSE (size + Cluster - 1) \div Cluster

\* The clusters that files of these sizes take.
Clusters(size) ==
    LET sum[n \in 0 .. Len(files)] == IF n = 0 THEN 0 ELSE sum[n - 1] + ClustersOf(size[n])
    IN  sum[Len(files)]

RamFree == RamClusters - Clusters(on_ram)

\* _backup_and_restore_files: everything, or the bootloader folder and
\* payload.bin, as far as the source drive has them.
Promised ==
    {n \in 1 .. Len(files) : backup_possible \/ files[n].at \in {"bootloader", "payload.bin"}}

Listed(drive) == {n \in Promised : drive[n] # Gone}

\* _stat_and_copy_files counts what it copies; payload.bin on its own it does not.
IsCounted(n) == backup_possible \/ files[n].at # "payload.bin"

\* The files come in the order the directories are read, payload.bin on its own
\* after the bootloader folder.
NextFile(todo) ==
    LET folder == {n \in todo : IsCounted(n)}
    IN  Min(IF folder # {} THEN folder ELSE todo)

\* _create_mbox_check_files_total_size, and the choice not to back up.
CheckSizes ==
    LET total == FoldLeft(LAMBDA x, f : x + Counted(f.size), 0, files)
    IN  /\ repart.st = "window"
        /\ \/ backup_possible' = (total <= RamLimit)
           \/ backup_possible' = FALSE
        /\ repart' = Repart("warned", {}, 0)
        /\ UNCHANGED <<files, on_card, on_ram, card_table, mounted, hit>>

\* POWER; the RAM disk may fail.
StartPartitioning ==
    /\ repart.st = "warned"
    /\ \/ repart' = Repart("backup", Listed(on_card), 0)
       \/ repart' = Repart("no_ramdisk", {}, 0)
    /\ UNCHANGED <<files, backup_possible, on_card, on_ram, card_table, mounted, hit>>

\* After the copy of one file: too much is an error.
Failed == [backup |-> "backup_failed", restore |-> "restore_failed"]

AfterCopy(n, size) ==
    LET total == repart.total + IF IsCounted(n) THEN Counted(size) ELSE 0
    IN  [repart EXCEPT !.todo = repart.todo \ {n}, !.total = total,
                    !.st = IF total > RamLimit /\ IsCounted(n) THEN Failed[repart.st] ELSE repart.st]

\* A full RAM disk takes what fits: f_lseek and f_write stop short, and nobody
\* looks at their results.
Kept(size) == Min({size, RamFree * Cluster})

\* What a copy leaves of file n, of which `size' arrives when nothing fails; an
\* error of f_open, f_read or f_write is not noticed.
CopyLeaves(n, size, copy) ==
    \/ copy = size /\ UNCHANGED hit
    \/ copy \in {size, Gone} /\ hit' = hit \cup {n}

BackupFile ==
    /\ repart.st = "backup" /\ repart.todo # {}
    /\ LET n == NextFile(repart.todo)
       IN  /\ \E copy \in {Kept(on_card[n]), Gone} :
                /\ CopyLeaves(n, Kept(on_card[n]), copy)
                /\ on_ram' = [on_ram EXCEPT ![n] = copy]
           /\ repart' = AfterCopy(n, on_card[n])
    /\ UNCHANGED <<files, backup_possible, on_card, card_table, mounted>>

\* A directory cannot be read, or payload.bin cannot be opened.
CopyFails ==
    /\ repart.st \in {"backup", "restore"}
    /\ repart' = [repart EXCEPT !.st = Failed[repart.st]]
    /\ UNCHANGED <<files, backup_possible, on_card, on_ram, card_table, mounted, hit>>

\* What formatting may follow: a backup that came to its end.
BackedUp_Ignored == \/ repart.st = "backup" /\ repart.todo = {}
                    \/ repart.st = "backup_failed"
BackedUp == repart.st = "backup" /\ repart.todo = {}

----------------------------------------------------------------------------
(* Formatting, with 64 KiB clusters and then with half of that, down to 4. *)

FormatTries == 5

\* The card is unmounted and f_mkfs starts: the old contents are lost.  After it
\* the card is mounted again, if that works.
Format ==
    /\ BackedUp
    /\ on_card' = [n \in DOMAIN on_card |-> Gone]
    /\ \/ card_table' = "fat" /\ repart' = Repart("restore", Listed(on_ram), 0) /\ mounted' \in BOOLEAN
       \/ card_table' = "none" /\ repart' = Repart("mkfs", {}, 1) /\ mounted' = FALSE
    /\ UNCHANGED <<files, backup_possible, on_ram, hit>>

FormatAgain ==
    /\ repart.st = "mkfs" /\ repart.tries < FormatTries
    /\ \/ card_table' = "fat" /\ repart' = Repart("restore", Listed(on_ram), 0) /\ mounted' \in BOOLEAN
       \/ UNCHANGED <<card_table, mounted>> /\ repart' = Repart("mkfs", {}, repart.tries + 1)
    /\ UNCHANGED <<files, backup_possible, on_card, on_ram, hit>>

\* "Remove the SD card and check that is OK": the card comes back formatted, and
\* sd_mount mounts it or fails.
Reinserted ==
    /\ repart.st = "mkfs" /\ repart.tries = FormatTries
    /\ repart' = Repart("restore", Listed(on_ram), 0) /\ mounted' \in BOOLEAN
    /\ UNCHANGED <<files, backup_possible, on_card, on_ram, card_table, hit>>

----------------------------------------------------------------------------
(* Restoring.                                                              *)

\* Nothing is copied to a card that is not mounted, and nobody notices.
RestoreFile ==
    /\ repart.st = "restore" /\ repart.todo # {}
    /\ LET n == NextFile(repart.todo)
       IN  /\ \E copy \in IF mounted THEN {on_ram[n], Gone} ELSE {Gone} :
                /\ CopyLeaves(n, on_ram[n], copy)
                /\ on_card' = [on_card EXCEPT ![n] = copy]
           /\ repart' = AfterCopy(n, on_ram[n])
    /\ UNCHANGED <<files, backup_possible, on_ram, card_table, mounted>>

RestoreTries == 2

\* Once more from the start, then an error.
RestoreAgain ==
    /\ repart.st = "restore_failed"
    /\ repart' = IF repart.tries + 1 < RestoreTries
                THEN Repart("restore", Listed(on_ram), repart.tries + 1)
                ELSE Repart("not_restored", {}, 0)
    /\ UNCHANGED <<files, backup_possible, on_card, on_ram, card_table, mounted, hit>>

\* "Done!", or "Restored files but the operation failed!"; the RAM disk is
\* unmounted, and the tables are flashed after that.
Restored_Any == \/ repart.st = "restore" /\ repart.todo = {}
                \/ repart.st = "restore_failed"
Restored == repart.st = "restore" /\ repart.todo = {}

RepartFinish ==
    /\ Restored
    /\ on_ram' = [n \in DOMAIN on_ram |-> Gone]
    /\ IF card_table = "fat"
         THEN card_table' = "new" /\ mounted' = FALSE /\ repart' = Repart("done", {}, 0)
         ELSE UNCHANGED <<card_table, mounted>> /\ repart' = Repart("restored_only", {}, 0)
    /\ UNCHANGED <<files, backup_possible, on_card, hit>>

RepartNext ==
    \/ CheckSizes \/ StartPartitioning
    \/ BackupFile \/ CopyFails
    \/ Format \/ FormatAgain \/ Reinserted
    \/ RestoreFile \/ RestoreAgain \/ RepartFinish

RepartSpec == RepartInit /\ [][RepartNext]_repartVars

----------------------------------------------------------------------------
(* Properties.                                                             *)

Whole(drive, n) == drive[n] = files[n].size

\* The clusters of the files that the manager said it would keep fit the RAM disk.
ReallyFits ==
    Clusters([n \in 1 .. Len(files) |-> IF n \in Promised THEN files[n].size ELSE 0]) <= RamClusters

\* When the clusters of the files fit the RAM disk, every file that is to be kept
\* and that no copy failed for unnoticed is whole on the card or on the RAM disk
\* at every moment: whatever happens to the other files, whichever directory
\* cannot be read, however often formatting fails, and though the card may not be
\* mounted again.  A file hit during the backup is formatted away.
FilesSomewhere ==
    ReallyFits => \A n \in Promised \ hit : Whole(on_card, n) \/ Whole(on_ram, n)

\* What the manager reports is so: after an error of the backup the card is as it
\* was; after "Done!" it has the new tables; after "Done!" and "Restored files" it
\* has every file that no copy failed for.  For the others both reports are made
\* all the same.
ReportIsTrue ==
    /\ repart.st \in {"no_ramdisk", "backup_failed"} =>
         card_table = "old" /\ \A n \in 1 .. Len(files) : Whole(on_card, n)
    /\ repart.st = "done" => card_table = "new"
    /\ repart.st \in {"done", "restored_only"} /\ ReallyFits =>
         \A n \in Promised \ hit : Whole(on_card, n)

\* "Your files will be backed up and restored!" (line 2129), at least when nothing fails.
FilesKept ==
    repart.st = "done" /\ backup_possible /\ hit = {} => \A n \in 1 .. Len(files) : Whole(on_card, n)

=============================================================================
