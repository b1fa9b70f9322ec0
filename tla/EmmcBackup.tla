---------------------------- MODULE EmmcBackup ----------------------------
(***************************************************************************)
(* The backup tool of Nyx: dump_emmc_selected and _dump_emmc_part of       *)
(* fe_emmc_tools.c.  A partition is copied chunk by chunk into one file or *)
(* into part files; when the SD card is too small the tool stops after the *)
(* parts that fit, leaves their number in partial.idx, and continues there *)
(* after the user has moved the parts away.                                *)
(*                                                                         *)
(* Abstractions.  Sizes are counted in chunks of NUM_SECTORS_PER_ITER      *)
(* sectors.  The eMMC does not change during a backup, so a copied chunk   *)
(* is the address it was read from, with a mark saying whether the SD card *)
(* kept it intact.  Free space is whatever the card happens to have when a *)
(* partition is opened.  Texts, bars and percentages are left out.         *)
(***************************************************************************)
EXTENDS Integers, Sequences, FiniteSets

CONSTANTS
    Menus,        \* sets of buttons, of DOMAIN PartsOf: a user presses those of one
    Size,         \* Size[p]: chunks of partition p
    First,        \* First[p]: its first chunk on its hardware partition
    DeviceSize,   \* chunks of a hardware partition; reads beyond it fail
    Split,        \* multipartSplitSize
    FileLimit,    \* FAT32_FILESIZE_LIMIT
    SparseStep,   \* 4: sparse verification checks every fourth chunk
    U32,          \* what sector counts wrap at
    FreeSpaces,   \* the free space a card may have
    Obedient,     \* does the user continue with the same option, as told?
    MaxSessions,  \* bound: presses of a backup button
    MaxFaults     \* bound: corrupted chunks, failed selections, power cuts

GPP == 0
SD == 3

\* The partitions each button backs up, in order.
PartsOf == [BOOT    |-> <<"BOOT0", "BOOT1">>,
            SYSTEM  |-> <<"SAFE", "SYSTEM">>,
            USER    |-> <<"USER">>,
            RAW     |-> <<"RAW">>,
            EMUBOOT |-> <<"EMUBOOT0", "EMUBOOT1">>,
            EMURAW  |-> <<"EMURAW">>]

Options == UNION Menus
DumpParts == UNION {{PartsOf[o][k] : k \in DOMAIN PartsOf[o]} : o \in Options}
EmuParts == {"EMUBOOT0", "EMUBOOT1", "EMURAW"}

ASSUME BackupSizes ==
    /\ Options \subseteq DOMAIN PartsOf
    /\ {DeviceSize, Split, FileLimit, SparseStep, U32} \subseteq Nat \ {0}
    /\ \A p \in DumpParts : Size[p] \in 1 .. U32 - 1 /\ First[p] \in Nat
    /\ \A p \in DumpParts \cap {"BOOT0", "BOOT1"} : Size[p] <= FileLimit
    /\ FreeSpaces \subseteq Nat /\ FreeSpaces # {}
    /\ Obedient \in BOOLEAN /\ MaxSessions \in Nat /\ MaxFaults \in Nat

NoIdx == -1
None == "none"

VARIABLES
    menu,         \* the buttons this user presses
    exfat,        \* sd_fs.fs_type
    verify_cfg,   \* n_cfg.verification: 0 off, 1 sparse, 2 full (3 adds a hash
                  \* file, whose failure is an error like any other)
    card,         \* the backup files on the SD card
    partial_idx,  \* partial.idx: absent, or the number it holds
    hw,           \* the selected eMMC hardware partition
    opt,          \* the option being backed up
    at,           \* the position of the partition in PartsOf[opt]
    run,          \* where _dump_emmc_part is, and its locals
    kept,         \* the files the user has moved to a computer
    own,          \* history: the unfinished backup that wrote partial.idx
    report,       \* history: report[p], the last backup of p
    sessions, faults

setup == <<menu, exfat, verify_cfg, sessions>>
session == <<hw, opt, at>>
backupVars == <<menu, exfat, verify_cfg, card, partial_idx, hw, opt, at, run,
          kept, own, report, sessions, faults>>

NoDump == [pc |-> "idle"]

\* misled: it continued from the partial.idx of another backup; unchecked: a
\* verification was cancelled; from: the hardware partition it was read from.
NoReport == [res |-> None, split |-> FALSE, misled |-> FALSE,
             unchecked |-> FALSE, from |-> GPP]

BackupInit ==
    /\ menu \in Menus /\ exfat \in BOOLEAN /\ verify_cfg \in 0 .. 2
    /\ card = <<>> /\ partial_idx = NoIdx
    /\ hw = GPP /\ opt = None /\ at = 1 /\ run = NoDump
    /\ kept = <<>> /\ own = None
    /\ report = [p \in DumpParts |-> NoReport]
    /\ sessions = 0 /\ faults = 0

Fault == faults < MaxFaults /\ faults' = faults + 1
NoFault == UNCHANGED faults

---------------------------------------------------------------------------
(* dump_emmc_selected                                                      *)

Current == PartsOf[opt][at]
raw_emummc == Current \in EmuParts

HwOf(p) == CASE p \in {"BOOT0", "EMUBOOT0"} -> 1
             [] p \in {"BOOT1", "EMUBOOT1"} -> 2
             [] OTHER -> GPP

\* emmc_set_partition; its result is not looked at, so when it fails the
\* partition selected before is backed up.
emmc_set_partition(p, before) ==
    \/ hw' = HwOf(p) /\ NoFault
    \/ before # HwOf(p) /\ hw' = before /\ Fault

\* What the dialog asks for: "Select the SAME option again to continue."
Continues(o) == own = None \/ \E k \in DOMAIN PartsOf[o] : PartsOf[o][k] = own

\* A button is pressed.  emmc_initialize selects GPP.  (A card that does not
\* mount or initialise ends the call before anything has changed.)
dump_emmc_selected(o) ==
    /\ run.pc = "idle" /\ sessions < MaxSessions
    /\ Obedient => Continues(o)
    /\ opt' = o /\ at' = 1 /\ run' = [pc |-> "open"]
    /\ emmc_set_partition(PartsOf[o][1], GPP)
    /\ sessions' = sessions + 1
    /\ UNCHANGED <<menu, exfat, verify_cfg, card, partial_idx, kept, own, report>>

Closed == run' = NoDump /\ hw' = GPP /\ opt' = None /\ at' = 1

\* A failure ends the backup of the system partitions; BOOT1 follows BOOT0
\* in any case.
GoesOn(ok) == at < Len(PartsOf[opt]) /\ (ok \/ opt # "SYSTEM")

NextPartition ==
    /\ run.pc = "next"
    /\ at' = at + 1 /\ run' = [pc |-> "open"]
    /\ emmc_set_partition(PartsOf[opt][at + 1], hw)
    /\ UNCHANGED <<menu, exfat, verify_cfg, card, partial_idx, opt, kept, own,
                   report, sessions>>

\* _dump_emmc_part returns; after the last partition emmc_end.
Return(ok) ==
    IF GoesOn(ok)
    THEN run' = [pc |-> "next"] /\ UNCHANGED <<hw, opt, at>>
    ELSE Closed
Reported(r) == [report EXCEPT ![Current].res = r]

---------------------------------------------------------------------------
(* _dump_emmc_part: opening a partition                                    *)

Name(i, split) == <<Current, split, IF split THEN i ELSE 0>>
CurrentFile == Name(run.idx, run.split)
Without(f) == [n \in DOMAIN card \ {f} |-> card[n]]
\* f_open with FA_CREATE_ALWAYS.
Created(f) == [n \in DOMAIN card \cup {f} |-> IF n = f THEN <<>> ELSE card[n]]

\* partial.idx is only used for what does not fit a FAT32 file.
Resumes == partial_idx # NoIdx /\ Size[Current] > FileLimit

Small(free) == Size[Current] > free
Splits(free) ==
    \/ ~exfat /\ Size[Current] > FileLimit
    \/ Small(free) \/ Resumes

\* Mutant: partial.idx taken for the last part written.
StartIdx_Skips == IF Resumes THEN partial_idx + 1 ELSE 0

StartIdx == IF Resumes THEN partial_idx ELSE 0

\* Mutant: totalSectors not reduced when a backup is continued.
Opened_AllLeft(free) ==
    [pc |-> "copy", split |-> Splits(free), small |-> Small(free) \/ Resumes,
     idx |-> StartIdx, max |-> free \div Split + StartIdx,
     lba |-> First[Current] + StartIdx * Split, left |-> Size[Current],
     written |-> 0, retry |-> 0, verification |-> verify_cfg]

\* The locals at the head of the copy loop.
Opened(free) ==
    [pc |-> "copy", split |-> Splits(free), small |-> Small(free) \/ Resumes,
     idx |-> StartIdx, max |-> free \div Split + StartIdx,
     lba |-> First[Current] + StartIdx * Split,
     left |-> (Size[Current] - StartIdx * Split) % U32,
     written |-> 0, retry |-> 0, verification |-> verify_cfg]

OpenReport(free) ==
    [res |-> None, split |-> Splits(free),
     misled |-> Resumes /\ (own # Current \/ report[Current].misled),
     unchecked |-> Resumes /\ report[Current].unchecked,
     from |-> IF Resumes THEN report[Current].from
              ELSE IF raw_emummc THEN SD ELSE hw]

OpenPart ==
    /\ run.pc = "open"
    /\ \E free \in FreeSpaces :
         /\ ~((Small(free) \/ Resumes) /\ free \div Split = 0)
         /\ run' = Opened(free)
         /\ card' = Created(Name(StartIdx, Splits(free)))
         /\ report' = [report EXCEPT ![Current] = OpenReport(free)]
    /\ UNCHANGED <<setup, session, partial_idx, kept, own, faults>>

\* No emuMMC partition found, no space for one part, the user keeps the
\* existing backup, or the file cannot be created.
OpenFails ==
    /\ run.pc = "open"
    /\ Return(FALSE)
    /\ UNCHANGED <<setup, card, partial_idx, kept, own, report, faults>>

---------------------------------------------------------------------------
(* The copy loop                                                           *)

\* Mutant: a part is closed one chunk early.
PartFull_Early == run.split /\ run.written >= Split - 1

PartFull == run.split /\ run.written >= Split
Copying == run.pc = "copy" /\ run.left > 0 /\ ~PartFull

Fails ==
    /\ card' = Without(CurrentFile)
    /\ Return(FALSE) /\ report' = Reported("failed")

\* Mutant: retryCount reset with every attempt.
ReadFails_NoLimit ==
    /\ Copying
    /\ run' = [run EXCEPT !.retry = 1 - @]
    /\ UNCHANGED <<setup, session, card, report, partial_idx, kept, own, faults>>

\* sdmmc_storage_read fails: three attempts, then the file is removed.
ReadFails ==
    /\ Copying
    /\ IF run.retry + 1 >= 3
       THEN Fails
       ELSE run' = [run EXCEPT !.retry = @ + 1] /\ UNCHANGED <<session, card, report>>
    /\ UNCHANGED <<setup, partial_idx, kept, own, faults>>

\* f_write_fast fails, or the user presses both volume buttons.
WriteFails ==
    /\ Copying
    /\ Fails
    /\ UNCHANGED <<setup, partial_idx, kept, own, faults>>

Source == IF raw_emummc THEN SD ELSE hw

Copied ==
    [run EXCEPT !.lba = @ + 1, !.left = @ - 1, !.retry = 0,
                !.written = IF ~run.split /\ @ + 1 >= Split THEN 0 ELSE @ + 1]

CopyChunk ==
    /\ Copying /\ run.lba < DeviceSize
    /\ \E good \in BOOLEAN :
         /\ IF good THEN NoFault ELSE Fault
         /\ card' = [card EXCEPT ![CurrentFile] =
                        Append(@, [hw |-> Source, lba |-> run.lba, ok |-> good])]
    /\ run' = Copied
    /\ UNCHANGED <<setup, session, partial_idx, kept, own, report>>

---------------------------------------------------------------------------
(* _emmc_sd_copy_verify                                                    *)

\* The chunks compared: every one, or every fourth of the file.
Checked(j) == verify_cfg >= 2 \/ (j - 1) % SparseStep = 0
Matches(f) == \A j \in DOMAIN f : Checked(j) => f[j].ok

Verifies == run.verification > 0 /\ ~raw_emummc

\* The possible results: a read or the hash file may fail, and the user may
\* cancel after any chunk that matched.
VerifyResults(f) ==
    {"error"}
    \cup (IF Matches(f) THEN {"ok"} ELSE {})
    \cup (IF f # <<>> /\ f[1].ok THEN {"abort"} ELSE {})

Verify(f) == IF Verifies THEN VerifyResults(f) ELSE {"ok"}

Unchecked(r) == [report EXCEPT ![Current].unchecked = @ \/ r = "abort"]

\* Mutant: a failed verification does not return.
ClosePart_GoesOn ==
    /\ run.pc = "copy" /\ run.left > 0 /\ PartFull
    /\ \E r \in Verify(card[CurrentFile]) :
         /\ run' = [run EXCEPT !.pc = "idx", !.idx = @ + 1,
                               !.verification = IF r = "abort" THEN 0 ELSE @]
         /\ report' = Unchecked(r)
    /\ UNCHANGED <<setup, session, card, partial_idx, kept, own, faults>>

\* A part is full: it is closed and verified.
ClosePart ==
    /\ run.pc = "copy" /\ run.left > 0 /\ PartFull
    /\ \E r \in Verify(card[CurrentFile]) :
         IF r = "error"
         THEN Return(FALSE) /\ report' = Reported("failed")
         ELSE /\ run' = [run EXCEPT !.pc = "idx", !.idx = @ + 1,
                                    !.verification = IF r = "abort" THEN 0 ELSE @]
              /\ report' = Unchecked(r) /\ UNCHANGED session
    /\ UNCHANGED <<setup, card, partial_idx, kept, own, faults>>

\* partial.idx is written before the next part; when the card is full the
\* call ends here.
WriteIdx ==
    /\ run.pc = "idx"
    /\ \/ /\ run.small
          /\ partial_idx' = run.idx /\ own' = Current
          /\ IF run.idx >= run.max
             THEN Return(TRUE) /\ report' = Reported("partial")
             ELSE run' = [run EXCEPT !.pc = "create"] /\ UNCHANGED <<session, report>>
       \/ /\ run.small
          /\ Return(FALSE) /\ report' = Reported("failed")
          /\ UNCHANGED <<partial_idx, own>>
       \/ /\ ~run.small
          /\ run' = [run EXCEPT !.pc = "create"]
          /\ UNCHANGED <<session, partial_idx, own, report>>
    /\ UNCHANGED <<setup, card, kept, faults>>

CreateNext ==
    /\ run.pc = "create"
    /\ \/ /\ card' = Created(CurrentFile)
          /\ run' = [run EXCEPT !.pc = "copy", !.written = 0]
          /\ UNCHANGED <<session, report>>
       \/ Return(FALSE) /\ report' = Reported("failed") /\ UNCHANGED card
    /\ UNCHANGED <<setup, partial_idx, kept, own, faults>>

\* Mutant: the last chunk is left out.
Finish_Early ==
    /\ run.pc = "copy" /\ run.left <= 1
    /\ Return(TRUE)
    /\ report' = Reported("done")
    /\ partial_idx' = IF run.small THEN NoIdx ELSE partial_idx
    /\ own' = IF run.small \/ own = Current THEN None ELSE own
    /\ UNCHANGED <<setup, card, kept, faults>>

\* Everything is copied: the last file is verified and, in a partial backup,
\* partial.idx removed.
Finish ==
    /\ run.pc = "copy" /\ run.left = 0
    /\ \E r \in Verify(card[CurrentFile]) :
         IF r = "error"
         THEN /\ Return(FALSE) /\ report' = Reported("failed")
              /\ UNCHANGED <<partial_idx, own>>
         ELSE /\ Return(TRUE)
              /\ report' = [report EXCEPT ![Current].res = "done",
                                ![Current].unchecked = @ \/ r = "abort"]
              /\ partial_idx' = IF run.small THEN NoIdx ELSE partial_idx
              /\ own' = IF run.small \/ own = Current THEN None ELSE own
    /\ UNCHANGED <<setup, card, kept, faults>>

---------------------------------------------------------------------------
(* The user and the power supply                                           *)

\* The files the user can put together: the newest of each name.
UserFiles == [n \in DOMAIN card \cup DOMAIN kept |->
                IF n \in DOMAIN card THEN card[n] ELSE kept[n]]

\* As the dialog of a partial backup asks for.
MoveFiles ==
    /\ run.pc = "idle" /\ own # None
    /\ kept' = UserFiles /\ card' = <<>>
    /\ UNCHANGED <<setup, session, partial_idx, run, own, report, faults>>

\* While partial.idx is rewritten it may be left empty, which reads as 0.
PowerCut ==
    /\ run.pc # "idle" /\ Fault
    /\ Closed
    /\ \/ UNCHANGED <<partial_idx, own>>
       \/ run.pc = "idx" /\ run.small /\ partial_idx' = 0 /\ own' = Current
    /\ UNCHANGED <<setup, card, kept, report>>

BackupStep ==
    \/ NextPartition \/ OpenPart \/ OpenFails
    \/ ReadFails \/ WriteFails \/ CopyChunk
    \/ ClosePart \/ WriteIdx \/ CreateNext \/ Finish

BackupNext ==
    \/ \E o \in menu : dump_emmc_selected(o)
    \/ BackupStep \/ MoveFiles \/ PowerCut

BackupSpec == BackupInit /\ [][BackupNext]_backupVars
BackupFairSpec == BackupSpec /\ WF_backupVars(BackupStep)

---------------------------------------------------------------------------
(* Properties                                                              *)

Chunk == [hw : 0 .. SD, lba : Nat, ok : BOOLEAN]
Files == DumpParts \X BOOLEAN \X Nat

\* Types of the state; the locals count the file in progress: written is
\* its length, and lba and left move together unless the backup was misled.
BackupTypeOK ==
    /\ \A f \in {card, kept} : \A n \in DOMAIN f : n \in Files /\ f[n] \in Seq(Chunk)
    /\ partial_idx \in Int /\ hw \in 0 .. 2 /\ own \in DumpParts \cup {None}
    /\ run.pc \in {"idle", "next", "open", "copy", "idx", "create"}
    /\ run.pc = "copy" =>
         /\ CurrentFile \in DOMAIN card
         /\ run.split => Len(card[CurrentFile]) = run.written
         /\ report[Current].misled
              \/ run.lba + run.left = First[Current] + Size[Current]

Least(a, b) == IF a < b THEN a ELSE b

\* Part i of p is there and holds exactly its piece of the partition.
PartWhole(p, i) ==
    LET n == <<p, TRUE, i>> IN
    /\ n \in DOMAIN UserFiles
    /\ Len(UserFiles[n]) = Least(Split, Size[p] - i * Split)
    /\ \A j \in DOMAIN UserFiles[n] :
         /\ UserFiles[n][j].hw = report[p].from
         /\ UserFiles[n][j].lba = First[p] + i * Split + j - 1

FileWhole(p) ==
    LET n == <<p, FALSE, 0>> IN
    /\ n \in DOMAIN UserFiles
    /\ Len(UserFiles[n]) = Size[p]
    /\ \A j \in DOMAIN UserFiles[n] :
         /\ UserFiles[n][j].hw = report[p].from
         /\ UserFiles[n][j].lba = First[p] + j - 1

NumParts(p) == (Size[p] + Split - 1) \div Split

\* partial.idx never runs ahead of the files: every part it counts was
\* completed before, whatever failed, was cancelled or lost power since
\* ("Always create partial.idx before next part").
IdxBacked ==
    own # None /\ ~report[own].misled /\ Size[own] > FileLimit =>
        \A i \in 0 .. partial_idx - 1 : PartWhole(own, i)

\* A session always continues from progress the files bear out: partial.idx and
\* the locals of the file in progress agree with what is on the card.
ProgressSound == BackupTypeOK /\ IdxBacked

\* A backup that ends with Done! is the whole partition, however many
\* sessions, restarts and part files it took: every chunk once, in order,
\* in the file its number stands for.
DoneIsWhole ==
    \A p \in DumpParts :
        report[p].res = "done" /\ ~report[p].misled =>
            IF report[p].split
            THEN \A i \in 0 .. NumParts(p) - 1 : PartWhole(p, i)
            ELSE FileWhole(p)

\* With verification on, a backup that is done and none of whose
\* verifications the user cancelled has no corrupted chunk, or, when sparse,
\* none among the chunks compared.
VerifiedIsIntact ==
    \A p \in DumpParts \ EmuParts :
        /\ report[p].res = "done" /\ ~report[p].misled /\ ~report[p].unchecked
        /\ verify_cfg > 0
        => \A n \in DOMAIN UserFiles :
             n[1] = p /\ n[2] = report[p].split
               /\ (n[2] => n[3] < NumParts(p)) => Matches(UserFiles[n])

\* A session that continues from partial.idx continues the backup that
\* wrote it ("Remove partial backup index file if no fatal errors occurred").
ResumesOwn == \A p \in DumpParts : ~report[p].misled

\* Every backup ends, with an eMMC that fails any number of reads too.
SessionsEnd == run.pc # "idle" ~> run.pc = "idle"
====
