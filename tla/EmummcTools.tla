---------------------------- MODULE EmummcTools ----------------------------
(***************************************************************************)
(* Creating, migrating and choosing an emuMMC in Nyx (fe_emummc_tools.c    *)
(* and gui_emummc_tools.c): the emuMMC folders with their file_based and   *)
(* raw_based flags, the raw images in the partitions of the SD card, the   *)
(* partition table and emummc.ini, with every way a creation can stop.     *)
(*                                                                         *)
(* Abstractions.  An image has the pieces BOOT0, BOOT1 and GPP, each       *)
(* absent, partial or whole; the copy of one piece is a step with all its  *)
(* outcomes.  A sector is the number of the partition it lies in.  Sizes   *)
(* are in units of 0xC000 sectors and more.  The folders can be made: where *)
(* one cannot, copying into it fails too, or writing its flag.             *)
(***************************************************************************)
EXTENDS Integers, Sequences, FiniteSets

CONSTANTS
    Slots,        \* 100: the folders SD00 to SD99, BK00 to BK99
    Tables,       \* the partition tables: 1 .. 3 -> [start, size, type]
    Folders0,     \* the emuMMC folders there may be at first
    SavedFiles,   \* the backups on the card: sets of pieces
    EmmcSize,     \* emmc_storage.sec_cnt
    Protect,      \* 0xC000: protective offset, BOOT0 and BOOT1
    MinPart,      \* 0x80F000
    MaxResized,   \* 0x3810000: up to here USER is resized
    MaxTasks      \* bound: operations of the user

Pieces == <<"BOOT0", "BOOT1", "GPP">>
PieceSet == {"BOOT0", "BOOT1", "GPP"}
Nothing == [p \in PieceSet |-> "none"]

NoPath == <<"none", 0>>
SdFolder(n) == <<"SD", n>>
BkFolder(n) == <<"BK", n>>
RawFolder(k) == <<"RAW", k>>

PieceStates == {"none", "part", "whole"}
EmuFolder == [file : BOOLEAN, raw : 0 .. 3, img : [PieceSet -> PieceStates]]

\* The partition types the tools tell apart: 0x83, 0xEE, 0xFF, 0xE0, 0, others.
PartTypes == {"linux", "gpt", "sfd", "emummc", "none", "fat"}

\* The folders there may be at first are such as the tool makes: RAWk is for
\* partition k.
ASSUME EmummcSizes ==
    /\ {Slots, EmmcSize, Protect, MinPart, MaxTasks} \subseteq Nat \ {0}
    /\ MaxResized \in Nat /\ MinPart > Protect
    /\ Tables \subseteq [1 .. 3 -> [start : Nat, size : Nat, type : PartTypes]]
    /\ \A f \in Folders0 :
         /\ \A n \in DOMAIN f : f[n] \in EmuFolder
         /\ \A k \in 1 .. 3 : RawFolder(k) \in DOMAIN f => f[RawFolder(k)].raw \in {0, k}

\* A folder: its flag files and the image in it.
NewFolder == [file |-> FALSE, raw |-> 0, img |-> Nothing]

VARIABLES
    mbr_table,  \* the MBR of the SD card
    folders,    \* the folders of emuMMC/
    raw_image,  \* the images in the partitions
    ini,        \* emummc.ini: [part, path]
    unflagged,  \* history: the [part, path] whose flag could not be written
    saved,      \* the backup files
    task,       \* the operation in progress
    tasks

emuVars == <<mbr_table, folders, raw_image, ini, unflagged, saved, task, tasks>>

Ini(part, path) == [part |-> part, path |-> path]
Disabled == Ini(0, NoPath)
NoTask == [pc |-> "idle"]

Complete(img) == \A p \in PieceSet : img[p] = "whole"

EmuInit ==
    /\ mbr_table \in Tables /\ folders \in Folders0 /\ saved \in SavedFiles
    /\ raw_image = [k \in 1 .. 3 |-> Nothing]
    /\ ini = Disabled /\ unflagged = {} /\ task = NoTask /\ tasks = 0

Begin(t) == task.pc = "idle" /\ tasks < MaxTasks /\ tasks' = tasks + 1 /\ task' = t

\* f_mkdir.
WithFolder(f) == [n \in DOMAIN folders \cup {f} |-> IF n \in DOMAIN folders THEN folders[n] ELSE NewFolder]

\* The first folder of its kind that does not exist; the last one when all do.
FreeSlot_OneEarly(kind) ==
    CHOOSE n \in 0 .. Slots - 1 :
        /\ <<kind, n + 1>> \notin DOMAIN folders \/ n = Slots - 1
        /\ \A m \in 0 .. n - 1 : <<kind, m + 1>> \in DOMAIN folders

FreeSlot(kind) ==
    CHOOSE n \in 0 .. Slots - 1 :
        /\ <<kind, n>> \notin DOMAIN folders \/ n = Slots - 1
        /\ \A m \in 0 .. n - 1 : <<kind, m>> \in DOMAIN folders

----------------------------------------------------------------------------
(* Creation.                                                               *)

dump_emummc_file ==
    LET f == SdFolder(FreeSlot("SD")) IN
    /\ Begin([pc |-> "copy", kind |-> "file", path |-> f, part |-> 0, n |-> 1,
              full |-> \A m \in 0 .. Slots - 1 : SdFolder(m) \in DOMAIN folders])
    /\ folders' = WithFolder(f)
    /\ UNCHANGED <<mbr_table, raw_image, ini, unflagged, saved>>

\* _create_mbox_emummc_raw: which partitions are offered, and whether USER is
\* resized to fit.
ValidType(k) == mbr_table[k].type \notin {"linux", "gpt", "sfd"}
Resized(k) == mbr_table[k].size <= MaxResized

Available_Above(k) ==
    /\ mbr_table[k].size >= MinPart /\ mbr_table[k].start > 0 /\ ValidType(k)
    /\ Resized(k) \/ mbr_table[k].size >= EmmcSize

Available(k) ==
    /\ mbr_table[k].size >= MinPart /\ mbr_table[k].start > 0 /\ ValidType(k)
    /\ Resized(k) \/ mbr_table[k].size >= EmmcSize + Protect

\* How much of the partition the image takes up.
Extent(k) == Protect + IF Resized(k) THEN mbr_table[k].size - Protect ELSE EmmcSize

\* When USER is resized and no keys can be derived it ends before anything.
dump_emummc_raw(k) ==
    /\ Available(k)
    /\ Begin([pc |-> "copy", kind |-> "raw", path |-> RawFolder(k), part |-> k, n |-> 1, full |-> FALSE])
    /\ folders' = WithFolder(RawFolder(k))
    /\ UNCHANGED <<mbr_table, raw_image, ini, unflagged, saved>>

SetPiece(state) ==
    IF task.kind = "file"
      THEN /\ folders' = [folders EXCEPT ![task.path].img[Pieces[task.n]] = state]
           /\ UNCHANGED raw_image
      ELSE /\ raw_image' = [raw_image EXCEPT ![task.part][Pieces[task.n]] = state]
           /\ UNCHANGED folders

\* After GPP the partition becomes an emuMMC partition.
TypeSet ==
    IF task.kind = "raw" /\ task.n = 3 THEN [mbr_table EXCEPT ![task.part].type = "emummc"] ELSE mbr_table

\* _dump_emummc_file_part, _dump_emummc_raw_part.
PieceCopied ==
    /\ task.pc = "copy"
    /\ SetPiece("whole")
    /\ mbr_table' = TypeSet
    /\ task' = IF task.n < 3 THEN [task EXCEPT !.n = @ + 1] ELSE [task EXCEPT !.pc = "flag"]
    /\ UNCHANGED <<ini, unflagged, saved, tasks>>

\* Cancelled, or a read or write failed three times: the file in progress is
\* removed, its earlier parts and raw sectors stay.  No space: nothing changed.
\* USER of a resized image cannot be formatted: the type is set already.
StopsCopying ==
    /\ task.pc = "copy"
    /\ \/ UNCHANGED <<folders, raw_image, mbr_table>>
       \/ SetPiece("part") /\ UNCHANGED mbr_table
       \/ task.kind = "file" /\ SetPiece("none") /\ UNCHANGED mbr_table
       \/ /\ task.kind = "raw" /\ task.n = 3 /\ Resized(task.part)
          /\ SetPiece("part") /\ mbr_table' = TypeSet
    /\ task' = NoTask
    /\ UNCHANGED <<ini, unflagged, saved, tasks>>

\* Writing the flag of folder f of fs, for partition k or, with 0, file based.
\* Neither f_open nor f_write is looked at: the flag stays as it was, or a
\* raw_based that was created anew is left empty.
FlagWritten(fs, f, k) ==
    /\ folders' = [fs EXCEPT ![f] = IF k # 0 THEN [@ EXCEPT !.raw = k] ELSE [@ EXCEPT !.file = TRUE]]
    /\ unflagged' = unflagged \ {Ini(k, f)}

FlagFails(fs, f, k) ==
    /\ folders' = fs \/ (k # 0 /\ folders' = [fs EXCEPT ![f].raw = 0])
    /\ unflagged' = unflagged \cup {Ini(k, f)}

\* "Finished!": file_based or raw_based, then emummc.ini.
WriteFlag_FileOnly ==
    /\ task.pc = "flag"
    /\ FlagWritten(folders, task.path, 0) \/ FlagFails(folders, task.path, 0)
    /\ task' = [task EXCEPT !.pc = "ini"]
    /\ UNCHANGED <<mbr_table, raw_image, ini, saved, tasks>>

WriteFlag ==
    /\ task.pc = "flag"
    /\ FlagWritten(folders, task.path, task.part) \/ FlagFails(folders, task.path, task.part)
    /\ task' = [task EXCEPT !.pc = "ini"]
    /\ UNCHANGED <<mbr_table, raw_image, ini, saved, tasks>>

\* The folder of a migrated backup, as the flag and emummc.ini have it.
FlagFolder == BkFolder(0)

\* save_emummc_cfg: without a file it returns silently.
SaveCfg(part, path) == ini' \in {ini, Ini(part, path)}

SaveIni ==
    /\ task.pc = "ini"
    /\ SaveCfg(task.part, IF task.kind = "backup" THEN FlagFolder ELSE task.path)
    /\ task' = NoTask
    /\ UNCHANGED <<mbr_table, folders, raw_image, unflagged, saved, tasks>>

----------------------------------------------------------------------------
(* Migration.                                                              *)

\* _create_mbox_emummc_migrate: a partition with the header of a GPT in the
\* place where an emuMMC has it.
Found(k) == mbr_table[k].start > 0 /\ raw_image[k]["GPP"] # "none"

\* _migrate_sd_raw_emummc_based: "repair the config and partition type".
FixRaw(k) ==
    /\ Found(k) /\ \A j \in 1 .. k - 1 : ~Found(j)
    /\ Begin([pc |-> "ini", kind |-> "fix", path |-> RawFolder(k), part |-> k, n |-> 3, full |-> FALSE])
    /\ LET fs == WithFolder(RawFolder(k))
       IN  FlagWritten(fs, RawFolder(k), k) \/ FlagFails(fs, RawFolder(k), k)
    /\ mbr_table' = [mbr_table EXCEPT ![k].type = "emummc"]
    /\ UNCHANGED <<raw_image, ini, saved>>

\* _migrate_sd_backup_file_based: a new folder, but the flag goes to BK00.
MigrateBackup ==
    LET f == BkFolder(FreeSlot("BK")) IN
    /\ {"BOOT0", "GPP"} \subseteq saved
    /\ Begin([pc |-> "move", kind |-> "backup", path |-> f, part |-> 0, n |-> 1,
              full |-> \A m \in 0 .. Slots - 1 : BkFolder(m) \in DOMAIN folders])
    /\ FlagWritten(WithFolder(f), FlagFolder, 0) \/ FlagFails(WithFolder(f), FlagFolder, 0)
    /\ UNCHANGED <<mbr_table, raw_image, ini, saved>>

\* The f_renames: nothing happens when the file is missing or the name is taken.
Moves == Pieces[task.n] \in saved /\ folders[task.path].img[Pieces[task.n]] = "none"

MovePiece ==
    /\ task.pc = "move"
    /\ IF Moves THEN /\ folders' = [folders EXCEPT ![task.path].img[Pieces[task.n]] = "whole"]
                     /\ saved' = saved \ {Pieces[task.n]}
                ELSE UNCHANGED <<folders, saved>>
    /\ task' = IF task.n < 3 THEN [task EXCEPT !.n = @ + 1]
               ELSE [task EXCEPT !.pc = "ini"]
    /\ UNCHANGED <<mbr_table, raw_image, ini, unflagged, tasks>>

----------------------------------------------------------------------------
(* _create_change_emummc_window.                                           *)

\* The folder listed for partition k: its raw_based names a sector inside it.
ListedFor(k) == {f \in DOMAIN folders : folders[f].raw = k}

ChooseRaw(k) ==
    /\ mbr_table[k].start > 0 /\ mbr_table[k].type # "linux"
    /\ Begin(NoTask)
    /\ \E f \in ListedFor(k) : SaveCfg(k, f)
    /\ UNCHANGED <<mbr_table, folders, raw_image, unflagged, saved>>

ChooseFile(f) ==
    /\ folders[f].file
    /\ Begin(NoTask)
    /\ SaveCfg(0, f)
    /\ UNCHANGED <<mbr_table, folders, raw_image, unflagged, saved>>

Disable ==
    /\ Begin(NoTask)
    /\ SaveCfg(0, NoPath)
    /\ UNCHANGED <<mbr_table, folders, raw_image, unflagged, saved>>

\* Power is lost: a piece may be partial; raw_based or emummc.ini, created anew,
\* empty.
EmuPowerCut ==
    /\ task.pc # "idle" /\ task' = NoTask
    /\ CASE task.pc = "copy" -> SetPiece("part") /\ UNCHANGED unflagged
         [] task.pc = "flag" -> FlagFails(folders, task.path, task.part) /\ UNCHANGED raw_image
         [] OTHER -> UNCHANGED <<folders, raw_image, unflagged>>
    /\ ini' \in {ini} \cup (IF task.pc = "ini" THEN {Disabled} ELSE {})
    /\ UNCHANGED <<mbr_table, saved, tasks>>

EmuNext ==
    \/ dump_emummc_file \/ (\E k \in 1 .. 3 : dump_emummc_raw(k))
    \/ PieceCopied \/ StopsCopying \/ WriteFlag \/ SaveIni
    \/ (\E k \in 1 .. 3 : FixRaw(k)) \/ MigrateBackup \/ MovePiece
    \/ (\E k \in 1 .. 3 : ChooseRaw(k)) \/ (\E f \in DOMAIN folders : ChooseFile(f)) \/ Disable
    \/ EmuPowerCut

EmuSpec == EmuInit /\ [][EmuNext]_emuVars

----------------------------------------------------------------------------
(* Properties.                                                             *)

\* The image emummc.ini selects.
Image(i) == IF i.part # 0 THEN raw_image[i.part] ELSE folders[i.path].img

\* Whatever failed, was cancelled or cut short before, an emuMMC that a creation
\* puts into emummc.ini is complete, and a raw one lies inside its partition.
CreatedIsWhole ==
    task.pc = "ini" /\ task.kind \in {"file", "raw"} =>
        /\ Complete(Image(task))
        /\ task.kind = "raw" => Extent(task.part) <= mbr_table[task.part].size

\* The flag that emummc_set_path and the list of emuMMCs look for.
HasFlag(i) ==
    /\ i.path \in DOMAIN folders
    /\ IF i.part # 0 THEN folders[i.path].raw = i.part ELSE folders[i.path].file

\* emummc.ini never names a folder without the flag for what it says of it,
\* across creations that stop, migrations and power cuts at any step, unless
\* just that flag could not be written, which the tools do not notice.
IniHasFlag == ini.path # NoPath /\ ini \notin unflagged => HasFlag(ini)

\* What emummc.ini is given and what it holds: a complete emuMMC, whose folder the
\* boot chain and the list of emuMMCs will find.
IniSound == CreatedIsWhole /\ IniHasFlag

\* An operation damages no emuMMC but the partition it was told to use: a file
\* based creation takes a folder of its own, so the emuMMC in use survives it
\* (as long as not all folders are taken).
OthersKept ==
    [][/\ \A f \in DOMAIN folders :
            Complete(folders[f].img) /\ ~Complete(folders[f].img)' =>
                task.pc # "idle" /\ task.path = f /\ task.full
       /\ \A k \in 1 .. 3 :
            Complete(raw_image[k]) /\ ~Complete(raw_image'[k]) =>
                task.pc # "idle" /\ task.kind = "raw" /\ task.part = k]_emuVars

============================================================================
