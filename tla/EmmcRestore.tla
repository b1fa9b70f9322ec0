---------------------------- MODULE EmmcRestore ----------------------------
(***************************************************************************)
(* The restore tool of Nyx: restore_emmc_selected and _restore_emmc_part   *)
(* of fe_emmc_tools.c.  A backup, one file or several part files, is       *)
(* written chunk by chunk over a partition of the eMMC, or into a          *)
(* partition of the SD card that is then made the emuMMC in use.           *)
(*                                                                         *)
(* Abstractions.  Sizes are counted in units of 0x1000 sectors, half of    *)
(* NUM_SECTORS_PER_ITER, so that files may end inside a chunk.  A unit of  *)
(* a backup is the name of its partition and its place in it.  image holds *)
(* the units the tool has written, wherever they went.  The answer to a    *)
(* dialog is either; declining the first one changes nothing.              *)
(***************************************************************************)
EXTENDS Integers, Sequences, FiniteSets

CONSTANTS
    SdCards,      \* the SD cards: restore folder and partition table
    Verifications,  \* the settings of n_cfg.verification: 0 off, 1 sparse, 2 full
    Room,         \* Room[t]: units of partition t
    Lba,          \* Lba[t]: its first unit on its hardware partition
    MaxPresses,   \* bound: presses of a restore button
    MaxMishaps    \* bound: failed selections, corrupted chunks, power cuts

Iter == 2               \* NUM_SECTORS_PER_ITER
BootUnits == 2          \* 0x2000
EmuOffset == 8          \* 0x8000
Wrap32 == 6             \* what bytesWritten, a u32, wraps at
WriteTries == 3

\* The partitions each button restores, in order.
RestoreOf == [BOOT |-> <<"BOOT0", "BOOT1">>, GP_ALL |-> <<"SYSTEM", "USER">>, RAW |-> <<"RAW">>]
Targets == {"BOOT0", "BOOT1", "SYSTEM", "USER", "RAW"}
NoFile == 0

\* A card is [files, mbr], a backup in it [single, parts]: the size of the
\* combined file, or NoFile, and the sizes of the part files .00, .01, ...
ASSUME RestoreSizes ==
    /\ \A c \in SdCards :
         /\ \A t \in Targets : c.files[t].single \in Nat /\ c.files[t].parts \in Seq(Nat \ {0})
         /\ \A k \in 1 .. 3 : c.mbr[k].start \in Nat /\ c.mbr[k].size \in Nat
    /\ Verifications \subseteq 0 .. 2
    /\ \A t \in Targets : Room[t] \in Nat \ {0} /\ Lba[t] \in Nat
    /\ MaxPresses \in Nat /\ MaxMishaps \in Nat

VARIABLES
    backup,       \* the restore folder
    mbr,          \* the partition table of the SD card
    verif,        \* n_cfg.verification
    image,        \* what has been written: <<device, unit>> -> content
    sel,          \* the selected eMMC hardware partition
    raw_based,    \* the sector in emuMMC/RAWn/raw_based, n = 1 .. 3; 0: no file
    emu_ini,      \* the sector that emummc.ini enables; 0: none
    noted,        \* history: the last restore of an emuMMC wrote both files
    job,          \* the call in progress and its locals
    outcome,      \* history: how the last restore of a partition ended
    presses, mishaps

restoreVars == <<backup, mbr, verif, image, sel, raw_based, emu_ini, noted, job, outcome,
                 presses, mishaps>>
fixed == <<backup, mbr, verif>>
emuFiles == <<raw_based, emu_ini, noted>>

NoJob == [pc |-> "idle"]
Garbage == <<"garbage", 0>>  \* whatever the buffer held before
Bad == <<"bad", 0>>          \* a chunk the card did not keep

\* part: where it went; total: how much; sure: verified, every file.
NoOutcome == [res |-> "none", emu |-> FALSE, dev |-> "none", off |-> 0, total |-> 0,
              sure |-> FALSE, astray |-> FALSE]

RestoreInit ==
    /\ \E c \in SdCards : backup = c.files /\ mbr = c.mbr
    /\ verif \in Verifications
    /\ image = <<>>
    /\ sel = "GPP" /\ raw_based = [k \in 1 .. 3 |-> 0] /\ emu_ini = 0 /\ noted = FALSE
    /\ job = NoJob /\ outcome = [t \in Targets |-> NoOutcome]
    /\ presses = 0 /\ mishaps = 0

Mishap == mishaps < MaxMishaps /\ mishaps' = mishaps + 1

Smaller(a, b) == IF a < b THEN a ELSE b

----------------------------------------------------------------------------
(* restore_emmc_selected.                                                  *)

Target == RestoreOf[job.button][job.k]

Select(t) == IF t \in {"BOOT0", "BOOT1"} THEN t ELSE "GPP"

\* emmc_set_partition; its result is not looked at.
SelectPartition(t, before) ==
    \/ sel' = Select(t) /\ UNCHANGED mishaps
    \/ Select(t) # before /\ sel' = before /\ Mishap

\* A button, with the emuMMC switch on or off (it is not offered for GP_ALL).
\* emmc_initialize selects GPP.
restore_emmc_selected(button, emu) ==
    /\ job.pc = "idle" /\ presses < MaxPresses
    /\ emu => button # "GP_ALL"
    /\ job' = [pc |-> "open", button |-> button, emu |-> emu, k |-> 1]
    /\ SelectPartition(RestoreOf[button][1], "GPP")
    /\ presses' = presses + 1
    /\ UNCHANGED <<fixed, image, emuFiles, outcome>>

\* _restore_emmc_part has returned: failed or skipped, the next one follows.
RestoreReturns(o) ==
    /\ outcome' = [outcome EXCEPT ![Target] = o]
    /\ job' = IF job.k < Len(RestoreOf[job.button])
                THEN [pc |-> "next", button |-> job.button, emu |-> job.emu, k |-> job.k]
                ELSE NoJob

RestoreFails == RestoreReturns([NoOutcome EXCEPT !.res = "failed"])

NextTarget ==
    /\ job.pc = "next"
    /\ job' = [job EXCEPT !.pc = "open", !.k = @ + 1]
    /\ SelectPartition(RestoreOf[job.button][job.k + 1], sel)
    /\ UNCHANGED <<fixed, image, emuFiles, outcome, presses>>

----------------------------------------------------------------------------
(* _restore_emmc_part: which files, how much, and where to.                *)

RestoreFiles == backup[Target]
RoomOf == IF job.emu /\ Target # "RAW" THEN BootUnits ELSE Room[Target]
multi == Target = "RAW" /\ RestoreFiles.single = NoFile

\* Before[n]: the size of the first n part files.
Before(parts) ==
    LET sum[n \in 0 .. Len(parts)] == IF n = 0 THEN 0 ELSE sum[n - 1] + parts[n] IN sum

\* The number of part files looked at until their size is reached or exceeded
\* or one is missing.
PartsFound ==
    LET sum == Before(RestoreFiles.parts)
    IN  CHOOSE n \in 0 .. Len(RestoreFiles.parts) :
          /\ sum[n] >= RoomOf \/ n = Len(RestoreFiles.parts)
          /\ \A m \in 0 .. n - 1 : sum[m] < RoomOf

FoundSize == IF multi THEN Before(RestoreFiles.parts)[PartsFound] ELSE RestoreFiles.single

\* Too large, none at all, or a first part that is no multiple of 4 MiB.
Refused ==
    \/ FoundSize > RoomOf
    \/ multi /\ RestoreFiles.parts = <<>>
    \/ multi /\ RestoreFiles.parts # <<>> /\ RestoreFiles.parts[1] % Iter # 0

\* _get_valid_partition(.., false): the first that holds the GPP of an emuMMC.
Suitable(k) ==
    mbr[k].size >= FoundSize + EmuOffset /\ mbr[k].start # 0 /\ mbr[k].type # "linux"

ValidPartition ==
    IF \E k \in 1 .. 3 : Suitable(k)
      THEN CHOOSE k \in 1 .. 3 : Suitable(k) /\ \A j \in 1 .. k - 1 : ~Suitable(j)
      ELSE 0

\* Where the image goes on the SD card: behind the BOOT partitions before it.
ActivePart == CASE Target = "BOOT0" -> 0 [] Target = "BOOT1" -> 1 [] OTHER -> 2
SdOffset(k) == mbr[k].start + EmuOffset + BootUnits * ActivePart

\* "Continuing...": there is no file, or it cannot be opened.
RestoreSkips ==
    /\ job.pc = "open" /\ (multi => ~Refused)
    /\ RestoreReturns([NoOutcome EXCEPT !.res = "skipped"])
    /\ UNCHANGED <<fixed, image, sel, emuFiles, presses, mishaps>>

\* Refused, aborted at the question about a small file, or no partition.
RestoreRefused ==
    /\ job.pc = "open" /\ (multi \/ RestoreFiles.single # NoFile)
    /\ \/ Refused
       \/ ~job.emu /\ FoundSize # RoomOf
       \/ job.emu /\ ValidPartition = 0
    /\ RestoreFails
    /\ UNCHANGED <<fixed, image, sel, emuFiles, presses, mishaps>>

Device == IF job.emu THEN "SD" ELSE sel
Offset == IF job.emu THEN SdOffset(ValidPartition) ELSE Lba[Target]

\* History: an earlier restore is no longer on record once it is written over.
Overwritten(t) ==
    \/ t = Target
    \/ /\ outcome[t].dev = Device
       /\ outcome[t].off < Offset + FoundSize /\ Offset < outcome[t].off + outcome[t].total

RestoreOpens ==
    /\ job.pc = "open" /\ (multi \/ RestoreFiles.single # NoFile)
    /\ ~Refused /\ (job.emu => ValidPartition # 0)
    /\ job' = [pc |-> "copy", button |-> job.button, emu |-> job.emu, k |-> job.k,
               multi |-> multi, idx |-> 0, fp |-> 0, bytesWritten |-> 0,
               left |-> FoundSize, total |-> FoundSize, done |-> 0, partStart |-> 0,
               dev |-> Device, off |-> Offset,
               part |-> IF job.emu THEN ValidPartition ELSE 0,
               buf |-> [j \in 0 .. Iter - 1 |-> Garbage],
               verification |-> verif, tries |-> 0]
    /\ outcome' = [t \in Targets |-> IF Overwritten(t) THEN NoOutcome ELSE outcome[t]]
    /\ UNCHANGED <<fixed, image, sel, emuFiles, presses, mishaps>>

----------------------------------------------------------------------------
(* The copy.                                                               *)

\* The open file: its size, and where it is in the backup.
FileUnits == IF job.multi THEN RestoreFiles.parts[job.idx + 1] ELSE RestoreFiles.single
FileBase == IF job.multi THEN Before(RestoreFiles.parts)[job.idx] ELSE 0

\* A unit of the open file.
Content(n) == <<Target, FileBase + n>>

\* "make sure that the bytes written is not more than that"
PartWritten_OneMore == job.multi /\ job.bytesWritten > FileUnits

PartWritten == job.multi /\ job.bytesWritten >= FileUnits

Num == Smaller(job.left, Iter)

\* f_read_fast stops at the end of the file without an error.
Got == Smaller(Num, FileUnits - job.fp)
ReadBuf == [j \in 0 .. Iter - 1 |-> IF j < Got THEN Content(job.fp + j) ELSE job.buf[j]]

Written(buf) ==
    [a \in DOMAIN image \cup {<<job.dev, job.off + job.done + j>> : j \in 0 .. Num - 1} |->
       IF a[1] = job.dev /\ a[2] - job.off - job.done \in 0 .. Num - 1
         THEN buf[a[2] - job.off - job.done] ELSE image[a]]

\* What a failed write, or a card that loses it, leaves: anything.
Torn == Written([j \in 0 .. Iter - 1 |-> Bad])

\* A chunk is read and written; the card may fail to keep what it accepted.
RestoreChunk ==
    /\ job.pc = "copy" /\ job.left > 0 /\ ~PartWritten
    /\ \/ image' = Written(ReadBuf) /\ UNCHANGED mishaps
       \/ image' = Torn /\ Mishap
    /\ job' = [job EXCEPT !.fp = @ + Got, !.buf = ReadBuf, !.done = @ + Num, !.left = @ - Num,
                          !.bytesWritten = (@ + Num) % Wrap32, !.tries = 0]
    /\ UNCHANGED <<fixed, sel, emuFiles, outcome, presses>>

\* The SD card cannot be read: the call ends at once.
RestoreReadFails ==
    /\ job.pc = "copy" /\ job.left > 0 /\ ~PartWritten
    /\ RestoreFails
    /\ UNCHANGED <<fixed, image, sel, emuFiles, presses, mishaps>>

\* A write fails; the third time the call ends.
RestoreWriteFails_NoLimit ==
    /\ job.pc = "copy" /\ job.left > 0 /\ ~PartWritten
    /\ image' = Torn
    /\ job' = [job EXCEPT !.tries = (@ + 1) % WriteTries] /\ UNCHANGED outcome
    /\ UNCHANGED <<fixed, sel, emuFiles, presses, mishaps>>

RestoreWriteFails ==
    /\ job.pc = "copy" /\ job.left > 0 /\ ~PartWritten
    /\ image' = Torn
    /\ IF job.tries + 1 >= WriteTries
         THEN RestoreFails
         ELSE job' = [job EXCEPT !.tries = @ + 1] /\ UNCHANGED outcome
    /\ UNCHANGED <<fixed, sel, emuFiles, presses, mishaps>>

----------------------------------------------------------------------------
(* Verification, part after part.                                          *)

\* _emmc_sd_copy_verify on the open file and the eMMC from lbaStartPart on.
UnitMatches(n) ==
    LET a == <<job.dev, job.off + job.partStart + n>> IN a \in DOMAIN image /\ image[a] = Content(n)
Compared(n) == verif >= 2 \/ (n \div Iter) % 4 = 0
FileMatches == \A n \in 0 .. FileUnits - 1 : Compared(n) => UnitMatches(n)

\* A read may fail; the user may cancel after a chunk that matched.
VerifyFile ==
    IF job.verification = 0 \/ job.emu THEN {"skip"}
    ELSE {"error"} \cup (IF FileMatches THEN {"ok"} ELSE {})
         \cup (IF \A n \in 0 .. Smaller(FileUnits, Iter) - 1 : UnitMatches(n) THEN {"abort"} ELSE {})

Later_Stays(r) == job.verification

Later(r) == IF r = "abort" THEN 0 ELSE job.verification

\* The part is through: verified, and the next one opened.
RestoreSwitch ==
    /\ job.pc = "copy" /\ job.left > 0 /\ PartWritten
    /\ \E r \in VerifyFile :
         IF r = "error" \/ job.idx + 1 >= Len(RestoreFiles.parts)
           THEN RestoreFails
           ELSE /\ job' = [job EXCEPT !.idx = @ + 1, !.fp = 0, !.bytesWritten = 0,
                                      !.partStart = job.done, !.verification = Later(r)]
                /\ UNCHANGED outcome
    /\ UNCHANGED <<fixed, image, sel, emuFiles, presses, mishaps>>

Succeeded(r) ==
    [res |-> "done", emu |-> job.emu, dev |-> job.dev, off |-> job.off, total |-> job.total,
     sure |-> r = "ok", astray |-> ~job.emu /\ sel # Select(Target)]

\* Where the emuMMC begins, as raw_based and emummc.ini have it.
EmuSector_Start == mbr[job.part].start

EmuSector == mbr[job.part].start + EmuOffset

\* Both files are written without a look at the results (save_emummc_cfg returns
\* nothing): one that cannot be opened stays as it was, one that cannot be
\* written is left empty.
NoteEmu ==
    \E rb \in {EmuSector, raw_based[job.part], 0}, ini \in {EmuSector, emu_ini, 0} :
        /\ raw_based' = [raw_based EXCEPT ![job.part] = rb] /\ emu_ini' = ini
        /\ noted' = (rb = EmuSector /\ ini = EmuSector)

\* All written: the last verification, or for an emuMMC the two files instead.
RestoreDone ==
    /\ job.pc = "copy" /\ job.left = 0
    /\ \E r \in VerifyFile :
         \/ r = "error" /\ RestoreFails /\ UNCHANGED emuFiles
         \/ /\ r # "error" /\ RestoreReturns(Succeeded(r))
            /\ IF job.emu THEN NoteEmu ELSE UNCHANGED emuFiles
    /\ UNCHANGED <<fixed, image, sel, presses, mishaps>>

----------------------------------------------------------------------------

RestorePowerCut ==
    /\ job.pc # "idle" /\ Mishap
    /\ job' = NoJob /\ sel' = "GPP"
    /\ outcome' = [outcome EXCEPT ![Target] = [NoOutcome EXCEPT !.res = "failed"]]
    /\ UNCHANGED <<fixed, image, emuFiles, presses>>

RestoreStep ==
    \/ NextTarget \/ RestoreSkips \/ RestoreRefused \/ RestoreOpens
    \/ RestoreChunk \/ RestoreReadFails \/ RestoreWriteFails \/ RestoreSwitch \/ RestoreDone

RestoreNext ==
    \/ \E b \in DOMAIN RestoreOf, e \in BOOLEAN : restore_emmc_selected(b, e)
    \/ RestoreStep \/ RestorePowerCut

RestoreSpec == RestoreInit /\ [][RestoreNext]_restoreVars

\* A restore in progress goes on: the user answers the dialogs, and reads and
\* writes end by themselves.
RestoreFairSpec == RestoreSpec /\ WF_restoreVars(RestoreStep)

----------------------------------------------------------------------------
(* Properties.                                                             *)

Finished(t) == outcome[t].res = "done" /\ ~outcome[t].astray

\* Backups as the backup tool makes them: every part file but the last a
\* multiple of a chunk and small enough for the u32 byte count.
Regular(t) ==
    LET p == backup[t].parts
    IN  backup[t].single = NoFile => \A n \in 1 .. Len(p) - 1 : p[n] % Iter = 0 /\ p[n] < Wrap32

Placed(t, g) == image[<<outcome[t].dev, outcome[t].off + g>>]

\* A finished restore has put every unit of the backup in its place, across
\* the borders of chunks and part files, after failures and power cuts in
\* earlier attempts: other content is there only where the card lost it.
RestoredIsBackup ==
    \A t \in Targets : Finished(t) /\ Regular(t) =>
        \A g \in 0 .. outcome[t].total - 1 : Placed(t, g) \in {<<t, g>>, Bad}

\* With full verification, and none of it cancelled, what the card lost is
\* found: each part file is compared with the range it was written to.
VerifiedIsRestored ==
    \A t \in Targets : Finished(t) /\ outcome[t].sure /\ verif = 2 /\ Regular(t) =>
        \A g \in 0 .. outcome[t].total - 1 : Placed(t, g) = <<t, g>>

\* A restore does what it reports, with or without verification.
RestoreSound == RestoredIsBackup /\ VerifiedIsRestored

\* The first partition that is not skipped has room for BOOT0, BOOT1 and GPP.
FirstFits ==
    \E k \in 1 .. 3 :
        /\ mbr[k].size >= EmuOffset + 2 * BootUnits + Room["RAW"]
        /\ mbr[k].start # 0 /\ mbr[k].type # "linux"
        /\ \A j \in 1 .. k - 1 : mbr[j].start = 0 \/ mbr[j].type = "linux"

EmuFinished(t) == outcome[t].res = "done" /\ outcome[t].emu

\* BOOT and RAW are restored by two presses, in any order and possibly after
\* failures.  When both have finished, there is an emuMMC with all its parts:
\* BOOT0, BOOT1 and GPP one behind the other as emuMMC expects them (0x2000
\* sectors each for BOOT), inside one partition, and emummc.ini and raw_based
\* name it unless the last press failed to write them, which the tool does not
\* tell.  Where FirstFits does not hold this is not so: each press looks for a
\* partition by the size of its own files, and finds different ones.
EmuIsWhole ==
    FirstFits /\ (\A t \in {"BOOT0", "BOOT1", "RAW"} : EmuFinished(t) /\ Regular(t)) =>
        \E k \in 1 .. 3 :
          /\ noted => emu_ini = mbr[k].start + EmuOffset /\ raw_based[k] = emu_ini
          /\ \A t \in {"BOOT0", "BOOT1", "RAW"} :
               LET s == mbr[k].start + EmuOffset + CASE t = "BOOT0" -> 0 [] t = "BOOT1" -> BootUnits
                                                     [] OTHER -> 2 * BootUnits
               IN  /\ outcome[t].dev = "SD" /\ outcome[t].off = s
                   /\ s + outcome[t].total <= mbr[k].start + mbr[k].size
                   /\ \A g \in 0 .. outcome[t].total - 1 : Placed(t, g) \in {<<t, g>>, Bad}

\* Every restore ends, with a card that fails any number of writes too.
RestoreEnds == job.pc # "idle" ~> job.pc = "idle"

============================================================================
