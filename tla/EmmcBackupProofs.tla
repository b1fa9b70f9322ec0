-------------------------- MODULE EmmcBackupProofs --------------------------
(***************************************************************************)
(* Proofs about EmmcBackup: partial.idx never runs ahead of the files, a   *)
(* backup that ends with Done! is the whole partition, and with            *)
(* verification on it has no corrupted chunk among those compared, for any *)
(* sizes, card, number of sessions and faults.  And about EmmcRestore: a   *)
(* finished restore has put every unit of a regular backup in its place,   *)
(* and a restored emuMMC is whole.                                         *)
(***************************************************************************)
EXTENDS EmmcBackup, EmmcRestore, FiniteSetTheorems, TLAPS

(* The inductive invariant *)

Busy == run.pc \in {"copy", "idx", "create"}

Result == {None, "failed", "partial", "done"}
Report == [res : Result, split : BOOLEAN, misled : BOOLEAN, unchecked : BOOLEAN, from : 0 .. SD]
Locals == [pc : {"copy", "idx", "create"}, split : BOOLEAN, small : BOOLEAN, idx : Nat,
           max : Nat, lba : Nat, left : Nat, written : Nat, retry : Nat, verification : 0 .. 2]
Resting == {NoDump, [pc |-> "open"], [pc |-> "next"]}

NamedFiles(f) ==
    \A n \in DOMAIN f : n \in Files /\ (~n[2] => n[3] = 0) /\ f[n] \in Seq(Chunk)

\* Which partition is at work; only a boot option can find the wrong
\* hardware partition selected.
Where ==
    run.pc # "idle" =>
        /\ opt \in Options /\ at \in 1 .. Len(PartsOf[opt])
        /\ run.pc = "next" => at < Len(PartsOf[opt])
        /\ opt \in {"SYSTEM", "USER", "RAW"} => hw = GPP

Types ==
    /\ menu \in Menus /\ verify_cfg \in 0 .. 2 /\ hw \in 0 .. 2
    /\ NamedFiles(card) /\ NamedFiles(kept)
    /\ partial_idx \in Nat \cup {NoIdx} /\ own \in DumpParts \cup {None}
    /\ own # None => partial_idx # NoIdx
    /\ report \in [DumpParts -> Report]
    /\ run \in Resting \cup Locals
    /\ Where

\* A part that is whole and, when verification promises it, intact.
Promised(p) == verify_cfg > 0 /\ ~report[p].unchecked /\ p \notin EmuParts
PartGood(p, i) ==
    PartWhole(p, i) /\ (Promised(p) => Matches(UserFiles[<<p, TRUE, i>>]))
FileGood(p) ==
    FileWhole(p) /\ (Promised(p) => Matches(UserFiles[<<p, FALSE, 0>>]))

Home(p) == IF p \in EmuParts THEN SD ELSE GPP

\* What partial.idx stands for between two sessions.
Paused ==
    own # None /\ ~report[own].misled /\ Size[own] > FileLimit =>
        /\ partial_idx * Split < Size[own]
        /\ report[own].from = Home(own)
        /\ \A i \in 0 .. partial_idx - 1 : PartGood(own, i)

\* The session at work, wherever it continued from ...
Working ==
    Busy =>
        /\ report[Current].res = None /\ report[Current].split = run.split
        /\ own = Current /\ Size[Current] > FileLimit => partial_idx <= run.idx
        /\ ~report[Current].unchecked => run.verification = verify_cfg
        /\ ~run.split => run.idx = 0 /\ run.pc = "copy"
        /\ run.pc = "copy" =>
             /\ CurrentFile \in DOMAIN card
             /\ run.split => Len(card[CurrentFile]) = run.written /\ run.written <= Split

\* The first n chunks from chunk base of the source of p.
Prefix(f, base, from) ==
    \A j \in DOMAIN f : f[j].hw = from /\ f[j].lba = base + j - 1

\* ... and one that was not misled: the parts before are good, and the file in
\* progress holds what lies between its start and lba.
OnTrack ==
    Busy /\ ~report[Current].misled =>
        /\ report[Current].from = Source
        /\ run.idx * Split < Size[Current]
        /\ run.lba + run.left = First[Current] + Size[Current]
        /\ \A i \in 0 .. run.idx - 1 : PartGood(Current, i)
        /\ run.pc = "copy" =>
             /\ run.lba = First[Current] + run.idx * Split + Len(card[CurrentFile])
             /\ Prefix(card[CurrentFile], First[Current] + run.idx * Split, Source)
        /\ run.pc # "copy" => run.lba = First[Current] + run.idx * Split

DonePart(p) ==
    report[p].res = "done" /\ ~report[p].misled =>
        IF report[p].split
        THEN \A i \in 0 .. NumParts(p) - 1 : PartGood(p, i)
        ELSE FileGood(p)

Done == \A p \in DumpParts : DonePart(p)

BackupInv == Types /\ Paused /\ Working /\ OnTrack /\ Done

---------------------------------------------------------------------------
(* Arithmetic and the constants *)

LEMMA ModSmall ==
  ASSUME NEW x \in Nat, NEW n \in Nat \ {0}, x < n
  PROVE  x % n = x
  OBVIOUS

LEMMA ModNat ==
  ASSUME NEW x \in Int, NEW n \in Nat \ {0}
  PROVE  x % n \in Nat
  OBVIOUS

LEMMA MulNat ==
  ASSUME NEW a \in Nat, NEW b \in Nat
  PROVE  a * b \in Nat
  OBVIOUS

\* i parts of n end where part i begins.
LEMMA MulStep ==
  ASSUME NEW i \in Nat, NEW n \in Nat
  PROVE  (i + 1) * n = i * n + n
  OBVIOUS

LEMMA MulMono ==
  ASSUME NEW i \in Nat, NEW k \in Nat, NEW n \in Nat, i <= k
  PROVE  i * n <= k * n
  OBVIOUS

LEMMA PartsOfSeq ==
  ASSUME NEW o \in DOMAIN PartsOf
  PROVE  Len(PartsOf[o]) \in {1, 2} /\ DOMAIN PartsOf[o] = 1 .. Len(PartsOf[o])
<1>1. o \in {"BOOT", "SYSTEM", "USER", "RAW", "EMUBOOT", "EMURAW"}
  BY DEF PartsOf
<1>2. CASE o = "BOOT"
  BY <1>2 DEF PartsOf
<1>3. CASE o = "SYSTEM"
  BY <1>3 DEF PartsOf
<1>4. CASE o = "USER"
  BY <1>4 DEF PartsOf
<1>5. CASE o = "RAW"
  BY <1>5 DEF PartsOf
<1>6. CASE o = "EMUBOOT"
  BY <1>6 DEF PartsOf
<1>7. CASE o = "EMURAW"
  BY <1>7 DEF PartsOf
<1> QED BY <1>1, <1>2, <1>3, <1>4, <1>5, <1>6, <1>7

LEMMA OptionSeq ==
  ASSUME NEW o \in Options
  PROVE  /\ Len(PartsOf[o]) \in {1, 2}
         /\ \A k \in 1 .. Len(PartsOf[o]) : PartsOf[o][k] \in DumpParts
<1>1. o \in DOMAIN PartsOf
  BY BackupSizes
<1>2. Len(PartsOf[o]) \in {1, 2} /\ DOMAIN PartsOf[o] = 1 .. Len(PartsOf[o])
  BY <1>1, PartsOfSeq
<1> QED BY <1>2 DEF DumpParts

LEMMA SizesOK ==
  ASSUME NEW p \in DumpParts
  PROVE  /\ Size[p] \in Nat /\ Size[p] > 0 /\ Size[p] < U32 /\ First[p] \in Nat
         /\ p \in {"BOOT0", "BOOT1"} => Size[p] <= FileLimit
  BY BackupSizes

LEMMA NumsOK ==
  /\ DeviceSize \in Nat \ {0} /\ Split \in Nat \ {0} /\ FileLimit \in Nat \ {0}
  /\ SparseStep \in Nat \ {0} /\ U32 \in Nat \ {0}
  /\ FreeSpaces \subseteq Nat
  BY BackupSizes

\* The partition at work; outside the emuMMC one larger than a FAT32 file is
\* on the GPP.
LEMMA CurrentOK ==
  ASSUME Types, run.pc # "idle"
  PROVE  /\ Current \in DumpParts /\ Current # None
         /\ Size[Current] > FileLimit => Source = Home(Current)
<1>1. opt \in Options /\ at \in 1 .. Len(PartsOf[opt])
      /\ (opt \in {"SYSTEM", "USER", "RAW"} => hw = GPP)
  BY DEF Types, Where
<1>2. Current \in DumpParts
  BY <1>1, OptionSeq DEF Current
<1>3. opt \in {"BOOT", "SYSTEM", "USER", "RAW", "EMUBOOT", "EMURAW"}
  BY <1>1, BackupSizes DEF PartsOf
<1>4. /\ opt = "BOOT" => Current \in {"BOOT0", "BOOT1"}
      /\ opt = "SYSTEM" => Current \in {"SAFE", "SYSTEM"}
      /\ opt = "USER" => Current = "USER"
      /\ opt = "RAW" => Current = "RAW"
      /\ opt = "EMUBOOT" => Current \in EmuParts
      /\ opt = "EMURAW" => Current \in EmuParts
  BY <1>1, <1>3 DEF Current, PartsOf, EmuParts
<1>5. Current # None
  BY <1>3, <1>4 DEF None, EmuParts
<1>6. Current \in {"BOOT0", "BOOT1"} => Size[Current] <= FileLimit
  BY <1>2, SizesOK
<1>7. ASSUME Size[Current] > FileLimit PROVE Source = Home(Current)
  <2>1. Current \notin {"BOOT0", "BOOT1"}
    BY <1>6, <1>7, <1>2, SizesOK, NumsOK
  <2>2. Current \in EmuParts \/ hw = GPP
    BY <2>1, <1>1, <1>3, <1>4
  <2> QED BY <2>2 DEF Source, raw_emummc, Home
<1> QED BY <1>2, <1>5, <1>7

---------------------------------------------------------------------------
(* What a step that touches the files of one name leaves alone *)

KeptBut(S) ==
    \A n : n \notin S /\ n \in DOMAIN UserFiles =>
             n \in DOMAIN UserFiles' /\ UserFiles'[n] = UserFiles[n]

\* A report is carried on: the same source, and no cancelled verification is
\* forgotten.
Carried(p) ==
    report'[p].from = report[p].from /\ (report[p].unchecked => report'[p].unchecked)

LEMMA UserFilesOf ==
  /\ DOMAIN UserFiles = DOMAIN card \cup DOMAIN kept
  /\ \A n \in DOMAIN card : UserFiles[n] = card[n]
  /\ \A n \in DOMAIN kept \ DOMAIN card : UserFiles[n] = kept[n]
  BY DEF UserFiles

LEMMA UserFilesNext ==
  /\ DOMAIN UserFiles' = DOMAIN card' \cup DOMAIN kept'
  /\ \A n \in DOMAIN card' : UserFiles'[n] = card'[n]
  /\ \A n \in DOMAIN kept' \ DOMAIN card' : UserFiles'[n] = kept'[n]
  BY DEF UserFiles

LEMMA TouchOne ==
  ASSUME NEW f, kept' = kept,
         \A n : n # f => (n \in DOMAIN card' <=> n \in DOMAIN card),
         \A n \in DOMAIN card : n # f => card'[n] = card[n]
  PROVE  KeptBut({f})
<1> SUFFICES ASSUME NEW n, n # f, n \in DOMAIN UserFiles
             PROVE  n \in DOMAIN UserFiles' /\ UserFiles'[n] = UserFiles[n]
  BY DEF KeptBut
<1>1. CASE n \in DOMAIN card
  BY <1>1, UserFilesOf, UserFilesNext
<1>2. CASE n \notin DOMAIN card
  BY <1>2, UserFilesOf, UserFilesNext
<1> QED BY <1>1, <1>2

LEMMA TouchNone ==
  ASSUME UNCHANGED <<card, kept>>
  PROVE  KeptBut({})
  BY DEF KeptBut, UserFiles

LEMMA PartFrame ==
  ASSUME NEW p, NEW i, NEW S, PartGood(p, i), KeptBut(S), <<p, TRUE, i>> \notin S,
         Carried(p), verify_cfg' = verify_cfg
  PROVE  PartGood(p, i)'
<1> DEFINE n == <<p, TRUE, i>>
<1>1. n \in DOMAIN UserFiles
  BY DEF PartGood, PartWhole
<1>2. n \in DOMAIN UserFiles' /\ UserFiles'[n] = UserFiles[n]
  BY <1>1 DEF KeptBut
<1>3. PartWhole(p, i)'
  BY <1>2 DEF PartGood, PartWhole, Carried, Least
<1>4. Promised(p)' => Promised(p)
  BY DEF Promised, Carried
<1>5. Matches(UserFiles[n]) => Matches(UserFiles[n])'
  BY <1>2 DEF Matches, Checked
<1> QED BY <1>3, <1>4, <1>5 DEF PartGood

LEMMA FileFrame ==
  ASSUME NEW p, NEW S, FileGood(p), KeptBut(S), <<p, FALSE, 0>> \notin S,
         Carried(p), verify_cfg' = verify_cfg
  PROVE  FileGood(p)'
<1> DEFINE n == <<p, FALSE, 0>>
<1>1. n \in DOMAIN UserFiles
  BY DEF FileGood, FileWhole
<1>2. n \in DOMAIN UserFiles' /\ UserFiles'[n] = UserFiles[n]
  BY <1>1 DEF KeptBut
<1>3. FileWhole(p)'
  BY <1>2 DEF FileGood, FileWhole, Carried
<1>4. Promised(p)' => Promised(p)
  BY DEF Promised, Carried
<1>5. Matches(UserFiles[n]) => Matches(UserFiles[n])'
  BY <1>2 DEF Matches, Checked
<1> QED BY <1>3, <1>4, <1>5 DEF FileGood

LEMMA PausedFrame ==
  ASSUME Paused, NEW S, KeptBut(S), UNCHANGED <<verify_cfg, partial_idx, own>>,
         own # None /\ Size[own] > FileLimit =>
             /\ report'[own].misled = report[own].misled /\ Carried(own)
             /\ \A i \in 0 .. partial_idx - 1 : <<own, TRUE, i>> \notin S
  PROVE  Paused'
<1> SUFFICES ASSUME own # None, ~report[own].misled, Size[own] > FileLimit
             PROVE  /\ partial_idx * Split < Size[own]
                    /\ report'[own].from = Home(own)
                    /\ \A i \in 0 .. partial_idx - 1 : PartGood(own, i)'
  BY DEF Paused, PartGood, PartWhole, Promised
<1>1. /\ partial_idx * Split < Size[own]
      /\ report[own].from = Home(own)
      /\ \A i \in 0 .. partial_idx - 1 : PartGood(own, i)
  BY DEF Paused
<1>2. ASSUME NEW i \in 0 .. partial_idx - 1 PROVE PartGood(own, i)'
  BY <1>1, PartFrame
<1> QED BY <1>1, <1>2 DEF Carried

LEMMA DoneKept ==
  ASSUME NEW p \in DumpParts, DonePart(p), NEW S, KeptBut(S), verify_cfg' = verify_cfg,
         report'[p] = report[p], \A b, i : <<p, b, i>> \notin S
  PROVE  DonePart(p)'
<1> SUFFICES ASSUME report[p].res = "done", ~report[p].misled
             PROVE  IF report[p].split
                    THEN \A i \in 0 .. NumParts(p) - 1 : PartGood(p, i)'
                    ELSE FileGood(p)'
  BY DEF DonePart
<1>1. Carried(p)
  BY DEF Carried
<1>2. CASE report[p].split
  <2>1. ASSUME NEW i \in 0 .. NumParts(p) - 1 PROVE PartGood(p, i)'
    <3>1. PartGood(p, i)
      BY <1>2 DEF DonePart
    <3> QED BY <3>1, <1>1, PartFrame
  <2> QED BY <2>1, <1>2
<1>3. CASE ~report[p].split
  <2>1. FileGood(p)
    BY <1>3 DEF DonePart
  <2> QED BY <2>1, <1>1, <1>3, FileFrame
<1> QED BY <1>2, <1>3

LEMMA DoneFrame ==
  ASSUME Done, NEW S, KeptBut(S), verify_cfg' = verify_cfg,
         \A p \in DumpParts : report'[p].res = "done" =>
             /\ report'[p] = report[p]
             /\ \A b, i : <<p, b, i>> \notin S
  PROVE  Done'
<1> SUFFICES ASSUME NEW p \in DumpParts PROVE DonePart(p)'
  BY DEF Done
<1>1. CASE report'[p].res = "done"
  BY <1>1, DoneKept DEF Done
<1>2. CASE report'[p].res # "done"
  BY <1>2 DEF DonePart
<1> QED BY <1>1, <1>2

---------------------------------------------------------------------------
(* Returning from _dump_emmc_part *)

LEMMA ReturnOK ==
  ASSUME Types, run.pc # "idle", NEW ok \in BOOLEAN, Return(ok)
  PROVE  run' \in {NoDump, [pc |-> "next"]} /\ Where' /\ hw' \in 0 .. 2
<1>1. opt \in Options /\ at \in 1 .. Len(PartsOf[opt]) /\ hw \in 0 .. 2
      /\ (opt \in {"SYSTEM", "USER", "RAW"} => hw = GPP)
  BY DEF Types, Where
<1>2. CASE GoesOn(ok)
  BY <1>1, <1>2 DEF Return, GoesOn, Where, NoDump
<1>3. CASE ~GoesOn(ok)
  BY <1>1, <1>3 DEF Return, Closed, Where, NoDump, GPP
<1> QED BY <1>2, <1>3

LEMMA RestIsNotBusy ==
  ASSUME run' \in Resting
  PROVE  ~Busy' /\ Working' /\ OnTrack'
  BY DEF Resting, NoDump, Busy, Working, OnTrack

LEMMA ReportedOK ==
  ASSUME report \in [DumpParts -> Report], Current \in DumpParts, NEW r \in Result,
         report' = Reported(r)
  PROVE  /\ report' \in [DumpParts -> Report]
         /\ \A p \in DumpParts : p # Current => report'[p] = report[p]
         /\ \A p \in DumpParts : report'[p].misled = report[p].misled /\ Carried(p)
                                 /\ report'[p].split = report[p].split
         /\ report'[Current].res = r
<1> DEFINE new == [report[Current] EXCEPT !.res = r]
<1>1. report[Current] \in Report
  OBVIOUS
<1>2. new \in Report /\ new.res = r /\ new.misled = report[Current].misled
      /\ new.from = report[Current].from /\ new.unchecked = report[Current].unchecked
      /\ new.split = report[Current].split
  BY <1>1 DEF Report
<1>3. report' = [report EXCEPT ![Current] = new]
  BY DEF Reported
<1> HIDE DEF new
<1>4. report' \in [DumpParts -> Report] /\ report'[Current] = new
      /\ \A p \in DumpParts : p # Current => report'[p] = report[p]
  BY <1>2, <1>3
<1> QED BY <1>2, <1>4 DEF Carried

\* Names the session at work may touch: not those partial.idx counts.
LEMMA TouchedName ==
  ASSUME Types, Working, Busy, own # None, Size[own] > FileLimit
  PROVE  \A i \in 0 .. partial_idx - 1 : <<own, TRUE, i>> # CurrentFile
<1> SUFFICES ASSUME NEW i \in 0 .. partial_idx - 1, <<own, TRUE, i>> = CurrentFile
             PROVE  FALSE
  OBVIOUS
<1>1. own = Current /\ run.split = TRUE /\ i = run.idx
  BY DEF CurrentFile, Name
<1>2. partial_idx <= run.idx
  BY <1>1 DEF Working
<1>3. partial_idx \in Nat
  BY DEF Types
<1> QED BY <1>1, <1>2, <1>3

LEMMA BusyLocals ==
  ASSUME Types, Busy
  PROVE  run \in Locals /\ run.pc # "idle"
  BY DEF Types, Busy, Resting, NoDump

\* A session that ends without Done! and without a new partial.idx.
LEMMA Stops ==
  ASSUME BackupInv, Busy, NEW ok \in BOOLEAN, Return(ok), report' = Reported("failed"),
         KeptBut({CurrentFile}), NamedFiles(card)', kept' = kept,
         UNCHANGED <<menu, verify_cfg, partial_idx, own>>
  PROVE  BackupInv'
<1> USE DEF BackupInv
<1>1. run \in Locals /\ run.pc # "idle" /\ Current \in DumpParts
  BY BusyLocals, CurrentOK
<1>2. run' \in Resting /\ Where' /\ hw' \in 0 .. 2
  BY <1>1, ReturnOK DEF Resting
<1>3. /\ report' \in [DumpParts -> Report]
      /\ \A p \in DumpParts : p # Current => report'[p] = report[p]
      /\ \A p \in DumpParts : report'[p].misled = report[p].misled /\ Carried(p)
      /\ report'[Current].res = "failed"
  BY <1>1, ReportedOK DEF Types, Result
<1>4. Types'
  BY <1>2, <1>3 DEF Types, NamedFiles
<1>5. own \in DumpParts \cup {None}
  BY DEF Types
<1>6. Paused'
  BY <1>3, <1>5, TouchedName, PausedFrame
<1>7. Done'
  <2>1. \A b, i : \A p \in DumpParts : p # Current => <<p, b, i>> # CurrentFile
    BY DEF CurrentFile, Name
  <2> QED BY <1>3, <2>1, DoneFrame
<1> QED BY <1>2, <1>4, <1>6, <1>7, RestIsNotBusy

---------------------------------------------------------------------------
(* The steps between partitions *)

LEMMA BackupInitOK == BackupInit => BackupInv
<1> SUFFICES ASSUME BackupInit PROVE BackupInv
  OBVIOUS
<1>1. run \in Resting /\ run.pc = "idle" /\ ~Busy
  BY DEF BackupInit, Resting, NoDump, Busy
<1>2. NoReport \in Report /\ NoReport.res = None
  BY DEF NoReport, Report, Result, GPP, SD
<1>3. report \in [DumpParts -> Report] /\ \A p \in DumpParts : report[p].res = None
  BY <1>2 DEF BackupInit
<1>4. NamedFiles(card) /\ NamedFiles(kept)
  BY DEF BackupInit, NamedFiles
<1>5. Types
  BY <1>1, <1>3, <1>4 DEF BackupInit, Types, Where, GPP
<1>6. Paused /\ Working /\ OnTrack
  BY <1>1 DEF BackupInit, Paused, Working, OnTrack
<1>7. Done
  BY <1>3 DEF Done, DonePart, None
<1> QED BY <1>5, <1>6, <1>7 DEF BackupInv

LEMMA Rests ==
  ASSUME BackupInv, run' \in Resting, Where', hw' \in 0 .. 2,
         UNCHANGED <<menu, verify_cfg, card, kept, partial_idx, own, report>>
  PROVE  BackupInv'
<1> USE DEF BackupInv
<1>1. KeptBut({})
  BY TouchNone
<1>2. Types'
  BY DEF Types, NamedFiles
<1>3. Paused'
  BY <1>1, PausedFrame DEF Carried
<1>4. Done'
  BY <1>1, DoneFrame
<1> QED BY <1>2, <1>3, <1>4, RestIsNotBusy

LEMMA SelectOK ==
  ASSUME BackupInv, NEW o \in menu, dump_emmc_selected(o)
  PROVE  BackupInv'
<1>1. o \in Options /\ hw \in 0 .. 2
  BY DEF BackupInv, Types, Options
<1>2. Len(PartsOf[o]) \in {1, 2}
  BY <1>1, OptionSeq
<1>3. run' \in Resting /\ run'.pc = "open"
  BY DEF dump_emmc_selected, Resting
<1>4. hw' \in 0 .. 2 /\ (hw' = HwOf(PartsOf[o][1]) \/ hw' = GPP)
  BY DEF dump_emmc_selected, emmc_set_partition, HwOf, GPP
<1>5. o \in {"SYSTEM", "USER", "RAW"} => HwOf(PartsOf[o][1]) = GPP
  BY DEF PartsOf, HwOf
<1>6. Where'
  BY <1>1, <1>2, <1>3, <1>4, <1>5 DEF Where, dump_emmc_selected
<1> QED BY <1>3, <1>4, <1>6, Rests DEF dump_emmc_selected

LEMMA NextPartitionOK ==
  ASSUME BackupInv, NextPartition
  PROVE  BackupInv'
<1>1. /\ opt \in Options /\ at \in 1 .. Len(PartsOf[opt]) /\ at < Len(PartsOf[opt])
      /\ opt \in {"SYSTEM", "USER", "RAW"} => hw = GPP
      /\ hw \in 0 .. 2
  BY DEF BackupInv, Types, Where, NextPartition
<1>2. Len(PartsOf[opt]) \in {1, 2}
  BY <1>1, OptionSeq
<1>3. run' \in Resting /\ run'.pc = "open" /\ at' = at + 1 /\ opt' = opt
  BY DEF NextPartition, Resting
<1>4. hw' \in 0 .. 2 /\ (hw' = HwOf(PartsOf[opt][at + 1]) \/ hw' = hw)
  BY <1>1 DEF NextPartition, emmc_set_partition, HwOf, GPP
<1>5. at = 1 /\ Len(PartsOf[opt]) = 2
  <2>1. \A n \in {1, 2} : \A k \in 1 .. n : k < n => k = 1 /\ n = 2
    OBVIOUS
  <2> QED BY <1>1, <1>2, <2>1
<1>6. opt \in {"SYSTEM", "USER", "RAW"} => HwOf(PartsOf[opt][2]) = GPP
  <2>1. opt \in {"USER", "RAW"} => Len(PartsOf[opt]) = 1
    BY DEF PartsOf
  <2> QED BY <2>1, <1>5 DEF PartsOf, HwOf
<1>7. Where'
  BY <1>1, <1>3, <1>4, <1>5, <1>6 DEF Where
<1> QED BY <1>3, <1>4, <1>7, Rests DEF NextPartition

LEMMA OpenFailsOK ==
  ASSUME BackupInv, OpenFails
  PROVE  BackupInv'
<1>1. run' \in Resting /\ Where' /\ hw' \in 0 .. 2
  BY ReturnOK DEF BackupInv, OpenFails, Resting
<1> QED BY <1>1, Rests DEF OpenFails, setup

LEMMA PowerCutOK ==
  ASSUME BackupInv, PowerCut
  PROVE  BackupInv'
<1>1. run' \in Resting /\ Where' /\ hw' \in 0 .. 2
  BY DEF PowerCut, Closed, Resting, Where, NoDump, GPP
<1>2. UNCHANGED <<menu, verify_cfg, card, kept, report>>
  BY DEF PowerCut, setup
<1>3. CASE UNCHANGED <<partial_idx, own>>
  BY <1>1, <1>2, <1>3, Rests
<1>4. CASE run.pc = "idx" /\ run.small /\ partial_idx' = 0 /\ own' = Current
  <2>1. Busy /\ run.pc # "idle"
    BY <1>4 DEF Busy
  <2>2. Current \in DumpParts /\ Current # None /\ (Size[Current] > FileLimit => Source = Home(Current))
    BY <2>1, CurrentOK DEF BackupInv
  <2>3. Types'
    BY <1>1, <1>2, <1>4, <2>2 DEF BackupInv, Types, NamedFiles, NoIdx
  <2>4. Paused'
    <3>1. ~report[Current].misled => report[Current].from = Source
      BY <2>1 DEF BackupInv, OnTrack
    <3>2. Size[Current] > 0 /\ Split \in Nat /\ 0 * Split = 0
      BY <2>2, SizesOK, NumsOK
    <3> QED BY <3>1, <3>2, <2>2, <1>2, <1>4 DEF Paused
  <2>5. Done'
    BY <1>2, TouchNone, DoneFrame DEF BackupInv
  <2> QED BY <1>1, <2>3, <2>4, <2>5, RestIsNotBusy DEF BackupInv
<1> QED BY <1>3, <1>4 DEF PowerCut

LEMMA MoveFilesOK ==
  ASSUME BackupInv, MoveFiles
  PROVE  BackupInv'
<1>1. KeptBut({})
  <2>1. DOMAIN card' = {} /\ kept' = UserFiles
    BY DEF MoveFiles
  <2> QED BY <2>1, UserFilesNext DEF KeptBut
<1>2. UNCHANGED <<menu, verify_cfg, hw, opt, at, partial_idx, own, report, run>> /\ run.pc = "idle"
  BY DEF MoveFiles, setup, session
<1>3. NamedFiles(card)' /\ NamedFiles(kept)'
  <2>1. DOMAIN card' = {} /\ kept' = UserFiles
    BY DEF MoveFiles
  <2>2. NamedFiles(UserFiles)
    BY UserFilesOf DEF BackupInv, Types, NamedFiles
  <2> QED BY <2>1, <2>2 DEF NamedFiles
<1>4. Types'
  BY <1>2, <1>3 DEF BackupInv, Types, Where
<1>5. Paused'
  BY <1>1, <1>2, PausedFrame DEF BackupInv, Carried
<1>6. Done'
  BY <1>1, <1>2, DoneFrame DEF BackupInv
<1>7. run' \in Resting
  BY <1>2 DEF BackupInv, Types, Locals
<1> QED BY <1>4, <1>5, <1>6, <1>7, RestIsNotBusy DEF BackupInv

---------------------------------------------------------------------------
(* Opening a partition *)

LEMMA CreatedOK ==
  ASSUME Types, NEW f \in Files, ~f[2] => f[3] = 0, card' = Created(f), kept' = kept
  PROVE  /\ KeptBut({f}) /\ NamedFiles(card)'
         /\ f \in DOMAIN card' /\ card'[f] = <<>>
<1>1. /\ DOMAIN card' = DOMAIN card \cup {f} /\ card'[f] = <<>>
      /\ \A n \in DOMAIN card : n # f => card'[n] = card[n]
  BY DEF Created
<1>2. KeptBut({f})
  BY <1>1, TouchOne
<1>3. <<>> \in Seq(Chunk)
  OBVIOUS
<1>4. NamedFiles(card)'
  BY <1>1, <1>3 DEF Types, NamedFiles
<1> QED BY <1>1, <1>2, <1>4

LEMMA NameOK ==
  ASSUME NEW i \in Nat, NEW b \in BOOLEAN, Current \in DumpParts
  PROVE  Name(i, b) \in Files /\ (~Name(i, b)[2] => Name(i, b)[3] = 0)
  BY DEF Name, Files

LEMMA OpenPartOK ==
  ASSUME BackupInv, OpenPart
  PROVE  BackupInv'
<1> USE DEF BackupInv
<1>1. PICK free \in FreeSpaces :
         /\ run' = Opened(free)
         /\ card' = Created(Name(StartIdx, Splits(free)))
         /\ report' = [report EXCEPT ![Current] = OpenReport(free)]
  BY DEF OpenPart
<1>2. /\ run.pc = "open" /\ Types /\ verify_cfg \in 0 .. 2 /\ hw \in 0 .. 2
      /\ partial_idx \in Nat \cup {NoIdx} /\ own \in DumpParts \cup {None}
      /\ own # None => partial_idx # NoIdx
      /\ report \in [DumpParts -> Report]
  BY DEF OpenPart, Types
<1>3. UNCHANGED <<menu, exfat, verify_cfg, hw, opt, at, partial_idx, kept, own>>
  BY DEF OpenPart, setup, session
<1>4. /\ Current \in DumpParts /\ Current # None
      /\ Size[Current] > FileLimit => Source = Home(Current)
  BY <1>2, CurrentOK
<1>5. Current' = Current /\ Source' = Source /\ Source \in 0 .. SD
  BY <1>2, <1>3 DEF Current, Source, raw_emummc, SD
<1>p. PICK p \in DumpParts : p = Current
  BY <1>4
<1> DEFINE b == Splits(free)
           k == StartIdx
           f == Name(k, b)
           rep == OpenReport(free)
<1>6. free \in Nat /\ Split \in Nat \ {0} /\ U32 \in Nat \ {0} /\ Size[p] \in Nat
      /\ Size[p] > 0 /\ Size[p] < U32 /\ First[p] \in Nat /\ FileLimit \in Nat
  BY <1>p, <1>1, <1>4, SizesOK, NumsOK
<1>7. b \in BOOLEAN /\ (Resumes => b) /\ k \in Nat /\ (Resumes => k = partial_idx)
      /\ (~Resumes => k = 0)
  BY <1>2 DEF Splits, Resumes, StartIdx
<1>8. /\ Resumes = (partial_idx # NoIdx /\ Size[p] > FileLimit)
      /\ own = p /\ Size[p] > FileLimit => Resumes
  BY <1>p, <1>2, <1>4 DEF Resumes
<1>9. /\ rep \in Report /\ rep.res = None /\ rep.split = b
      /\ Resumes /\ own = p => /\ rep.misled = report[p].misled
                               /\ rep.unchecked = report[p].unchecked
                               /\ rep.from = report[p].from
      /\ Resumes /\ ~rep.misled => own = p
      /\ ~Resumes => ~rep.misled /\ ~rep.unchecked /\ rep.from = Source
  <2>1. report[p] \in Report /\ Resumes \in BOOLEAN
    BY <1>p, <1>2, <1>4 DEF Resumes
  <2>2. /\ rep.res = None /\ rep.split = b
        /\ rep.misled = (Resumes /\ (own # p \/ report[p].misled))
        /\ rep.unchecked = (Resumes /\ report[p].unchecked)
        /\ rep.from = IF Resumes THEN report[p].from ELSE Source
        /\ rep = [res |-> rep.res, split |-> rep.split, misled |-> rep.misled,
                  unchecked |-> rep.unchecked, from |-> rep.from]
    BY <1>p DEF OpenReport, Source, raw_emummc
  <2> HIDE DEF b, k, f, rep
  <2>3. rep \in Report
    BY <2>1, <2>2, <1>5, <1>7 DEF Report, Result
  <2> QED BY <2>1, <2>2, <2>3 DEF Report
<1>10. f \in Files /\ (~f[2] => f[3] = 0) /\ f = <<p, b, IF b THEN k ELSE 0>>
  BY <1>p, <1>4, <1>7, NameOK DEF Name
<1>11. KeptBut({f}) /\ NamedFiles(card)' /\ f \in DOMAIN card' /\ card'[f] = <<>>
  BY <1>1, <1>2, <1>3, <1>10, CreatedOK
<1>12. /\ run'.pc = "copy" /\ run'.split = b /\ run'.idx = k
       /\ run'.lba = First[p] + k * Split /\ run'.left = (Size[p] - k * Split) % U32
       /\ run'.written = 0 /\ run'.verification = verify_cfg
  BY <1>p, <1>1 DEF Opened
<1>13. run' \in Locals
  <2>1. free \div Split + k \in Nat /\ First[p] + k * Split \in Nat
        /\ Size[p] - k * Split \in Int
    BY <1>6, <1>7
  <2>2. (Size[p] - k * Split) % U32 \in Nat
    BY <2>1, <1>6, ModNat
  <2>3. (Small(free) \/ Resumes) \in BOOLEAN
    OBVIOUS
  <2> DEFINE sm == Small(free) \/ Resumes
  <2>4. run' = [pc |-> "copy", split |-> b, small |-> sm, idx |-> k, max |-> free \div Split + k,
                lba |-> First[p] + k * Split, left |-> (Size[p] - k * Split) % U32,
                written |-> 0, retry |-> 0, verification |-> verify_cfg]
    BY <1>p, <1>1 DEF Opened
  <2> HIDE DEF b, k, f, rep, sm
  <2> QED BY <2>1, <2>2, <2>3, <2>4, <1>2, <1>7 DEF Locals, sm
<1>14. CurrentFile' = f
  BY <1>p, <1>5, <1>12, <1>10 DEF CurrentFile, Name
<1>15. /\ report' \in [DumpParts -> Report] /\ report'[p] = rep
       /\ \A q \in DumpParts : q # p => report'[q] = report[q]
  <2> HIDE DEF b, k, f, rep
  <2>1. report' = [report EXCEPT ![p] = rep] /\ p \in DumpParts
    BY <1>p, <1>1, <1>4 DEF rep
  <2> QED BY <2>1, <1>2, <1>9
<1> HIDE DEF b, k, f, rep
<1>16. Types'
  <2>1. Where'
    BY <1>2, <1>3, <1>12 DEF Types, Where
  <2> QED BY <1>2, <1>3, <1>11, <1>13, <1>15, <2>1 DEF Types, NamedFiles
<1>17. own # None /\ Size[own] > FileLimit =>
          /\ report'[own].misled = report[own].misled /\ Carried(own)
          /\ \A i \in 0 .. partial_idx - 1 : <<own, TRUE, i>> # f
  <2> SUFFICES ASSUME own # None, Size[own] > FileLimit
               PROVE  /\ report'[own].misled = report[own].misled /\ Carried(own)
                      /\ \A i \in 0 .. partial_idx - 1 : <<own, TRUE, i>> # f
    OBVIOUS
  <2>1. CASE own = p
    <3>1. Resumes /\ report'[p] = rep
      BY <2>1, <1>8, <1>15
    <3>2. report'[own].misled = report[own].misled /\ Carried(own)
      BY <2>1, <3>1, <1>9 DEF Carried
    <3>3. f = <<p, TRUE, partial_idx>> /\ partial_idx \in Nat
      BY <3>1, <1>7, <1>10
    <3> QED BY <2>1, <3>2, <3>3
  <2>2. CASE own # p
    BY <2>2, <1>2, <1>10, <1>15 DEF Carried
  <2> QED BY <2>1, <2>2
<1>18. Paused'
  BY <1>3, <1>11, <1>17, PausedFrame
<1>19. Done'
  <2>1. \A q \in DumpParts : report'[q].res = "done" => q # p
    BY <1>9, <1>15 DEF None
  <2>2. \A c, i : \A q \in DumpParts : q # p => <<q, c, i>> # f
    BY <1>10
  <2> QED BY <2>1, <2>2, <1>3, <1>11, <1>15, DoneFrame
<1>20. Working'
  <2>1. Current' = p
    BY <1>p, <1>5
  <2>2. ~b => k = 0
    BY <1>7
  <2>3. /\ report'[p].res = None /\ report'[p].split = b
        /\ own' = p /\ Size[p] > FileLimit => partial_idx' <= k
    BY <1>2, <1>3, <1>7, <1>8, <1>9, <1>15
  <2>4. Len(card'[f]) = 0 /\ 0 <= Split
    BY <1>6, <1>11
  <2> QED BY <2>1, <2>2, <2>3, <2>4, <1>3, <1>11, <1>12, <1>14 DEF Working
<1>21. OnTrack'
  <2> SUFFICES ASSUME ~rep.misled PROVE OnTrack'
    BY <1>p, <1>5, <1>15 DEF OnTrack
  <2>1. /\ rep.from = Source /\ k * Split < Size[p]
        /\ \A i \in 0 .. k - 1 : PartGood(p, i)'
    <3>1. CASE Resumes
      <4>1. own = p /\ p # None /\ ~report[own].misled /\ Size[own] > FileLimit /\ k = partial_idx
        BY <3>1, <1>p, <1>4, <1>7, <1>8, <1>9
      <4>2. /\ partial_idx * Split < Size[own] /\ report[own].from = Home(own)
            /\ \A i \in 0 .. partial_idx - 1 : PartGood(own, i)
        BY <4>1 DEF Paused
      <4>3. rep.from = Source
        BY <3>1, <4>1, <4>2, <1>p, <1>4, <1>9
      <4>4. \A i \in 0 .. k - 1 : PartGood(p, i)'
        <5>1. ASSUME NEW i \in 0 .. k - 1 PROVE PartGood(p, i)'
          <6>1. <<p, TRUE, i>> \notin {f} /\ Carried(p) /\ PartGood(p, i)
            BY <4>1, <4>2, <1>17
          <6> QED BY <6>1, <1>3, <1>11, PartFrame
        <5> QED BY <5>1
      <4> QED BY <4>1, <4>2, <4>3, <4>4
    <3>2. CASE ~Resumes
      BY <3>2, <1>6, <1>7, <1>9
    <3> QED BY <3>1, <3>2
  <2>2. (Size[p] - k * Split) % U32 = Size[p] - k * Split
    BY <2>1, <1>6, <1>7, ModSmall
  <2>3. run'.lba + run'.left = First[p] + Size[p]
    BY <2>2, <1>6, <1>7, <1>12
  <2>4. Len(card'[f]) = 0 /\ DOMAIN card'[f] = {}
    BY <1>11
  <2>5. Prefix(card[CurrentFile], First[Current] + run.idx * Split, Source)'
    BY <2>4, <1>14 DEF Prefix
  <2>6. run'.lba = First[p] + k * Split + Len(card'[f])
    BY <2>4, <1>6, <1>7, <1>12
  <2>7. Current' = p /\ Source' = Source
    BY <1>p, <1>5
  <2> QED BY <2>1, <2>3, <2>5, <2>6, <2>7, <1>12, <1>14, <1>15 DEF OnTrack
<1> QED BY <1>16, <1>18, <1>19, <1>20, <1>21

---------------------------------------------------------------------------
(* The copy loop *)

LEMMA KeptMore ==
  ASSUME NEW S, KeptBut({})
  PROVE  KeptBut(S)
  BY DEF KeptBut

LEMMA CurrentFileOK ==
  ASSUME Types, Busy
  PROVE  /\ run \in Locals /\ run.pc # "idle" /\ Current \in DumpParts /\ Current # None
         /\ CurrentFile \in Files /\ (~CurrentFile[2] => CurrentFile[3] = 0)
         /\ \A b, i : \A p \in DumpParts : p # Current => <<p, b, i>> # CurrentFile
<1>1. run \in Locals /\ run.pc # "idle" /\ Current \in DumpParts /\ Current # None
  BY BusyLocals, CurrentOK
<1>2. CurrentFile \in Files /\ (~CurrentFile[2] => CurrentFile[3] = 0)
  BY <1>1, NameOK DEF CurrentFile, Locals
<1>3. \A b, i : \A p \in DumpParts : p # Current => <<p, b, i>> # CurrentFile
  BY DEF CurrentFile, Name
<1> QED BY <1>1, <1>2, <1>3

LEMMA FailsOK ==
  ASSUME BackupInv, Copying, Fails, UNCHANGED <<setup, partial_idx, kept, own, faults>>
  PROVE  BackupInv'
<1>1. Busy
  BY DEF Copying, Busy
<1>2. KeptBut({CurrentFile})
  BY TouchOne DEF Fails, Without
<1>3. NamedFiles(card)'
  BY DEF Fails, Without, BackupInv, Types, NamedFiles
<1> QED BY <1>1, <1>2, <1>3, Stops DEF Fails, setup

LEMMA WriteFailsOK ==
  ASSUME BackupInv, WriteFails
  PROVE  BackupInv'
  BY FailsOK DEF WriteFails

\* A step of the session that leaves the files and the reports alone, and of
\* the locals only changes the step, retry and max.
LEMMA SessionKept ==
  ASSUME BackupInv, Busy, run' \in Locals,
         /\ run'.split = run.split /\ run'.idx = run.idx /\ run'.lba = run.lba
         /\ run'.left = run.left /\ run'.written = run.written
         /\ run'.verification = run.verification,
         (run.pc = "copy") <=> (run'.pc = "copy"),
         UNCHANGED <<menu, verify_cfg, card, kept, report, hw, opt, at>>
  PROVE  /\ OnTrack' /\ Done' /\ Where'
         /\ (own' = Current /\ Size[Current] > FileLimit => partial_idx' <= run.idx) => Working'
         /\ Current' = Current /\ run'.pc # "idle"
<1> USE DEF BackupInv
<1>1. Current' = Current /\ CurrentFile' = CurrentFile /\ Source' = Source
      /\ Busy' /\ run'.pc # "idle" /\ run'.pc # "next" /\ run.pc # "idle"
  BY DEF Current, CurrentFile, Name, Source, raw_emummc, Busy, Locals
<1>2. KeptBut({}) /\ \A p \in DumpParts : Carried(p)
  BY TouchNone DEF Carried
<1>3. Current \in DumpParts
  BY CurrentFileOK
<1>4. Done'
  BY <1>2, DoneFrame
<1>5. Where'
  BY <1>1 DEF Types, Where
<1>6. (own' = Current /\ Size[Current] > FileLimit => partial_idx' <= run.idx) => Working'
  BY <1>1 DEF Working
<1>7. OnTrack'
  <2> SUFFICES ASSUME ~report[Current].misled PROVE OnTrack'
    BY <1>1 DEF OnTrack
  <2>1. PICK p \in DumpParts : p = Current
    BY <1>3
  <2>2. \A i \in 0 .. run.idx - 1 : PartGood(p, i)
    BY <2>1 DEF OnTrack
  <2>3. \A i \in 0 .. run.idx - 1 : PartGood(p, i)'
    BY <2>2, <1>2, PartFrame
  <2>4. /\ report[p].from = Source
        /\ run.idx * Split < Size[p]
        /\ run.lba + run.left = First[p] + Size[p]
        /\ run.pc = "copy" =>
             /\ run.lba = First[p] + run.idx * Split + Len(card[CurrentFile])
             /\ Prefix(card[CurrentFile], First[p] + run.idx * Split, Source)
        /\ run.pc # "copy" => run.lba = First[p] + run.idx * Split
    BY <2>1 DEF OnTrack
  <2>5. run'.pc = "copy" =>
             Prefix(card[CurrentFile], First[Current] + run.idx * Split, Source)'
    BY <2>1, <2>4, <1>1 DEF Prefix
  <2> QED BY <2>1, <2>3, <2>4, <2>5, <1>1 DEF OnTrack
<1> QED BY <1>1, <1>4, <1>5, <1>6, <1>7

LEMMA ReadFailsOK ==
  ASSUME BackupInv, ReadFails
  PROVE  BackupInv'
<1>1. CASE run.retry + 1 >= 3
  BY <1>1, FailsOK DEF ReadFails
<1>2. CASE ~(run.retry + 1 >= 3)
  <2>1. /\ Busy /\ run.pc = "copy" /\ run' = [run EXCEPT !.retry = @ + 1]
        /\ UNCHANGED <<menu, verify_cfg, card, kept, report, hw, opt, at, partial_idx, own>>
    BY <1>2 DEF ReadFails, Copying, Busy, setup, session
  <2>2. run \in Locals
    BY <2>1, BusyLocals DEF BackupInv
  <2>3. /\ run' \in Locals /\ run'.pc = run.pc
        /\ run'.split = run.split /\ run'.idx = run.idx /\ run'.lba = run.lba
        /\ run'.left = run.left /\ run'.written = run.written
        /\ run'.verification = run.verification
    BY <2>1, <2>2 DEF Locals
  <2>4. OnTrack' /\ Done' /\ Where' /\ Working'
    <3>1. own' = Current /\ Size[Current] > FileLimit => partial_idx' <= run.idx
      BY <2>1 DEF BackupInv, Working
    <3> QED BY <2>1, <2>3, <3>1, SessionKept
  <2>5. Types'
    BY <2>1, <2>3, <2>4 DEF BackupInv, Types, NamedFiles
  <2>6. Paused'
    BY <2>1, TouchNone, PausedFrame DEF BackupInv, Carried
  <2> QED BY <2>4, <2>5, <2>6 DEF BackupInv
<1> QED BY <1>1, <1>2

\* The parts before the one in progress are not touched by it.
LEMMA EarlierParts ==
  ASSUME BackupInv, Busy, ~report[Current].misled, KeptBut({CurrentFile}),
         verify_cfg' = verify_cfg, Carried(Current), NEW p \in DumpParts, p = Current
  PROVE  \A i \in 0 .. run.idx - 1 : PartGood(p, i)'
<1> SUFFICES ASSUME NEW i \in 0 .. run.idx - 1 PROVE PartGood(p, i)'
  OBVIOUS
<1>1. PartGood(p, i)
  BY DEF BackupInv, OnTrack
<1>2. run.idx \in Nat
  BY BusyLocals DEF BackupInv, Locals
<1>3. ASSUME <<p, TRUE, i>> = CurrentFile PROVE FALSE
  <2>1. run.split = TRUE /\ i = run.idx
    BY <1>3 DEF CurrentFile, Name
  <2> QED BY <2>1, <1>2
<1> QED BY <1>1, <1>3, PartFrame

LEMMA CopyChunkOK ==
  ASSUME BackupInv, CopyChunk
  PROVE  BackupInv'
<1> USE DEF BackupInv
<1>1. PICK good \in BOOLEAN :
        card' = [card EXCEPT ![CurrentFile] =
                    Append(@, [hw |-> Source, lba |-> run.lba, ok |-> good])]
  BY DEF CopyChunk
<1>2. /\ Busy /\ run.pc = "copy" /\ run.left > 0 /\ ~PartFull /\ run' = Copied
      /\ UNCHANGED <<menu, verify_cfg, hw, opt, at, partial_idx, kept, own, report>>
  BY DEF CopyChunk, Copying, Busy, setup, session
<1>3. /\ run \in Locals /\ run.pc # "idle" /\ Current \in DumpParts
      /\ \A b, i : \A p \in DumpParts : p # Current => <<p, b, i>> # CurrentFile
  BY <1>2, CurrentFileOK
<1>4. PICK p \in DumpParts : p = Current
  BY <1>3
<1>5. Split \in Nat \ {0} /\ Size[p] \in Nat /\ First[p] \in Nat
  BY SizesOK, NumsOK
<1>6. Current' = Current /\ Source' = Source /\ Source \in 0 .. SD
  BY <1>2 DEF Types, Current, Source, raw_emummc, SD
<1>7. /\ run' \in Locals /\ run'.pc = "copy" /\ run'.split = run.split /\ run'.idx = run.idx
      /\ run'.lba = run.lba + 1 /\ run'.left = run.left - 1
      /\ run.split => run'.written = run.written + 1
      /\ run'.verification = run.verification
  <2> DEFINE w == IF ~run.split /\ run.written + 1 >= Split THEN 0 ELSE run.written + 1
  <2>1. /\ w \in Nat /\ (run.split => w = run.written + 1)
        /\ run.lba + 1 \in Nat /\ run.left - 1 \in Nat
    BY <1>2, <1>3, <1>5 DEF Locals
  <2>2. run' = [run EXCEPT !.lba = run.lba + 1, !.left = run.left - 1, !.retry = 0, !.written = w]
    BY <1>2 DEF Copied
  <2> HIDE DEF w
  <2>3. /\ run'.pc = run.pc /\ run'.split = run.split /\ run'.idx = run.idx
        /\ run'.lba = run.lba + 1 /\ run'.left = run.left - 1 /\ run'.written = w
        /\ run'.verification = run.verification
    BY <2>2, <1>3 DEF Locals
  <2>4. run' \in Locals
    BY <2>1, <2>2, <1>3 DEF Locals
  <2> QED BY <2>1, <2>3, <2>4, <1>2
<1>8. CurrentFile' = CurrentFile /\ Busy'
  BY <1>6, <1>7 DEF CurrentFile, Name, Busy
<1> DEFINE f == CurrentFile
           old == card[f]
           c == [hw |-> Source, lba |-> run.lba, ok |-> good]
<1>9. f \in DOMAIN card /\ old \in Seq(Chunk) /\ c \in Chunk
  BY <1>2, <1>3, <1>6 DEF Working, Types, NamedFiles, Locals, Chunk
<1>10. /\ DOMAIN card' = DOMAIN card /\ card'[f] = Append(old, c)
       /\ \A n \in DOMAIN card : n # f => card'[n] = card[n]
  BY <1>1, <1>9
<1> HIDE DEF c, old
<1>11. /\ Append(old, c) \in Seq(Chunk) /\ Len(Append(old, c)) = Len(old) + 1
       /\ Len(old) \in Nat /\ DOMAIN Append(old, c) = 1 .. Len(old) + 1
       /\ DOMAIN old = 1 .. Len(old)
       /\ \A j \in 1 .. Len(old) : Append(old, c)[j] = old[j]
       /\ Append(old, c)[Len(old) + 1] = c
  BY <1>9
<1>12. KeptBut({f})
  BY <1>2, <1>10, TouchOne
<1>13. NamedFiles(card)'
  BY <1>10, <1>11 DEF Types, NamedFiles
<1>14. Types'
  <2>1. Where'
    BY <1>2, <1>7 DEF Types, Where
  <2> QED BY <2>1, <1>2, <1>7, <1>13 DEF Types, NamedFiles
<1>15. Paused'
  BY <1>2, <1>12, TouchedName, PausedFrame DEF Carried
<1>16. Done'
  <2>1. \A q \in DumpParts : report'[q].res = "done" => q # Current
    BY <1>2 DEF Working, None
  <2> QED BY <2>1, <1>2, <1>3, <1>12, DoneFrame
<1>17. Working'
  <2>1. run.split => Len(old) = run.written /\ run.written < Split
    BY <1>2, <1>3, <1>5 DEF Working, PartFull, Locals, old
  <2>2. run.split => Len(card'[f]) = run'.written /\ run'.written <= Split
    BY <2>1, <1>3, <1>5, <1>7, <1>10, <1>11 DEF Locals
  <2> QED BY <2>2, <1>2, <1>6, <1>7, <1>8, <1>9, <1>10 DEF Working
<1>18. OnTrack'
  <2> SUFFICES ASSUME ~report[p].misled PROVE OnTrack'
    BY <1>2, <1>4, <1>6 DEF OnTrack
  <2>1. \A i \in 0 .. run.idx - 1 : PartGood(p, i)'
    BY <1>2, <1>4, <1>12, EarlierParts DEF Carried
  <2> DEFINE base == First[p] + run.idx * Split
  <2>2. /\ report[p].from = Source
        /\ run.idx * Split < Size[p]
        /\ run.lba + run.left = First[p] + Size[p]
        /\ run.lba = base + Len(old)
        /\ Prefix(old, base, Source)
    BY <1>2, <1>4 DEF OnTrack, old
  <2>3. base \in Nat /\ run.lba \in Nat /\ run.left \in Nat
    BY <1>3, <1>5 DEF Locals
  <2> HIDE DEF base
  <2>4. /\ run'.lba + run'.left = First[p] + Size[p]
        /\ run'.lba = base + Len(card'[f])
    BY <2>2, <2>3, <1>5, <1>7, <1>10, <1>11
  <2>5. ASSUME NEW j \in DOMAIN card'[f]
        PROVE  card'[f][j].hw = Source /\ card'[f][j].lba = base + j - 1
    <3>1. CASE j = Len(old) + 1
      BY <3>1, <2>2, <2>3, <1>10, <1>11 DEF c
    <3>2. CASE j # Len(old) + 1
      <4>1. j \in DOMAIN old /\ card'[f][j] = old[j]
        BY <3>2, <1>10, <1>11
      <4> QED BY <4>1, <2>2 DEF Prefix
    <3> QED BY <3>1, <3>2
  <2>6. Prefix(card[CurrentFile], First[Current] + run.idx * Split, Source)'
    BY <2>5, <1>4, <1>6, <1>7, <1>8 DEF Prefix, base
  <2> QED BY <2>1, <2>2, <2>4, <2>6, <1>2, <1>4, <1>6, <1>7, <1>8 DEF OnTrack, base
<1> QED BY <1>14, <1>15, <1>16, <1>17, <1>18

---------------------------------------------------------------------------
(* Closing a part *)

\* A file whose verification was promised and not cancelled matches.
LEMMA VerifyOK ==
  ASSUME BackupInv, Busy, NEW r \in Verify(card[CurrentFile]), r # "error", r # "abort",
         Promised(Current)
  PROVE  Matches(card[CurrentFile])
<1>1. run.verification = verify_cfg
  BY DEF BackupInv, Working, Promised
<1>2. Verifies
  BY <1>1 DEF Verifies, raw_emummc, Promised
<1>3. r \in VerifyResults(card[CurrentFile])
  BY <1>2 DEF Verify
<1> QED BY <1>3 DEF VerifyResults

LEMMA UncheckedOK ==
  ASSUME report \in [DumpParts -> Report], Current \in DumpParts, NEW r,
         report' = Unchecked(r)
  PROVE  /\ report' \in [DumpParts -> Report]
         /\ \A p \in DumpParts : p # Current => report'[p] = report[p]
         /\ \A p \in DumpParts : report'[p].misled = report[p].misled /\ Carried(p)
                                 /\ report'[p].split = report[p].split
                                 /\ report'[p].res = report[p].res
         /\ ~report'[Current].unchecked => ~report[Current].unchecked /\ r # "abort"
<1> DEFINE u == report[Current].unchecked \/ r = "abort"
           new == [report[Current] EXCEPT !.unchecked = u]
<1>1. report[Current] \in Report /\ u \in BOOLEAN
  OBVIOUS
<1>2. (report[Current].unchecked => u) /\ (~u => ~report[Current].unchecked /\ r # "abort")
  OBVIOUS
<1> HIDE DEF u
<1>3. new \in Report /\ new.res = report[Current].res /\ new.misled = report[Current].misled
      /\ new.from = report[Current].from /\ new.unchecked = u
      /\ new.split = report[Current].split
  BY <1>1 DEF Report
<1>4. report' = [report EXCEPT ![Current] = new]
  BY DEF Unchecked, u
<1> HIDE DEF new
<1>5. report' \in [DumpParts -> Report] /\ report'[Current] = new
      /\ \A p \in DumpParts : p # Current => report'[p] = report[p]
  BY <1>3, <1>4
<1> QED BY <1>2, <1>3, <1>5 DEF Carried

\* The part just closed is good: the file in progress, of the length a part has.
LEMMA PartClosed ==
  ASSUME BackupInv, run.pc = "copy", run.split, ~report[Current].misled,
         UNCHANGED <<card, kept, verify_cfg>>,
         NEW p \in DumpParts, p = Current, NEW i \in Nat, i = run.idx,
         Carried(p),
         Len(card[CurrentFile]) = Least(Split, Size[p] - i * Split),
         Promised(p)' => Matches(card[CurrentFile])
  PROVE  PartGood(p, i)'
<1> USE DEF BackupInv
<1>1. Busy
  BY DEF Busy
<1> DEFINE n == <<p, TRUE, i>>
<1>2. n = CurrentFile
  BY <1>1, CurrentFileOK DEF CurrentFile, Name, Locals
<1>3. n \in DOMAIN UserFiles' /\ UserFiles'[n] = card[n]
  BY <1>1, <1>2, UserFilesNext DEF Working
<1>4. Prefix(card[n], First[p] + i * Split, Source) /\ report[p].from = Source
  BY <1>1, <1>2 DEF OnTrack
<1>5. PartWhole(p, i)'
  <2>1. \A j \in DOMAIN UserFiles'[n] :
           /\ UserFiles'[n][j].hw = report'[p].from
           /\ UserFiles'[n][j].lba = First[p] + i * Split + j - 1
    <3>1. PICK src : src = report'[p].from /\ src = Source
      BY <1>4 DEF Carried
    <3>2. PICK c : c = UserFiles'[n] /\ c = card[n]
      BY <1>3
    <3>3. \A j \in DOMAIN c : c[j].hw = src /\ c[j].lba = First[p] + i * Split + j - 1
      BY <1>4, <3>1, <3>2 DEF Prefix
    <3> HIDE DEF n
    <3> QED BY <3>1, <3>2, <3>3
  <2>2. Len(UserFiles'[n]) = Least(Split, Size[p] - i * Split)
    BY <1>2, <1>3
  <2> QED BY <2>1, <2>2, <1>3 DEF PartWhole
<1>6. Promised(p)' => Matches(UserFiles[n])'
  BY <1>2, <1>3 DEF Matches, Checked
<1> QED BY <1>5, <1>6 DEF PartGood

LEMMA ClosePartOK ==
  ASSUME BackupInv, ClosePart
  PROVE  BackupInv'
<1> USE DEF BackupInv
<1>1. /\ Busy /\ run.pc = "copy" /\ run.left > 0 /\ PartFull
      /\ UNCHANGED <<menu, verify_cfg, card, kept, partial_idx, own>>
  BY DEF ClosePart, Busy, setup
<1>2. PICK r \in Verify(card[CurrentFile]) :
         IF r = "error"
         THEN Return(FALSE) /\ report' = Reported("failed")
         ELSE /\ run' = [run EXCEPT !.pc = "idx", !.idx = @ + 1,
                                    !.verification = IF r = "abort" THEN 0 ELSE @]
              /\ report' = Unchecked(r) /\ UNCHANGED session
  BY DEF ClosePart
<1>3. KeptBut({})
  BY <1>1, TouchNone
<1>4. CASE r = "error"
  <2>1. NamedFiles(card)'
    BY <1>1 DEF Types, NamedFiles
  <2> QED BY <1>1, <1>2, <1>3, <1>4, <2>1, KeptMore, Stops
<1>5. CASE r # "error"
  <2>1. /\ report' = Unchecked(r) /\ UNCHANGED <<hw, opt, at>>
        /\ run' = [run EXCEPT !.pc = "idx", !.idx = run.idx + 1,
                              !.verification = IF r = "abort" THEN 0 ELSE run.verification]
    BY <1>2, <1>5 DEF session
  <2>2. run \in Locals /\ run.pc # "idle" /\ Current \in DumpParts
    BY <1>1, CurrentFileOK
  <2>3. PICK p \in DumpParts : p = Current
    BY <2>2
  <2>4. /\ report' \in [DumpParts -> Report]
        /\ \A q \in DumpParts : q # Current => report'[q] = report[q]
        /\ \A q \in DumpParts : report'[q].misled = report[q].misled /\ Carried(q)
                                 /\ report'[q].split = report[q].split
                                 /\ report'[q].res = report[q].res
        /\ ~report'[Current].unchecked => ~report[Current].unchecked /\ r # "abort"
    BY <2>1, <2>2, UncheckedOK DEF Types
  <2>5. /\ run' \in Locals /\ run'.pc = "idx" /\ run'.split = run.split
        /\ run'.idx = run.idx + 1 /\ run'.lba = run.lba /\ run'.left = run.left
        /\ r # "abort" => run'.verification = run.verification
    <3> DEFINE v == IF r = "abort" THEN 0 ELSE run.verification
    <3>1. v \in 0 .. 2 /\ (r # "abort" => v = run.verification) /\ run.idx + 1 \in Nat
      BY <2>2 DEF Locals
    <3>2. run' = [run EXCEPT !.pc = "idx", !.idx = run.idx + 1, !.verification = v]
      BY <2>1
    <3> HIDE DEF v
    <3> QED BY <3>1, <3>2, <2>2 DEF Locals
  <2>6. /\ Split \in Nat \ {0} /\ Size[p] \in Nat /\ First[p] \in Nat
        /\ run.idx \in Nat /\ run.lba \in Nat /\ run.left \in Nat /\ run.written \in Nat
    BY <2>2, SizesOK, NumsOK DEF Locals
  <2>7. /\ run.split /\ run.split = TRUE /\ run.written = Split
        /\ Len(card[CurrentFile]) = Split
    BY <1>1, <2>2, <2>6 DEF PartFull, Working, Locals
  <2>8. Current' = Current /\ Source' = Source /\ Busy'
    BY <2>1, <2>5 DEF Current, Source, raw_emummc, Busy
  <2>9. Types'
    <3>1. Where'
      BY <2>1, <2>5, <1>1 DEF Types, Where
    <3> QED BY <3>1, <1>1, <2>1, <2>4, <2>5 DEF Types, NamedFiles
  <2>10. Paused'
    BY <1>1, <1>3, <2>4, PausedFrame DEF Types
  <2>11. report[Current].res = None
    BY <1>1 DEF Working
  <2>12. Done'
    BY <1>1, <1>3, <2>4, <2>11, DoneFrame DEF None
  <2>13. Working'
    <3>1. own = Current /\ Size[Current] > FileLimit => partial_idx <= run'.idx
      BY <1>1, <2>5, <2>6 DEF Working, Types, NoIdx
    <3>2. ~report'[Current].unchecked => run'.verification = verify_cfg
      BY <1>1, <2>4, <2>5 DEF Working
    <3>3. report'[Current].res = None /\ report'[Current].split = run'.split
      BY <1>1, <2>2, <2>4, <2>5 DEF Working
    <3> QED BY <3>1, <3>2, <3>3, <1>1, <2>5, <2>7, <2>8 DEF Working
  <2>14. OnTrack'
    <3> SUFFICES ASSUME ~report[p].misled PROVE OnTrack'
      BY <2>3, <2>4, <2>8 DEF OnTrack
    <3>1. /\ report[p].from = Source
          /\ run.idx * Split < Size[p]
          /\ run.lba + run.left = First[p] + Size[p]
          /\ run.lba = First[p] + run.idx * Split + Split
      BY <1>1, <2>3, <2>7 DEF OnTrack
    <3>2. \A i \in 0 .. run.idx - 1 : PartGood(p, i)'
      BY <1>1, <1>3, <2>3, <2>4, KeptMore, EarlierParts
    <3>3. run.idx * Split \in Nat /\ (run.idx + 1) * Split = run.idx * Split + Split
      BY <2>6, MulNat, MulStep
    <3>4. /\ run.lba = First[p] + (run.idx + 1) * Split
          /\ (run.idx + 1) * Split < Size[p]
          /\ Least(Split, Size[p] - run.idx * Split) = Split
      BY <1>1, <3>1, <3>3, <2>6 DEF Least
    <3>5. Promised(p)' => Matches(card[CurrentFile])
      <4>1. Promised(p)' => Promised(Current) /\ r # "abort"
        BY <1>1, <2>3, <2>4 DEF Promised
      <4> QED BY <4>1, <1>1, <1>5, VerifyOK
    <3>6. PICK k \in Nat : k = run.idx
      BY <2>6
    <3>7. PartGood(p, k)'
      BY <1>1, <2>3, <2>4, <2>7, <3>4, <3>5, <3>6, PartClosed
    <3>8. \A i \in 0 .. run'.idx - 1 : PartGood(p, i)'
      <4>1. \A i \in 0 .. run'.idx - 1 : i \in 0 .. run.idx - 1 \/ i = k
        BY <3>6, <2>5
      <4> QED BY <4>1, <3>2, <3>7
    <3>9. report'[p].from = Source
      BY <3>1, <2>4 DEF Carried
    <3> QED BY <3>1, <3>4, <3>8, <3>9, <2>3, <2>5, <2>8 DEF OnTrack
  <2> QED BY <2>9, <2>10, <2>12, <2>13, <2>14
<1> QED BY <1>4, <1>5

---------------------------------------------------------------------------
(* partial.idx and the next part *)

\* What partial.idx stands for when the session at work has just written it.
LEMMA IdxWritten ==
  ASSUME BackupInv, run.pc = "idx", partial_idx' = run.idx, own' = Current,
         UNCHANGED <<verify_cfg, card, kept>>,
         \A p \in DumpParts : report'[p].misled = report[p].misled /\ Carried(p)
  PROVE  Paused'
<1> USE DEF BackupInv
<1>1. Busy
  BY DEF Busy
<1>2. run \in Locals /\ run.pc # "idle" /\ Current \in DumpParts
  BY <1>1, CurrentFileOK
<1>3. PICK p \in DumpParts : p = Current
  BY <1>2
<1> SUFFICES ASSUME ~report[p].misled, Size[p] > FileLimit
             PROVE  /\ run.idx * Split < Size[p]
                    /\ report'[p].from = Home(p)
                    /\ \A i \in 0 .. run.idx - 1 : PartGood(p, i)'
  BY <1>3 DEF Paused
<1>4. \A i \in 0 .. run.idx - 1 : PartGood(p, i)'
  BY <1>1, <1>3, TouchNone, KeptMore, EarlierParts
<1>5. run.idx * Split < Size[p] /\ report[p].from = Source
  BY <1>1, <1>3 DEF OnTrack
<1>6. Source = Home(p)
  BY <1>2, <1>3, CurrentOK
<1> QED BY <1>4, <1>5, <1>6 DEF Carried

\* The step to the next part, with or without a partial.idx.
LEMMA GoesToCreate ==
  ASSUME BackupInv, run.pc = "idx", run' = [run EXCEPT !.pc = "create"],
         UNCHANGED <<menu, verify_cfg, card, kept, report, hw, opt, at>>,
         \/ UNCHANGED <<partial_idx, own>>
         \/ partial_idx' = run.idx /\ own' = Current
  PROVE  BackupInv'
<1> USE DEF BackupInv
<1>1. Busy
  BY DEF Busy
<1>2. run \in Locals /\ Current \in DumpParts
  BY <1>1, CurrentFileOK
<1>3. /\ run' \in Locals /\ run'.pc = "create"
      /\ run'.split = run.split /\ run'.idx = run.idx /\ run'.lba = run.lba
      /\ run'.left = run.left /\ run'.written = run.written
      /\ run'.verification = run.verification
  BY <1>2 DEF Locals
<1>4. own' = Current /\ Size[Current] > FileLimit => partial_idx' <= run.idx
  BY <1>1, <1>2 DEF Working, Locals
<1>5. OnTrack' /\ Done' /\ Where' /\ Working'
  BY <1>1, <1>3, <1>4, SessionKept
<1>6. Types'
  BY <1>2, <1>3, <1>5 DEF Types, NamedFiles, Locals, NoIdx
<1>7. \A p \in DumpParts : report'[p].misled = report[p].misled /\ Carried(p)
  BY DEF Carried
<1>8. CASE UNCHANGED <<partial_idx, own>>
  BY <1>8, <1>5, <1>6, <1>7, TouchNone, PausedFrame DEF Types
<1>9. CASE partial_idx' = run.idx /\ own' = Current
  BY <1>9, <1>5, <1>6, <1>7, IdxWritten
<1> QED BY <1>8, <1>9

LEMMA WriteIdxOK ==
  ASSUME BackupInv, WriteIdx
  PROVE  BackupInv'
<1> USE DEF BackupInv
<1>1. run.pc = "idx" /\ Busy /\ UNCHANGED <<menu, verify_cfg, card, kept>>
  BY DEF WriteIdx, Busy, setup
<1>2. run \in Locals /\ run.pc # "idle" /\ Current \in DumpParts /\ Current # None
  BY <1>1, CurrentFileOK
<1>3. CASE /\ run' = [run EXCEPT !.pc = "create"]
           /\ UNCHANGED <<session, report>>
           /\ \/ UNCHANGED <<partial_idx, own>>
              \/ partial_idx' = run.idx /\ own' = Current
  BY <1>1, <1>3, GoesToCreate DEF session
<1>4. CASE Return(FALSE) /\ report' = Reported("failed") /\ UNCHANGED <<partial_idx, own>>
  <2>1. NamedFiles(card)'
    BY <1>1 DEF Types, NamedFiles
  <2> QED BY <1>1, <1>4, <2>1, TouchNone, KeptMore, Stops
<1>5. CASE partial_idx' = run.idx /\ own' = Current /\ Return(TRUE) /\ report' = Reported("partial")
  <2>1. run' \in Resting /\ Where' /\ hw' \in 0 .. 2
    BY <1>2, <1>5, ReturnOK DEF Resting
  <2>2. /\ report' \in [DumpParts -> Report]
        /\ \A p \in DumpParts : p # Current => report'[p] = report[p]
        /\ \A p \in DumpParts : report'[p].misled = report[p].misled /\ Carried(p)
        /\ report'[Current].res = "partial"
    BY <1>2, <1>5, ReportedOK DEF Types, Result
  <2>3. Types'
    BY <1>1, <1>2, <1>5, <2>1, <2>2 DEF Types, NamedFiles, Locals, NoIdx
  <2>4. Paused'
    BY <1>1, <1>5, <2>2, IdxWritten
  <2>5. Done'
    BY <1>1, <2>2, TouchNone, DoneFrame
  <2> QED BY <2>1, <2>3, <2>4, <2>5, RestIsNotBusy
<1> QED BY <1>3, <1>4, <1>5 DEF WriteIdx

LEMMA CreateNextOK ==
  ASSUME BackupInv, CreateNext
  PROVE  BackupInv'
<1> USE DEF BackupInv
<1>1. run.pc = "create" /\ Busy /\ UNCHANGED <<menu, verify_cfg, partial_idx, kept, own>>
  BY DEF CreateNext, Busy, setup
<1>2. /\ run \in Locals /\ run.pc # "idle" /\ Current \in DumpParts
      /\ CurrentFile \in Files /\ (~CurrentFile[2] => CurrentFile[3] = 0)
      /\ \A b, i : \A p \in DumpParts : p # Current => <<p, b, i>> # CurrentFile
  BY <1>1, CurrentFileOK
<1>3. CASE Return(FALSE) /\ report' = Reported("failed") /\ UNCHANGED card
  <2>1. NamedFiles(card)'
    BY <1>3 DEF Types, NamedFiles
  <2> QED BY <1>1, <1>3, <2>1, TouchNone, KeptMore, Stops
<1>4. CASE /\ card' = Created(CurrentFile)
           /\ run' = [run EXCEPT !.pc = "copy", !.written = 0]
           /\ UNCHANGED <<session, report>>
  <2>1. PICK p \in DumpParts : p = Current
    BY <1>2
  <2>2. UNCHANGED <<hw, opt, at, report>>
    BY <1>4 DEF session
  <2>3. /\ run' \in Locals /\ run'.pc = "copy" /\ run'.split = run.split /\ run'.idx = run.idx
        /\ run'.lba = run.lba /\ run'.left = run.left /\ run'.written = 0
        /\ run'.verification = run.verification
    BY <1>2, <1>4 DEF Locals
  <2>4. Current' = Current /\ Source' = Source /\ Busy'
    BY <2>2, <2>3 DEF Current, Source, raw_emummc, Busy
  <2>5. CurrentFile' = CurrentFile
    BY <2>3, <2>4 DEF CurrentFile, Name
  <2> DEFINE f == CurrentFile
  <2>6. KeptBut({f}) /\ NamedFiles(card)' /\ f \in DOMAIN card' /\ card'[f] = <<>>
    BY <1>1, <1>2, <1>4, CreatedOK
  <2>7. Len(card'[f]) = 0 /\ DOMAIN card'[f] = {}
    BY <2>6
  <2>8. Split \in Nat \ {0} /\ Size[p] \in Nat /\ First[p] \in Nat /\ run.idx \in Nat
        /\ run.lba \in Nat
    BY <1>2, SizesOK, NumsOK DEF Locals
  <2>9. Types'
    <3>1. Where'
      BY <1>1, <2>2, <2>3 DEF Types, Where
    <3> QED BY <3>1, <1>1, <2>2, <2>3, <2>6 DEF Types, NamedFiles
  <2>10. Paused'
    BY <1>1, <2>2, <2>6, TouchedName, PausedFrame DEF Carried
  <2>11. Done'
    <3>1. \A q \in DumpParts : report'[q].res = "done" => q # Current
      BY <1>1, <2>2 DEF Working, None
    <3> QED BY <3>1, <1>1, <1>2, <2>2, <2>6, DoneFrame
  <2>12. Working'
    BY <1>1, <2>2, <2>3, <2>4, <2>5, <2>6, <2>7, <2>8 DEF Working
  <2>13. OnTrack'
    <3> SUFFICES ASSUME ~report[p].misled PROVE OnTrack'
      BY <2>1, <2>2, <2>4 DEF OnTrack
    <3>1. \A i \in 0 .. run.idx - 1 : PartGood(p, i)'
      BY <1>1, <2>1, <2>2, <2>6, EarlierParts DEF Carried
    <3>2. /\ report[p].from = Source
          /\ run.idx * Split < Size[p]
          /\ run.lba + run.left = First[p] + Size[p]
          /\ run.lba = First[p] + run.idx * Split
      BY <1>1, <2>1 DEF OnTrack
    <3>3. Prefix(card[CurrentFile], First[Current] + run.idx * Split, Source)'
      BY <2>5, <2>7 DEF Prefix
    <3>4. run'.lba = First[p] + run.idx * Split + Len(card'[f])
      BY <3>2, <2>3, <2>7, <2>8
    <3> QED BY <3>1, <3>2, <3>3, <3>4, <2>1, <2>2, <2>3, <2>4, <2>5 DEF OnTrack
  <2> QED BY <2>9, <2>10, <2>11, <2>12, <2>13
<1> QED BY <1>3, <1>4 DEF CreateNext

---------------------------------------------------------------------------
(* The end of a backup *)

\* There are no parts after the one that reaches the end of the partition.
LEMMA LastPart ==
  ASSUME NEW size \in Nat, NEW n \in Nat \ {0}, NEW k \in Nat, size <= k * n + n
  PROVE  (size + n - 1) \div n <= k + 1
<1> DEFINE q == (size + n - 1) \div n
<1>1. q \in Int /\ q * n <= size + n - 1
  OBVIOUS
<1> HIDE DEF q
<1>2. k * n \in Nat /\ (k + 2) * n = k * n + n + n
  OBVIOUS
<1>3. q * n < (k + 2) * n
  BY <1>1, <1>2
<1>4. q < k + 2
  BY <1>1, <1>3
<1> QED BY <1>1, <1>4 DEF q

LEMMA FinishReport ==
  ASSUME report \in [DumpParts -> Report], Current \in DumpParts, NEW r,
         report' = [report EXCEPT ![Current].res = "done", ![Current].unchecked = @ \/ r = "abort"]
  PROVE  /\ report' \in [DumpParts -> Report]
         /\ \A p \in DumpParts : p # Current => report'[p] = report[p]
         /\ \A p \in DumpParts : report'[p].misled = report[p].misled /\ Carried(p)
                                 /\ report'[p].split = report[p].split
         /\ ~report'[Current].unchecked => ~report[Current].unchecked /\ r # "abort"
<1> DEFINE u == report[Current].unchecked \/ r = "abort"
           new == [report[Current] EXCEPT !.res = "done", !.unchecked = u]
<1>1. report[Current] \in Report /\ u \in BOOLEAN
  OBVIOUS
<1>2. (report[Current].unchecked => u) /\ (~u => ~report[Current].unchecked /\ r # "abort")
  OBVIOUS
<1>3. report' = [report EXCEPT ![Current] = new]
  BY <1>1 DEF Report
<1> HIDE DEF u
<1>4. new \in Report /\ new.misled = report[Current].misled
      /\ new.from = report[Current].from /\ new.unchecked = u
      /\ new.split = report[Current].split
  BY <1>1 DEF Report, Result
<1> HIDE DEF new
<1>5. report' \in [DumpParts -> Report] /\ report'[Current] = new
      /\ \A p \in DumpParts : p # Current => report'[p] = report[p]
  BY <1>3, <1>4
<1> QED BY <1>2, <1>4, <1>5 DEF Carried

LEMMA FinishOK ==
  ASSUME BackupInv, Finish
  PROVE  BackupInv'
<1> USE DEF BackupInv
<1>1. /\ run.pc = "copy" /\ Busy /\ run.left = 0
      /\ UNCHANGED <<menu, verify_cfg, card, kept>>
  BY DEF Finish, Busy, setup
<1>2. /\ run \in Locals /\ run.pc # "idle" /\ Current \in DumpParts /\ Current # None
  BY <1>1, CurrentFileOK
<1>3. PICK r \in Verify(card[CurrentFile]) :
         IF r = "error"
         THEN /\ Return(FALSE) /\ report' = Reported("failed")
              /\ UNCHANGED <<partial_idx, own>>
         ELSE /\ Return(TRUE)
              /\ report' = [report EXCEPT ![Current].res = "done",
                                ![Current].unchecked = @ \/ r = "abort"]
              /\ partial_idx' = IF run.small THEN NoIdx ELSE partial_idx
              /\ own' = IF run.small \/ own = Current THEN None ELSE own
  BY DEF Finish
<1>4. KeptBut({})
  BY <1>1, TouchNone
<1>5. NamedFiles(card)' /\ NamedFiles(kept)'
  BY <1>1 DEF Types, NamedFiles
<1>6. CASE r = "error"
  BY <1>1, <1>3, <1>4, <1>5, <1>6, KeptMore, Stops
<1>7. CASE r # "error"
  <2>1. /\ Return(TRUE)
        /\ report' = [report EXCEPT ![Current].res = "done",
                          ![Current].unchecked = @ \/ r = "abort"]
        /\ partial_idx' = IF run.small THEN NoIdx ELSE partial_idx
        /\ own' = IF run.small \/ own = Current THEN None ELSE own
    BY <1>3, <1>7
  <2>2. run' \in Resting /\ Where' /\ hw' \in 0 .. 2
    BY <1>2, <2>1, ReturnOK DEF Resting
  <2>3. /\ report' \in [DumpParts -> Report]
        /\ \A p \in DumpParts : p # Current => report'[p] = report[p]
        /\ \A p \in DumpParts : report'[p].misled = report[p].misled /\ Carried(p)
                                /\ report'[p].split = report[p].split
        /\ ~report'[Current].unchecked => ~report[Current].unchecked /\ r # "abort"
    BY <1>2, <2>1, FinishReport DEF Types
  <2>4. Types'
    <3>1. partial_idx' \in Nat \cup {NoIdx} /\ own' \in DumpParts \cup {None}
          /\ (own' # None => partial_idx' # NoIdx)
      BY <2>1 DEF Types
    <3> QED BY <3>1, <1>1, <1>5, <2>2, <2>3 DEF Types
  <2>5. Paused'
    <3>1. CASE own' = None
      BY <3>1 DEF Paused
    <3>2. CASE own' # None
      <4>1. UNCHANGED <<partial_idx, own>>
        BY <3>2, <2>1
      <4> QED BY <4>1, <1>1, <1>4, <2>3, PausedFrame DEF Types
    <3> QED BY <3>1, <3>2
  <2>6. PICK p \in DumpParts : p = Current
    BY <1>2
  <2>7. DonePart(p)'
    <3> SUFFICES ASSUME ~report[p].misled
                 PROVE  IF report[p].split
                        THEN \A i \in 0 .. NumParts(p) - 1 : PartGood(p, i)'
                        ELSE FileGood(p)'
      BY <2>3 DEF DonePart
    <3>1. /\ Split \in Nat \ {0} /\ Size[p] \in Nat /\ First[p] \in Nat
          /\ run.idx \in Nat /\ run.lba \in Nat /\ run.idx * Split \in Nat
      BY <1>2, SizesOK, NumsOK DEF Locals
    <3> DEFINE f == CurrentFile
    <3>2. /\ report[p].from = Source /\ run.idx * Split < Size[p]
          /\ run.lba + run.left = First[p] + Size[p]
          /\ run.lba = First[p] + run.idx * Split + Len(card[f])
          /\ Prefix(card[f], First[p] + run.idx * Split, Source)
      BY <1>1, <2>6 DEF OnTrack
    <3>3. /\ f \in DOMAIN card /\ report[p].split = run.split
          /\ (run.split => Len(card[f]) <= Split)
          /\ (~run.split => run.idx = 0)
      BY <1>1, <2>6 DEF Working
    <3>4. Len(card[f]) \in Nat
      BY <3>3 DEF Types, NamedFiles
    <3>5. Len(card[f]) = Size[p] - run.idx * Split
      <4>1. PICK a \in Nat, l \in Nat, z \in Nat, x \in Nat, b \in Nat :
               /\ a = First[p] /\ l = Len(card[f]) /\ z = Size[p]
               /\ x = run.idx * Split /\ b = run.lba
        BY <3>1, <3>4
      <4>2. run.left = 0 /\ b + 0 = a + z /\ b = a + x + l
        BY <1>1, <3>2, <4>1
      <4>3. l = z - x
        BY <4>2
      <4> QED BY <4>1, <4>3
    <3>6. Promised(p)' => Matches(card[f])
      <4>1. Promised(p)' => Promised(Current) /\ r # "abort"
        BY <1>1, <2>3, <2>6 DEF Promised
      <4> QED BY <4>1, <1>1, <1>7, VerifyOK
    <3>7. CASE run.split
      <4>1. \A i \in 0 .. run.idx - 1 : PartGood(p, i)'
        BY <1>1, <1>4, <2>3, <2>6, KeptMore, EarlierParts
      <4>2. PICK k \in Nat : k = run.idx
        BY <3>1
      <4>3. Len(card[f]) = Least(Split, Size[p] - k * Split)
        BY <3>1, <3>3, <3>4, <3>5, <3>7, <4>2 DEF Least
      <4>4. PartGood(p, k)'
        BY <1>1, <2>3, <2>6, <3>6, <3>7, <4>2, <4>3, PartClosed
      <4>5. Size[p] <= k * Split + Split
        BY <3>1, <3>3, <3>4, <3>5, <3>7, <4>2
      <4>6. NumParts(p) <= k + 1 /\ NumParts(p) \in Int
        BY <3>1, <4>5, LastPart DEF NumParts
      <4>7. \A i \in 0 .. NumParts(p) - 1 : i \in 0 .. run.idx - 1 \/ i = k
        BY <4>2, <4>6
      <4> QED BY <4>1, <4>4, <4>7, <3>3, <3>7
    <3>8. CASE ~run.split
      <4>1. f = <<p, FALSE, 0>>
        BY <1>2, <2>6, <3>8 DEF CurrentFile, Name, Locals
      <4>2. f \in DOMAIN UserFiles' /\ UserFiles'[f] = card[f]
        BY <1>1, <3>3, UserFilesNext
      <4>3. First[p] + run.idx * Split = First[p] /\ Len(card[f]) = Size[p]
        <5>1. run.idx = 0
          BY <3>3, <3>8
        <5>2. run.idx * Split = 0
          BY <3>1, <5>1
        <5> QED BY <3>1, <3>5, <5>2
      <4>4. FileWhole(p)'
        <5>1. \A j \in DOMAIN UserFiles'[f] :
                 /\ UserFiles'[f][j].hw = report'[p].from
                 /\ UserFiles'[f][j].lba = First[p] + j - 1
          BY <2>3, <3>2, <4>2, <4>3 DEF Prefix, Carried
        <5>2. f \in DOMAIN UserFiles' /\ Len(UserFiles'[f]) = Size[p]
          BY <4>2, <4>3
        <5> HIDE DEF f
        <5> QED BY <5>1, <5>2, <4>1 DEF FileWhole
      <4>5. Promised(p)' => Matches(UserFiles[<<p, FALSE, 0>>])'
        BY <1>1, <3>6, <4>1, <4>2 DEF Matches, Checked
      <4> QED BY <4>4, <4>5, <3>3, <3>8 DEF FileGood
    <3> QED BY <3>7, <3>8
  <2>8. Done'
    <3>1. ASSUME NEW q \in DumpParts, q # p PROVE DonePart(q)'
      BY <3>1, <1>1, <1>4, <2>3, <2>6, DoneKept DEF Done
    <3> QED BY <3>1, <2>7 DEF Done
  <2> QED BY <2>2, <2>4, <2>5, <2>8, RestIsNotBusy
<1> QED BY <1>6, <1>7

---------------------------------------------------------------------------
(* The theorems *)

LEMMA BackupUnchanged ==
  ASSUME BackupInv, UNCHANGED backupVars
  PROVE  BackupInv'
<1>1. UNCHANGED <<menu, verify_cfg, card, kept, partial_idx, own, report, hw, opt, at, run>>
  BY DEF backupVars
<1>2. CASE run \in Resting
  <2>1. Where' /\ hw' \in 0 .. 2
    BY <1>1 DEF BackupInv, Types, Where
  <2> QED BY <1>1, <1>2, <2>1, Rests
<1>3. CASE run \in Locals
  <2>1. Busy
    BY <1>3 DEF Busy, Locals
  <2>2. own' = Current /\ Size[Current] > FileLimit => partial_idx' <= run.idx
    BY <1>1, <2>1 DEF BackupInv, Working
  <2>3. OnTrack' /\ Done' /\ Where' /\ Working'
    BY <1>1, <1>3, <2>1, <2>2, SessionKept
  <2>4. Paused'
    BY <1>1, TouchNone, PausedFrame DEF BackupInv, Carried
  <2>5. Types'
    BY <1>1, <2>3 DEF BackupInv, Types, NamedFiles
  <2> QED BY <2>3, <2>4, <2>5 DEF BackupInv
<1> QED BY <1>2, <1>3 DEF BackupInv, Types

\* Every operation of the backup tool, the user and a power cut keep what the
\* other theorems rest on.
THEOREM BackupAlwaysInv == BackupSpec => []BackupInv
<1>1. BackupInit => BackupInv
  BY BackupInitOK
<1>2. BackupInv /\ [BackupNext]_backupVars => BackupInv'
  <2> SUFFICES ASSUME BackupInv, [BackupNext]_backupVars PROVE BackupInv'
    OBVIOUS
  <2>1. CASE UNCHANGED backupVars
    BY <2>1, BackupUnchanged
  <2>2. CASE BackupNext
    BY <2>2, SelectOK, NextPartitionOK, OpenPartOK, OpenFailsOK, ReadFailsOK, WriteFailsOK,
       CopyChunkOK, ClosePartOK, WriteIdxOK, CreateNextOK, FinishOK, MoveFilesOK, PowerCutOK
       DEF BackupNext, BackupStep
  <2> QED BY <2>1, <2>2
<1> QED BY <1>1, <1>2, PTL DEF BackupSpec

\* A session always continues from progress the files bear out: partial.idx
\* and the locals of the file in progress agree with what is on the card
\* (_dump_emmc_part), with any sizes, split and number of sessions and faults.
THEOREM ProgressAlwaysSound == BackupSpec => []ProgressSound
<1>1. BackupInv => ProgressSound
  <2> SUFFICES ASSUME BackupInv PROVE ProgressSound
    OBVIOUS
  <2>1. IdxBacked
    BY DEF BackupInv, Paused, PartGood, IdxBacked
  <2>2. run.pc \in {"idle", "next", "open", "copy", "idx", "create"}
    BY DEF BackupInv, Types, Resting, NoDump, Locals
  <2>3. \A f \in {card, kept} : \A n \in DOMAIN f : n \in Files /\ f[n] \in Seq(Chunk)
    BY DEF BackupInv, Types, NamedFiles
  <2>4. partial_idx \in Int /\ hw \in 0 .. 2 /\ own \in DumpParts \cup {None}
    BY DEF BackupInv, Types, NoIdx
  <2>5. run.pc = "copy" =>
          /\ CurrentFile \in DOMAIN card
          /\ run.split => Len(card[CurrentFile]) = run.written
          /\ report[Current].misled
               \/ run.lba + run.left = First[Current] + Size[Current]
    BY DEF BackupInv, Working, OnTrack, Busy
  <2> QED BY <2>1, <2>2, <2>3, <2>4, <2>5 DEF ProgressSound, BackupTypeOK
<1> QED BY <1>1, BackupAlwaysInv, PTL

\* A backup that ends with Done! is the whole partition, however many sessions,
\* restarts and part files it took, unless it continued from the partial.idx of
\* another backup (_dump_emmc_part).
THEOREM DoneAlwaysWhole == BackupSpec => []DoneIsWhole
<1>1. BackupInv => DoneIsWhole
  BY DEF BackupInv, Done, DonePart, PartGood, FileGood, DoneIsWhole
<1> QED BY <1>1, BackupAlwaysInv, PTL

\* With verification on, a backup that is done and none of whose verifications
\* was cancelled has no corrupted chunk among those _emmc_sd_copy_verify
\* compares.
THEOREM VerifiedAlwaysIntact == BackupSpec => []VerifiedIsIntact
<1>1. BackupInv => VerifiedIsIntact
  <2> SUFFICES ASSUME BackupInv, NEW p \in DumpParts \ EmuParts,
                      report[p].res = "done", ~report[p].misled, ~report[p].unchecked,
                      verify_cfg > 0,
                      NEW n \in DOMAIN UserFiles, n[1] = p, n[2] = report[p].split,
                      n[2] => n[3] < NumParts(p)
               PROVE  Matches(UserFiles[n])
    BY DEF VerifiedIsIntact
  <2>1. Promised(p)
    BY DEF Promised
  <2>2. n \in Files /\ (~n[2] => n[3] = 0)
    BY UserFilesOf DEF BackupInv, Types, NamedFiles
  <2>3. n = <<n[1], n[2], n[3]>> /\ n[2] \in BOOLEAN /\ n[3] \in Nat
    BY <2>2 DEF Files
  <2>4. DonePart(p)
    BY DEF BackupInv, Done
  <2>5. CASE n[2]
    <3>1. NumParts(p) \in Int
      BY SizesOK, NumsOK DEF NumParts
    <3>2. n[3] \in 0 .. NumParts(p) - 1
      BY <2>3, <2>5, <3>1
    <3>3. PartGood(p, n[3])
      BY <2>4, <2>5, <3>2 DEF DonePart
    <3>4. n = <<p, TRUE, n[3]>>
      BY <2>3, <2>5
    <3> QED BY <2>1, <3>3, <3>4 DEF PartGood
  <2>6. CASE ~n[2]
    <3>1. FileGood(p)
      BY <2>4, <2>6 DEF DonePart
    <3>2. n = <<p, FALSE, 0>>
      BY <2>2, <2>3, <2>6
    <3> QED BY <2>1, <3>1, <3>2 DEF FileGood
  <2> QED BY <2>5, <2>6
<1> QED BY <1>1, BackupAlwaysInv, PTL

----------------------------------------------------------------------------
(* EmmcRestore: the invariant.                                             *)

SumOf(t) == Before(backup[t].parts)
InPartFiles(t) == t = "RAW" /\ backup[t].single = NoFile
Fits(t, emu) == IF emu /\ t # "RAW" THEN BootUnits ELSE Room[t]

CopyLocals ==
    {"pc", "button", "emu", "k", "multi", "idx", "fp", "bytesWritten", "left", "total", "done",
     "partStart", "dev", "off", "part", "buf", "verification", "tries"}

\* The card and the settings stay what they were; the call is one of a button.
RestoreTypes ==
    /\ \E c \in SdCards : backup = c.files /\ mbr = c.mbr
    /\ verif \in 0 .. 2
    /\ job.pc \in {"idle", "open", "next", "copy"}
    /\ job.pc # "idle" =>
         /\ job.button \in DOMAIN RestoreOf /\ job.emu \in BOOLEAN
         /\ job.k \in 1 .. Len(RestoreOf[job.button])
    /\ job.pc = "next" => /\ job.k + 1 \in 1 .. Len(RestoreOf[job.button])
                          /\ DOMAIN job = {"pc", "button", "emu", "k"}
    /\ job.pc = "copy" => DOMAIN job = CopyLocals
    /\ DOMAIN outcome = Targets
    /\ \A t \in Targets : outcome[t].off \in Nat /\ outcome[t].total \in Nat

\* The locals of a copy.
CopyBounds ==
    job.pc = "copy" =>
      /\ {job.off, job.total, job.done, job.left, job.partStart, job.fp, job.idx,
          job.bytesWritten} \subseteq Nat
      /\ job.done + job.left = job.total /\ job.partStart <= job.done
      /\ job.total <= Fits(Target, job.emu)
      /\ job.verification \in 0 .. 2
      /\ job.multi \in BOOLEAN /\ (job.multi <=> InPartFiles(Target))
      /\ InPartFiles(Target) => /\ job.idx + 1 \in 1 .. Len(backup[Target].parts)
                                /\ job.fp <= backup[Target].parts[job.idx + 1]
      /\ ~InPartFiles(Target) => /\ backup[Target].single # NoFile /\ job.total = backup[Target].single
                                 /\ job.fp = job.done /\ job.partStart = 0 /\ job.idx = 0

\* Where a copy of regular part files is: n of them make up the whole.
InParts ==
    job.pc = "copy" /\ InPartFiles(Target) /\ Regular(Target) =>
      \E n \in 1 .. Len(backup[Target].parts) :
        /\ job.total = SumOf(Target)[n] /\ job.idx \in 0 .. n - 1
        /\ job.partStart = SumOf(Target)[job.idx]
        /\ job.fp <= backup[Target].parts[job.idx + 1] /\ job.done = job.partStart + job.fp
        /\ job.bytesWritten <= job.fp
        /\ job.idx + 1 < n => job.fp % Iter = 0 /\ job.bytesWritten = job.fp

Holds(t, d, o, g) == <<d, o + g>> \in DOMAIN image /\ image[<<d, o + g>>] \in {<<t, g>>, Bad}
Exact(t, d, o, g) == <<d, o + g>> \in DOMAIN image /\ image[<<d, o + g>>] = <<t, g>>

\* What has been written so far is there, and what has been verified is right.
WrittenSoFar ==
    job.pc = "copy" /\ Regular(Target) =>
      /\ \A g \in 0 .. job.done - 1 : Holds(Target, job.dev, job.off, g)
      /\ verif = 2 /\ job.verification # 0 /\ ~job.emu =>
           \A g \in 0 .. job.partStart - 1 : Exact(Target, job.dev, job.off, g)

\* A copy writes over no restore that is on record.
Clear(o) ==
    \/ o.res # "done" \/ o.dev # job.dev
    \/ o.off + o.total <= job.off \/ job.off + job.total <= o.off
OffRecord == job.pc = "copy" => outcome[Target].res # "done" /\ \A t \in Targets : Clear(outcome[t])

\* The restores on record.
OnRecord ==
    \A t \in Targets : outcome[t].res = "done" /\ Regular(t) =>
      /\ \A g \in 0 .. outcome[t].total - 1 : Holds(t, outcome[t].dev, outcome[t].off, g)
      /\ outcome[t].sure /\ verif = 2 =>
           \A g \in 0 .. outcome[t].total - 1 : Exact(t, outcome[t].dev, outcome[t].off, g)

RestoreInv ==
    /\ RestoreTypes /\ CopyBounds /\ InParts /\ WrittenSoFar /\ OffRecord /\ OnRecord

\* The first partition that is not skipped, with room for an emuMMC.
FirstFit(k) ==
    /\ mbr[k].size >= EmuOffset + 2 * BootUnits + Room["RAW"]
    /\ mbr[k].start # 0 /\ mbr[k].type # "linux"
    /\ \A j \in 1 .. k - 1 : mbr[j].start = 0 \/ mbr[j].type = "linux"

PartOffset(t) == CASE t = "BOOT0" -> 0 [] t = "BOOT1" -> BootUnits [] OTHER -> 2 * BootUnits
EmuHome(k) == mbr[k].start + EmuOffset

\* All parts of an emuMMC go to that one.
EmuAt(k) ==
    /\ job.pc = "copy" /\ job.emu =>
         job.part = k /\ job.dev = "SD" /\ job.off = EmuHome(k) + PartOffset(Target)
    /\ \A t \in Targets : EmuFinished(t) =>
         /\ outcome[t].dev = "SD" /\ outcome[t].off = EmuHome(k) + PartOffset(t)
         /\ outcome[t].total <= Fits(t, TRUE)
\* What the last press has noted is that one too.
EmuNoted(k) == noted => emu_ini = EmuHome(k) /\ raw_based[k] = emu_ini
EmuInv ==
    DOMAIN raw_based = 1 .. 3 /\ \A k \in 1 .. 3 : FirstFit(k) => EmuAt(k) /\ EmuNoted(k)

----------------------------------------------------------------------------
(* EmmcRestore: sums of part files.                                        *)

\* A set of numbers has a least one.
LEMMA HasFirst == ASSUME NEW S \in SUBSET Nat, S # {} PROVE \E n \in S : \A m \in S : n <= m
<1> DEFINE below(n) == 0 .. n - 1
           B == {below(n) : n \in S}
<1>1. B \subseteq FiniteSubsetsOf(Nat)
  <2> SUFFICES ASSUME NEW n \in S PROVE below(n) \in FiniteSubsetsOf(Nat)
    OBVIOUS
  <2>1. IsFiniteSet(below(n))
    BY FS_Interval
  <2> QED
    BY <2>1 DEF FiniteSubsetsOf
<1>2. PICK x \in B : \A y \in B : ~(<<y, x>> \in StrictSubsetOrdering(Nat))
  <2> HIDE DEF B
  <2>1. B # {}
    BY DEF B
  <2> QED
    BY <1>1, <2>1, FS_StrictSubsetOrderingWellFounded, WFMin
<1>3. PICK n \in S : x = below(n)
  OBVIOUS
<1>4. \A m \in S : n <= m
  <2> SUFFICES ASSUME NEW m \in S, m < n PROVE FALSE
    OBVIOUS
  <2>1. m \in below(n) /\ m \notin below(m)
    OBVIOUS
  <2>2. below(m) \subseteq below(n) /\ below(m) # below(n)
    BY <2>1
  <2>3. below(m) \in SUBSET Nat /\ below(n) \in SUBSET Nat
    OBVIOUS
  <2>4. <<below(m), below(n)>> \in StrictSubsetOrdering(Nat)
    BY <2>2, <2>3 DEF StrictSubsetOrdering
  <2> QED
    BY <1>2, <1>3, <2>4
<1> QED
  BY <1>4

\* g is the sum of the first n part files, as far as len of them.
Sums(p, len, g) == g = [n \in 0 .. len |-> IF n = 0 THEN 0 ELSE g[n - 1] + p[n]]

\* The recursion of Before is well founded.
LEMMA SumsExist == ASSUME NEW p, NEW len \in Nat PROVE \E g : Sums(p, len, g)
<1> DEFINE B == {n \in Nat : ~\E g : Sums(p, n, g)}
<1>1. SUFFICES ASSUME B # {} PROVE FALSE
  OBVIOUS
<1>2. PICK n \in B : \A m \in B : n <= m
  <2>1. B \in SUBSET Nat
    OBVIOUS
  <2> HIDE DEF B
  <2> QED
    BY <1>1, <2>1, HasFirst
<1>3. n # 0
  <2>1. PICK g : g = [k \in 0 .. 0 |-> 0]
    OBVIOUS
  <2>2. Sums(p, 0, g)
    BY <2>1 DEF Sums
  <2> QED
    BY <2>2
<1>4. n - 1 \in Nat /\ n - 1 \notin B
  BY <1>2, <1>3
<1>5. PICK g : Sums(p, n - 1, g)
  BY <1>4
<1>6. PICK h : h = [k \in 0 .. n |-> IF k = n THEN g[n - 1] + p[n] ELSE g[k]]
  OBVIOUS
<1>7. Sums(p, n, h)
  <2>1. ASSUME NEW k \in 0 .. n PROVE h[k] = IF k = 0 THEN 0 ELSE h[k - 1] + p[k]
    <3>1. CASE k = n
      <4>1. h[k - 1] = g[n - 1]
        BY <1>3, <1>6, <3>1
      <4> QED
        BY <1>3, <1>6, <3>1, <4>1
    <3>2. CASE k # n
      <4>1. k \in 0 .. n - 1 /\ h[k] = g[k]
        BY <1>6, <3>2
      <4>2. k # 0 => h[k - 1] = g[k - 1]
        BY <1>6, <3>2
      <4>3. g[k] = IF k = 0 THEN 0 ELSE g[k - 1] + p[k]
        BY <1>5, <4>1 DEF Sums
      <4> QED
        BY <4>1, <4>2, <4>3
    <3> QED
      BY <3>1, <3>2
  <2>2. h = [k \in 0 .. n |-> h[k]]
    BY <1>6
  <2>3. h = [k \in 0 .. n |-> IF k = 0 THEN 0 ELSE h[k - 1] + p[k]]
    BY <2>1, <2>2, Zenon
  <2> QED
    BY <2>3 DEF Sums
<1> QED
  BY <1>2, <1>7

\* Before adds up file after file.
LEMMA BeforeSums == ASSUME NEW p, Len(p) \in Nat PROVE Sums(p, Len(p), Before(p))
<1>1. PICK g : g = CHOOSE h : Sums(p, Len(p), h)
  OBVIOUS
<1>2. Sums(p, Len(p), g)
  BY <1>1, SumsExist
<1>3. Before(p) = g
  BY <1>1, Zenon DEF Before, Sums
<1> QED
  BY <1>2, <1>3

\* The sums are numbers, and each file adds something.
LEMMA BeforeVals ==
    ASSUME NEW p \in Seq(Nat \ {0})
    PROVE  /\ Before(p)[0] = 0
           /\ \A n \in 1 .. Len(p) : Before(p)[n] = Before(p)[n - 1] + p[n]
           /\ \A n \in 0 .. Len(p) : Before(p)[n] \in Nat
<1>1. PICK g : g = Before(p)
  OBVIOUS
<1>2. PICK len \in Nat : len = Len(p) /\ \A n \in 1 .. len : p[n] \in Nat
  OBVIOUS
<1>3. \A n \in 0 .. len : g[n] = IF n = 0 THEN 0 ELSE g[n - 1] + p[n]
  BY <1>1, <1>2, BeforeSums DEF Sums
<1>4. \A n \in 0 .. len : g[n] \in Nat
  <2> DEFINE B == {n \in 0 .. len : g[n] \notin Nat}
  <2>1. SUFFICES ASSUME B # {} PROVE FALSE
    OBVIOUS
  <2>2. PICK n \in B : \A m \in B : n <= m
    <3>1. B \in SUBSET Nat
      OBVIOUS
    <3> HIDE DEF B
    <3> QED
      BY <2>1, <3>1, HasFirst
  <2>3. n # 0
    BY <1>3
  <2>4. n - 1 \in 0 .. len /\ n - 1 \notin B
    BY <2>2, <2>3
  <2> QED
    BY <1>2, <1>3, <2>3, <2>4
<1> QED
  BY <1>1, <1>2, <1>3, <1>4

\* So fewer files are smaller.
LEMMA BeforeGrows ==
    ASSUME NEW p \in Seq(Nat \ {0}), NEW m \in 0 .. Len(p), NEW n \in 0 .. Len(p), m < n
    PROVE  Before(p)[m] < Before(p)[n]
<1>1. PICK g : g = Before(p)
  OBVIOUS
<1>2. PICK len \in Nat : len = Len(p) /\ \A i \in 1 .. len : p[i] \in Nat \ {0}
  OBVIOUS
<1>3. /\ \A i \in 1 .. len : g[i] = g[i - 1] + p[i]
      /\ \A i \in 0 .. len : g[i] \in Nat
  BY <1>1, <1>2, BeforeVals
<1> DEFINE B == {i \in 0 .. len : m < i /\ ~(g[m] < g[i])}
<1>4. SUFFICES ASSUME B # {} PROVE FALSE
  BY <1>1, <1>2
<1>5. PICK i \in B : \A j \in B : i <= j
  <2>1. B \in SUBSET Nat
    OBVIOUS
  <2> HIDE DEF B
  <2> QED
    BY <1>4, <2>1, HasFirst
<1>6. i \in 1 .. len /\ m < i /\ ~(g[m] < g[i]) /\ i - 1 \in 0 .. len /\ i - 1 \notin B
  BY <1>5
<1>7. g[i - 1] < g[i] /\ g[i - 1] \in Nat /\ g[i] \in Nat
  <2>1. PICK x \in Nat \ {0} : x = p[i]
    BY <1>2, <1>6
  <2>2. g[i] = g[i - 1] + x /\ g[i - 1] \in Nat
    BY <1>3, <1>6, <2>1
  <2> QED
    BY <2>2
<1>8. CASE i - 1 = m
  BY <1>6, <1>7, <1>8
<1>9. CASE i - 1 # m
  <2>1. g[m] < g[i - 1] /\ g[m] \in Nat
    BY <1>2, <1>3, <1>6, <1>9
  <2> QED
    BY <1>6, <1>7, <2>1
<1> QED
  BY <1>8, <1>9

----------------------------------------------------------------------------
(* EmmcRestore: what stays as it is.                                       *)

\* The sizes on the card.
LEMMA RestoreCard ==
    ASSUME RestoreTypes
    PROVE  /\ \A t \in Targets : /\ backup[t].single \in Nat /\ backup[t].parts \in Seq(Nat \ {0})
                                 /\ Room[t] \in Nat \ {0} /\ Lba[t] \in Nat
           /\ \A k \in 1 .. 3 : mbr[k].start \in Nat /\ mbr[k].size \in Nat
BY RestoreSizes DEF RestoreTypes

\* The partition that is restored is one of them.
LEMMA TargetNamed ==
    ASSUME NEW b \in DOMAIN RestoreOf, NEW k \in 1 .. Len(RestoreOf[b])
    PROVE  RestoreOf[b][k] \in Targets
<1>1. b \in {"BOOT", "GP_ALL", "RAW"}
  BY DEF RestoreOf
<1>2. CASE b = "BOOT"
  <2>1. RestoreOf[b] = <<"BOOT0", "BOOT1">>
    BY <1>2 DEF RestoreOf
  <2> QED
    BY <2>1 DEF Targets
<1>3. CASE b = "GP_ALL"
  <2>1. RestoreOf[b] = <<"SYSTEM", "USER">>
    BY <1>3 DEF RestoreOf
  <2> QED
    BY <2>1 DEF Targets
<1>4. CASE b = "RAW"
  <2>1. RestoreOf[b] = <<"RAW">>
    BY <1>4 DEF RestoreOf
  <2> QED
    BY <2>1 DEF Targets
<1> QED
  BY <1>1, <1>2, <1>3, <1>4

LEMMA TargetOK == ASSUME RestoreTypes, job.pc # "idle" PROVE Target \in Targets
BY TargetNamed DEF RestoreTypes, Target

\* A chunk is written behind what is there, and within the restore.
LEMMA ChunkSize ==
    ASSUME RestoreInv, job.pc = "copy", job.left > 0
    PROVE  Num \in 1 .. 2 /\ Num <= job.left
BY DEF RestoreInv, CopyBounds, Num, Smaller, Iter

LEMMA WriteKeeps ==
    ASSUME RestoreInv, job.pc = "copy", job.left > 0, NEW buf, image' = Written(buf),
           NEW d, NEW o \in Nat, <<d, o>> \in DOMAIN image,
           d # job.dev \/ o < job.off + job.done \/ o >= job.off + job.total
    PROVE  <<d, o>> \in DOMAIN image' /\ image'[<<d, o>>] = image[<<d, o>>]
<1>1. PICK num \in 1 .. 2 : num = Num /\ num <= job.left
  BY ChunkSize
<1>2. PICK a : a = <<d, o>>
  OBVIOUS
<1>3. a[1] = d /\ a[2] = o
  BY <1>2
<1>4. {job.off, job.done, job.left, job.total} \subseteq Nat /\ job.done + job.left = job.total
  BY DEF RestoreInv, CopyBounds
<1>5. ~(a[1] = job.dev /\ a[2] - job.off - job.done \in 0 .. num - 1)
  BY <1>1, <1>3, <1>4
<1>6. a \in DOMAIN image
  BY <1>2
<1> QED
  BY <1>1, <1>2, <1>5, <1>6 DEF Written

LEMMA WritePuts ==
    ASSUME RestoreInv, job.pc = "copy", job.left > 0, NEW buf, image' = Written(buf),
           NEW j \in 0 .. Num - 1
    PROVE  /\ <<job.dev, job.off + job.done + j>> \in DOMAIN image'
           /\ image'[<<job.dev, job.off + job.done + j>>] = buf[j]
<1>1. PICK num \in 1 .. 2 : num = Num
  BY ChunkSize
<1>2. PICK d, o : d = job.dev /\ o = job.off + job.done + j
  OBVIOUS
<1>3. PICK a : a = <<d, o>>
  OBVIOUS
<1>4. a[1] = d /\ a[2] = o
  BY <1>3
<1>5. {job.off, job.done} \subseteq Nat
  BY DEF RestoreInv, CopyBounds
<1>6. a[1] = job.dev /\ a[2] - job.off - job.done = j /\ j \in 0 .. num - 1
  BY <1>1, <1>2, <1>4, <1>5
<1>7. a \in {<<job.dev, job.off + job.done + i>> : i \in 0 .. num - 1}
  BY <1>2, <1>3, <1>6
<1>8. a \in DOMAIN image' /\ image'[a] = buf[j]
  BY <1>1, <1>6, <1>7 DEF Written
<1> QED
  BY <1>2, <1>3, <1>8

\* The restores on record stay while nothing touches their range.
LEMMA RecordKept ==
    ASSUME OnRecord, RestoreTypes, UNCHANGED fixed,
           \A t \in Targets : outcome'[t] = outcome[t] \/ outcome'[t].res # "done",
           \A t \in Targets : outcome[t].res = "done" =>
              \A g \in 0 .. outcome[t].total - 1 :
                 LET a == <<outcome[t].dev, outcome[t].off + g>>
                 IN  a \in DOMAIN image => a \in DOMAIN image' /\ image'[a] = image[a]
    PROVE  OnRecord'
<1> DEFINE Kept(t) == /\ \A g \in 0 .. outcome[t].total - 1 : Holds(t, outcome[t].dev, outcome[t].off, g)
                      /\ outcome[t].sure /\ verif = 2 =>
                           \A g \in 0 .. outcome[t].total - 1 : Exact(t, outcome[t].dev, outcome[t].off, g)
<1>1. SUFFICES ASSUME NEW t \in Targets, outcome'[t].res = "done", Regular(t)' PROVE Kept(t)'
  BY DEF OnRecord
<1>2. PICK o : o = outcome[t] /\ o = outcome'[t]
  BY <1>1
<1>3. verif' = verif /\ Regular(t)
  BY <1>1 DEF fixed, Regular
<1>4. ASSUME NEW g \in 0 .. o.total - 1
      PROVE  /\ <<o.dev, o.off + g>> \in DOMAIN image =>
                 /\ <<o.dev, o.off + g>> \in DOMAIN image'
                 /\ image'[<<o.dev, o.off + g>>] = image[<<o.dev, o.off + g>>]
  BY <1>1, <1>2
<1>5. /\ \A g \in 0 .. o.total - 1 : Holds(t, o.dev, o.off, g)
      /\ o.sure /\ verif = 2 => \A g \in 0 .. o.total - 1 : Exact(t, o.dev, o.off, g)
  BY <1>1, <1>2, <1>3 DEF OnRecord
<1>6. \A g \in 0 .. o.total - 1 : Holds(t, o.dev, o.off, g)'
  BY <1>4, <1>5 DEF Holds
<1>7. o.sure /\ verif = 2 => \A g \in 0 .. o.total - 1 : Exact(t, o.dev, o.off, g)'
  BY <1>4, <1>5 DEF Exact
<1> QED
  BY <1>2, <1>3, <1>6, <1>7

\* A chunk leaves them alone.
LEMMA WriteClear ==
    ASSUME RestoreInv, job.pc = "copy", job.left > 0, NEW buf, image' = Written(buf),
           NEW t \in Targets, outcome[t].res = "done", NEW g \in 0 .. outcome[t].total - 1,
           NEW a, a = <<outcome[t].dev, outcome[t].off + g>>, a \in DOMAIN image
    PROVE  a \in DOMAIN image' /\ image'[a] = image[a]
<1>1. PICK d, o : d = outcome[t].dev /\ o = outcome[t].off + g
  OBVIOUS
<1>2. outcome[t].off \in Nat /\ outcome[t].total \in Nat /\ o \in Nat
  BY <1>1 DEF RestoreInv, RestoreTypes
<1>3. {job.off, job.done, job.left, job.total} \subseteq Nat /\ job.done + job.left = job.total
  BY DEF RestoreInv, CopyBounds
<1>4. d # job.dev \/ o < job.off \/ o >= job.off + job.total
  BY <1>1, <1>2, <1>3 DEF RestoreInv, OffRecord, Clear
<1>5. d # job.dev \/ o < job.off + job.done \/ o >= job.off + job.total
  BY <1>2, <1>3, <1>4
<1> QED
  BY <1>1, <1>2, <1>5, WriteKeeps

----------------------------------------------------------------------------
(* EmmcRestore: the steps of a call outside its copy.                      *)

\* What is on record of a restore that has not been done.
LEMMA NoOutcomeVals ==
    /\ NoOutcome.res = "none" /\ NoOutcome.off = 0 /\ NoOutcome.total = 0 /\ ~NoOutcome.emu
    /\ \A r : LET o == [NoOutcome EXCEPT !.res = r]
              IN  o.res = r /\ o.off = 0 /\ o.total = 0 /\ ~o.emu
<1>1. PICK no \in BOOLEAN : no = FALSE
  OBVIOUS
<1>2. PICK n : n = [res |-> "none", emu |-> no, dev |-> "none", off |-> 0, total |-> 0,
                    sure |-> no, astray |-> no]
  OBVIOUS
<1>3. n = NoOutcome
  BY <1>1, <1>2, Zenon DEF NoOutcome
<1>4. /\ n.res = "none" /\ n.off = 0 /\ n.total = 0 /\ ~n.emu
      /\ \A r : LET o == [n EXCEPT !.res = r]
                IN  o.res = r /\ o.off = 0 /\ o.total = 0 /\ ~o.emu
  BY <1>1, <1>2
<1> QED
  BY <1>3, <1>4

\* A step that is not part of a copy, or ends it.
LEMMA OutsideCopy ==
    ASSUME RestoreInv, RestoreTypes', UNCHANGED fixed, job'.pc # "copy",
           \A t \in Targets : outcome'[t] = outcome[t] \/ outcome'[t].res # "done",
           \/ image' = image
           \/ job.pc = "copy" /\ job.left > 0 /\ \E buf : image' = Written(buf)
    PROVE  RestoreInv'
<1>1. OnRecord'
  <2>1. CASE image' = image
    BY <2>1, RecordKept DEF RestoreInv
  <2>2. CASE job.pc = "copy" /\ job.left > 0 /\ \E buf : image' = Written(buf)
    <3>1. PICK buf : image' = Written(buf)
      BY <2>2
    <3>2. \A t \in Targets : outcome[t].res = "done" =>
            \A g \in 0 .. outcome[t].total - 1 :
               LET a == <<outcome[t].dev, outcome[t].off + g>>
               IN  a \in DOMAIN image => a \in DOMAIN image' /\ image'[a] = image[a]
      BY <2>2, <3>1, WriteClear
    <3> QED
      BY <3>2, RecordKept DEF RestoreInv
  <2> QED
    BY <2>1, <2>2
<1> QED
  BY <1>1 DEF RestoreInv, CopyBounds, InParts, WrittenSoFar, OffRecord

\* _restore_emmc_part returns.
LEMMA ReturnsTypes ==
    ASSUME RestoreTypes, job.pc # "idle", UNCHANGED fixed,
           NEW o, o.off \in Nat, o.total \in Nat, RestoreReturns(o)
    PROVE  /\ RestoreTypes' /\ job'.pc # "copy"
           /\ \A t \in Targets : outcome'[t] = IF t = Target THEN o ELSE outcome[t]
<1>1. PICK t0 \in Targets : t0 = Target
  BY TargetOK
<1>2. outcome' = [outcome EXCEPT ![t0] = o]
  BY <1>1 DEF RestoreReturns
<1>3. DOMAIN outcome = Targets
  BY DEF RestoreTypes
<1>4. \A t \in Targets : outcome'[t] = IF t = t0 THEN o ELSE outcome[t]
  BY <1>2, <1>3
<1>5. DOMAIN outcome' = Targets
  BY <1>2, <1>3
<1>6. \A t \in Targets : outcome'[t].off \in Nat /\ outcome'[t].total \in Nat
  BY <1>4 DEF RestoreTypes
<1>7. \/ job'.pc = "idle"
      \/ /\ job' = [pc |-> "next", button |-> job.button, emu |-> job.emu, k |-> job.k]
         /\ job.k < Len(RestoreOf[job.button])
  BY DEF RestoreReturns, NoJob
<1>8. job'.pc = "next" =>
        /\ job'.button = job.button /\ job'.emu = job.emu /\ job'.k = job.k
        /\ DOMAIN job' = {"pc", "button", "emu", "k"}
        /\ job.k < Len(RestoreOf[job.button])
  BY <1>7
<1>9. job'.pc \in {"idle", "next"}
  BY <1>7
<1>10. /\ job.button \in DOMAIN RestoreOf /\ job.emu \in BOOLEAN
       /\ job.k \in 1 .. Len(RestoreOf[job.button])
  BY DEF RestoreTypes
<1>11. Len(RestoreOf[job.button]) \in Nat
  BY <1>10 DEF RestoreOf
<1>12. RestoreTypes'
  BY <1>5, <1>6, <1>8, <1>9, <1>10, <1>11 DEF RestoreTypes, fixed
<1> QED
  BY <1>1, <1>4, <1>9, <1>12

\* It fails or is skipped.
LEMMA FailsStep ==
    ASSUME RestoreInv, job.pc # "idle", UNCHANGED fixed, NEW res, res # "done",
           RestoreReturns([NoOutcome EXCEPT !.res = res]),
           \/ image' = image
           \/ job.pc = "copy" /\ job.left > 0 /\ \E buf : image' = Written(buf)
    PROVE  RestoreInv'
<1>1. PICK o : o = [NoOutcome EXCEPT !.res = res]
  OBVIOUS
<1>2. o.res = res /\ o.off = 0 /\ o.total = 0
  BY <1>1, NoOutcomeVals
<1>3. RestoreReturns(o)
  BY <1>1
<1>4. /\ RestoreTypes' /\ job'.pc # "copy"
      /\ \A t \in Targets : outcome'[t] = IF t = Target THEN o ELSE outcome[t]
  BY <1>2, <1>3, ReturnsTypes DEF RestoreInv
<1>5. \A t \in Targets : outcome'[t] = outcome[t] \/ outcome'[t].res # "done"
  BY <1>2, <1>4
<1> QED
  BY <1>4, <1>5, OutsideCopy

LEMMA SelectedStep ==
    ASSUME RestoreInv, NEW b \in DOMAIN RestoreOf, NEW e \in BOOLEAN, restore_emmc_selected(b, e)
    PROVE  RestoreInv'
<1>1. UNCHANGED fixed /\ image' = image /\ outcome' = outcome
  BY DEF restore_emmc_selected
<1>2. job' = [pc |-> "open", button |-> b, emu |-> e, k |-> 1]
  BY DEF restore_emmc_selected
<1>3. job'.pc = "open" /\ job'.button = b /\ job'.emu = e /\ job'.k = 1
  BY <1>2
<1>4. 1 \in 1 .. Len(RestoreOf[b])
  BY DEF RestoreOf
<1>5. RestoreTypes'
  BY <1>1, <1>3, <1>4 DEF RestoreInv, RestoreTypes, fixed
<1> QED
  BY <1>1, <1>3, <1>5, OutsideCopy

LEMMA NextStep == ASSUME RestoreInv, NextTarget PROVE RestoreInv'
<1>1. UNCHANGED fixed /\ image' = image /\ outcome' = outcome
  BY DEF NextTarget
<1>2. /\ DOMAIN job = {"pc", "button", "emu", "k"} /\ job.k + 1 \in 1 .. Len(RestoreOf[job.button])
      /\ job.button \in DOMAIN RestoreOf /\ job.emu \in BOOLEAN
  BY DEF RestoreInv, RestoreTypes, NextTarget
<1>3. job' = [job EXCEPT !.pc = "open", !.k = @ + 1]
  BY DEF NextTarget
<1>4. /\ job'.pc = "open" /\ job'.button = job.button /\ job'.emu = job.emu /\ job'.k = job.k + 1
  BY <1>2, <1>3
<1>5. RestoreTypes'
  BY <1>1, <1>2, <1>4 DEF RestoreInv, RestoreTypes, fixed
<1> QED
  BY <1>1, <1>4, <1>5, OutsideCopy

LEMMA PowerCutStep == ASSUME RestoreInv, RestorePowerCut PROVE RestoreInv'
<1>1. UNCHANGED fixed /\ image' = image /\ job' = NoJob
  BY DEF RestorePowerCut
<1>2. PICK t0 \in Targets : t0 = Target
  BY TargetOK DEF RestoreInv, RestorePowerCut
<1>3. PICK o : o = [NoOutcome EXCEPT !.res = "failed"]
  OBVIOUS
<1>4. o.res = "failed" /\ o.off = 0 /\ o.total = 0
  BY <1>3, NoOutcomeVals
<1>5. outcome' = [outcome EXCEPT ![t0] = o]
  BY <1>2, <1>3 DEF RestorePowerCut
<1>6. DOMAIN outcome = Targets
  BY DEF RestoreInv, RestoreTypes
<1>7. DOMAIN outcome' = Targets /\ \A t \in Targets : outcome'[t] = IF t = t0 THEN o ELSE outcome[t]
  BY <1>5, <1>6
<1>8. job'.pc = "idle"
  BY <1>1 DEF NoJob
<1>9. \A t \in Targets : outcome'[t].off \in Nat /\ outcome'[t].total \in Nat
  BY <1>4, <1>7 DEF RestoreInv, RestoreTypes
<1>10. RestoreTypes'
  BY <1>1, <1>7, <1>8, <1>9 DEF RestoreInv, RestoreTypes, fixed
<1>11. \A t \in Targets : outcome'[t] = outcome[t] \/ outcome'[t].res # "done"
  BY <1>4, <1>7
<1> QED
  BY <1>1, <1>8, <1>10, <1>11, OutsideCopy

LEMMA RefusedStep ==
    ASSUME RestoreInv, RestoreSkips \/ RestoreRefused \/ RestoreReadFails PROVE RestoreInv'
<1>1. CASE RestoreSkips
  BY <1>1, FailsStep DEF RestoreSkips
<1>2. CASE RestoreRefused \/ RestoreReadFails
  BY <1>2, FailsStep DEF RestoreRefused, RestoreReadFails, RestoreFails
<1> QED
  BY <1>1, <1>2

----------------------------------------------------------------------------
(* EmmcRestore: opening.                                                   *)

\* What the copy is told to write.
LEMMA OpensSize ==
    ASSUME RestoreTypes, job.pc = "open", multi \/ RestoreFiles.single # NoFile, ~Refused
    PROVE  /\ FoundSize \in Nat /\ FoundSize <= Fits(Target, job.emu)
           /\ ~InPartFiles(Target) => backup[Target].single # NoFile /\ FoundSize = backup[Target].single
           /\ InPartFiles(Target) =>
                \E n \in 1 .. Len(backup[Target].parts) : FoundSize = SumOf(Target)[n]
<1>1. PICK t \in Targets : t = Target
  BY TargetOK
<1>2. PICK p \in Seq(Nat \ {0}) : p = backup[t].parts
  BY RestoreCard
<1>3. PICK len \in Nat : len = Len(p)
  OBVIOUS
<1>4. PICK room \in Nat \ {0} : room = RoomOf /\ room = Fits(Target, job.emu)
  BY <1>1, RestoreCard DEF RoomOf, Fits, BootUnits
<1>5. (multi <=> InPartFiles(t)) /\ RestoreFiles = backup[t]
  BY <1>1 DEF multi, InPartFiles, RestoreFiles
<1>6. PICK sum : sum = Before(p) /\ sum[0] = 0 /\ \A n \in 0 .. len : sum[n] \in Nat
  BY <1>3, BeforeVals
<1>7. CASE InPartFiles(t)
  <2>1. p # <<>>
    BY <1>2, <1>5, <1>7 DEF Refused
  <2>2. len # 0
    BY <1>3, <2>1
  <2> DEFINE S == {n \in 0 .. len : sum[n] >= room \/ n = len}
  <2>3. PICK n \in S : \A m \in S : n <= m
    <3>1. S \in SUBSET Nat /\ len \in S
      OBVIOUS
    <3> HIDE DEF S
    <3> QED
      BY <3>1, HasFirst
  <2>4. /\ n \in 0 .. len /\ (sum[n] >= room \/ n = len)
        /\ \A m \in 0 .. n - 1 : sum[m] < room
    BY <1>6, <2>3
  <2>5. PICK f : f = PartsFound
    OBVIOUS
  <2>6. f = CHOOSE i \in 0 .. len : /\ sum[i] >= room \/ i = len
                                    /\ \A m \in 0 .. i - 1 : sum[m] < room
    BY <1>2, <1>3, <1>4, <1>5, <1>6, <2>5, Zenon DEF PartsFound
  <2>7. f \in 0 .. len /\ (sum[f] >= room \/ f = len)
    BY <2>4, <2>6
  <2>8. f # 0
    BY <1>6, <2>2, <2>7
  <2>9. FoundSize = sum[f]
    BY <1>2, <1>5, <1>6, <1>7, <2>5 DEF FoundSize
  <2>10. SumOf(Target) = sum /\ Len(backup[Target].parts) = len
    BY <1>1, <1>2, <1>3, <1>6 DEF SumOf
  <2>11. sum[f] \in Nat /\ f \in 1 .. len
    BY <1>6, <2>7, <2>8
  <2>12. ~(FoundSize > room)
    BY <1>4 DEF Refused
  <2> QED
    BY <1>1, <1>4, <1>7, <2>9, <2>10, <2>11, <2>12
<1>8. CASE ~InPartFiles(t)
  <2>1. FoundSize = backup[t].single
    BY <1>5, <1>8 DEF FoundSize
  <2>2. backup[t].single \in Nat /\ backup[t].single # NoFile
    BY <1>5, <1>8, RestoreCard
  <2>3. ~(FoundSize > room)
    BY <1>4 DEF Refused
  <2> QED
    BY <1>1, <1>4, <1>8, <2>1, <2>2, <2>3
<1> QED
  BY <1>7, <1>8

\* _get_valid_partition finds one of the three.
LEMMA ValidFound ==
    ASSUME ValidPartition # 0
    PROVE  /\ ValidPartition \in 1 .. 3 /\ Suitable(ValidPartition)
           /\ \A j \in 1 .. ValidPartition - 1 : ~Suitable(j)
<1> DEFINE S == {k \in 1 .. 3 : Suitable(k)}
<1>1. S # {}
  BY DEF ValidPartition
<1>2. PICK n \in S : \A m \in S : n <= m
  <2>1. S \in SUBSET Nat
    OBVIOUS
  <2> HIDE DEF S
  <2> QED
    BY <1>1, <2>1, HasFirst
<1>3. n \in 1 .. 3 /\ Suitable(n) /\ \A j \in 1 .. n - 1 : ~Suitable(j)
  BY <1>2
<1>4. PICK v : v = ValidPartition
  OBVIOUS
<1>5. v = CHOOSE k \in 1 .. 3 : Suitable(k) /\ \A j \in 1 .. k - 1 : ~Suitable(j)
  BY <1>4, Zenon DEF ValidPartition
<1>6. v \in 1 .. 3 /\ Suitable(v) /\ \A j \in 1 .. v - 1 : ~Suitable(j)
  BY <1>3, <1>5, Zenon
<1> QED
  BY <1>4, <1>6

\* Where it goes.
LEMMA OffsetNat ==
    ASSUME RestoreTypes, job.pc = "open", job.emu => ValidPartition # 0 PROVE Offset \in Nat
<1>1. Target \in Targets /\ job.emu \in BOOLEAN
  BY TargetOK DEF RestoreTypes
<1>2. CASE ~job.emu
  BY <1>1, <1>2, RestoreCard DEF Offset
<1>3. CASE job.emu
  <2>1. PICK v \in 1 .. 3 : v = ValidPartition
    BY <1>3, ValidFound
  <2>2. PICK a \in 0 .. 2 : a = ActivePart
    BY DEF ActivePart
  <2>3. Offset = mbr[v].start + EmuOffset + BootUnits * a /\ mbr[v].start \in Nat
    BY <1>3, <2>1, <2>2, RestoreCard DEF Offset, SdOffset
  <2> QED
    BY <2>3 DEF EmuOffset, BootUnits
<1> QED
  BY <1>1, <1>2, <1>3

LEMMA OpensStep == ASSUME RestoreInv, RestoreOpens PROVE RestoreInv'
<1>0. /\ job.pc = "open" /\ (multi \/ RestoreFiles.single # NoFile) /\ ~Refused
      /\ (job.emu => ValidPartition # 0) /\ UNCHANGED fixed /\ image' = image
  BY DEF RestoreOpens
<1>1. PICK t \in Targets : t = Target
  BY <1>0, TargetOK DEF RestoreInv
<1>2. PICK m \in BOOLEAN : m = multi
  BY DEF multi
<1>3. PICK size, off \in Nat : size = FoundSize /\ off = Offset
  BY <1>0, OpensSize, OffsetNat DEF RestoreInv
<1>4. PICK dev, part, buf : /\ dev = Device /\ part = (IF job.emu THEN ValidPartition ELSE 0)
                            /\ buf = [j \in 0 .. Iter - 1 |-> Garbage]
  OBVIOUS
<1>5. job' = [pc |-> "copy", button |-> job.button, emu |-> job.emu, k |-> job.k,
              multi |-> m, idx |-> 0, fp |-> 0, bytesWritten |-> 0,
              left |-> size, total |-> size, done |-> 0, partStart |-> 0,
              dev |-> dev, off |-> off, part |-> part, buf |-> buf,
              verification |-> verif, tries |-> 0]
  BY <1>2, <1>3, <1>4, Zenon DEF RestoreOpens
<1>6. /\ job'.pc = "copy" /\ job'.button = job.button /\ job'.emu = job.emu /\ job'.k = job.k
      /\ job'.multi = m /\ job'.idx = 0 /\ job'.fp = 0 /\ job'.bytesWritten = 0
      /\ job'.left = size /\ job'.total = size /\ job'.done = 0 /\ job'.partStart = 0
      /\ job'.dev = dev /\ job'.off = off /\ job'.verification = verif
      /\ DOMAIN job' = CopyLocals
  BY <1>5 DEF CopyLocals
<1>7. Target' = t
  BY <1>1, <1>6 DEF Target
<1>8. backup' = backup /\ mbr' = mbr /\ verif' = verif
  BY <1>0 DEF fixed
<1>9. outcome' = [s \in Targets |-> IF Overwritten(s) THEN NoOutcome ELSE outcome[s]]
  BY DEF RestoreOpens
<1>10. \A s \in Targets : outcome'[s] = IF Overwritten(s) THEN NoOutcome ELSE outcome[s]
  BY <1>9
<1>11. RestoreTypes'
  <2>1. DOMAIN outcome' = Targets /\ \A s \in Targets : outcome'[s].off \in Nat /\ outcome'[s].total \in Nat
    BY <1>9, <1>10, NoOutcomeVals DEF RestoreInv, RestoreTypes
  <2> QED
    BY <1>0, <1>6, <1>8, <2>1 DEF RestoreInv, RestoreTypes
<1>12. /\ size <= Fits(t, job.emu)
       /\ ~InPartFiles(t) => backup[t].single # NoFile /\ size = backup[t].single
       /\ InPartFiles(t) => \E n \in 1 .. Len(backup[t].parts) : size = SumOf(t)[n]
  BY <1>0, <1>1, <1>3, OpensSize DEF RestoreInv
<1>13. PICK p \in Seq(Nat \ {0}) : p = backup[t].parts
  BY RestoreCard DEF RestoreInv
<1>14. CopyBounds'
  <2>1. m <=> InPartFiles(t)
    BY <1>1, <1>2 DEF multi, InPartFiles, RestoreFiles
  <2>2. InPartFiles(t) => 1 \in 1 .. Len(p) /\ 0 <= p[1]
    BY <1>12, <1>13
  <2>3. verif \in 0 .. 2
    BY DEF RestoreInv, RestoreTypes
  <2> QED
    BY <1>6, <1>7, <1>8, <1>12, <1>13, <2>1, <2>2, <2>3 DEF CopyBounds, InPartFiles, Fits
<1>15. InParts'
  <2>1. SUFFICES ASSUME InPartFiles(t) PROVE InParts'
    BY <1>7, <1>8 DEF InParts, InPartFiles
  <2>2. PICK n \in 1 .. Len(p) : size = Before(p)[n]
    BY <1>12, <1>13, <2>1 DEF SumOf
  <2>3. Before(p)[0] = 0
    BY BeforeVals
  <2>4. 0 <= p[1] /\ 0 % Iter = 0
    BY <2>2 DEF Iter
  <2> QED
    BY <1>6, <1>7, <1>8, <1>13, <2>2, <2>3, <2>4 DEF InParts, SumOf
<1>16. WrittenSoFar'
  BY <1>6 DEF WrittenSoFar
<1>17. OffRecord'
  <2>1. outcome'[t].res # "done"
    BY <1>1, <1>10, NoOutcomeVals DEF Overwritten
  <2>2. ASSUME NEW s \in Targets PROVE Clear(outcome[s])'
    <3>1. CASE Overwritten(s)
      BY <1>10, <3>1, NoOutcomeVals DEF Clear
    <3>2. CASE ~Overwritten(s)
      <4>1. outcome'[s] = outcome[s]
        BY <1>10, <3>2
      <4>2. outcome[s].off \in Nat /\ outcome[s].total \in Nat
        BY DEF RestoreInv, RestoreTypes
      <4> QED
        BY <1>3, <1>4, <1>6, <3>2, <4>1, <4>2 DEF Overwritten, Clear
    <3> QED
      BY <3>1, <3>2
  <2> QED
    BY <1>7, <2>1, <2>2 DEF OffRecord
<1>18. OnRecord'
  <2>1. \A s \in Targets : outcome'[s] = outcome[s] \/ outcome'[s].res # "done"
    BY <1>10, NoOutcomeVals
  <2> QED
    BY <1>0, <2>1, RecordKept DEF RestoreInv
<1> QED
  BY <1>11, <1>14, <1>15, <1>16, <1>17, <1>18 DEF RestoreInv

----------------------------------------------------------------------------
(* EmmcRestore: the copy.                                                  *)

\* Part files of whole chunks, but for the last.
WholeChunks(p) == \A i \in 1 .. Len(p) - 1 : p[i] % 2 = 0 /\ p[i] < 6

LEMMA SmallMod == ASSUME NEW x \in Nat PROVE x % 6 \in Nat /\ x % 6 <= x /\ (x < 6 => x % 6 = x)
OBVIOUS

LEMMA EvenStep ==
    ASSUME NEW x \in Nat, NEW q \in Nat, x % 2 = 0, q % 2 = 0, x < q PROVE x + 2 <= q /\ (x + 2) % 2 = 0
OBVIOUS

\* A chunk ends inside its part file of q units, and the byte count says how far it is;
\* more: other files follow.
ChunkState(q, fp, b, left, more, num) ==
    /\ {q, fp, b, left} \subseteq Nat /\ more \in BOOLEAN /\ num \in 0 .. 2
    /\ num <= left /\ (left < 2 => num = left) /\ (left >= 2 => num = 2)
    /\ fp <= q /\ b <= fp /\ b < q
    /\ more => left > q - fp /\ fp % 2 = 0 /\ b = fp /\ q % 2 = 0 /\ q < 6
    /\ ~more => left = q - fp
ChunkEnds(q, fp, b, more, num) ==
    /\ num <= q - fp /\ (b + num) % 6 <= fp + num /\ (b + num) % 6 \in Nat
    /\ more => (fp + num) % 2 = 0 /\ (b + num) % 6 = fp + num

LEMMA ChunkProgress ==
    ASSUME NEW q, NEW fp, NEW b, NEW left, NEW more, NEW num, ChunkState(q, fp, b, left, more, num)
    PROVE  ChunkEnds(q, fp, b, more, num)
<1>0. SUFFICES /\ num <= q - fp /\ (b + num) % 6 <= fp + num /\ (b + num) % 6 \in Nat
               /\ more => (fp + num) % 2 = 0 /\ (b + num) % 6 = fp + num
  BY DEF ChunkEnds
<1> USE DEF ChunkState
<1>1. PICK x \in Nat : x = b + num
  OBVIOUS
<1>2. x % 6 \in Nat /\ x % 6 <= x /\ (x < 6 => x % 6 = x)
  BY SmallMod
<1>3. CASE more
  <2>1. fp + 2 <= q /\ (fp + 2) % 2 = 0
    BY <1>3, EvenStep
  <2>2. num = 2
    BY <1>3, <2>1
  <2>3. x = fp + 2 /\ x < 6
    BY <1>1, <1>3, <2>1, <2>2
  <2> QED
    BY <1>1, <1>2, <2>1, <2>2, <2>3
<1>4. CASE ~more
  BY <1>1, <1>2, <1>4
<1> QED
  BY <1>3, <1>4

\* Where n files make up the whole, what is left is the rest of the open file, or more.
LEMMA PartsLeft ==
    ASSUME NEW p \in Seq(Nat \ {0}), NEW n \in 1 .. Len(p), NEW idx \in 0 .. n - 1
    PROVE  /\ Before(p)[idx] \in Nat /\ Before(p)[idx + 1] \in Nat /\ Before(p)[n] \in Nat
           /\ Before(p)[idx + 1] = Before(p)[idx] + p[idx + 1]
           /\ idx + 1 < n => Before(p)[idx + 1] < Before(p)[n]
<1>1. idx + 1 \in 1 .. Len(p) /\ idx + 1 - 1 = idx /\ idx \in 0 .. Len(p) /\ n \in 0 .. Len(p)
  OBVIOUS
<1>2. /\ Before(p)[idx + 1] = Before(p)[idx] + p[idx + 1]
      /\ Before(p)[idx + 1] \in Nat /\ Before(p)[idx] \in Nat /\ Before(p)[n] \in Nat
  <2>1. \A i \in 1 .. Len(p) : Before(p)[i] = Before(p)[i - 1] + p[i]
    BY BeforeVals
  <2>2. \A i \in 0 .. Len(p) : Before(p)[i] \in Nat
    BY BeforeVals
  <2> QED
    BY <1>1, <2>1, <2>2
<1>3. p[idx + 1] \in Nat
  BY <1>1
<1>4. idx + 1 < n => Before(p)[idx + 1] < Before(p)[n]
  BY <1>1, BeforeGrows
<1> QED
  BY <1>2, <1>3, <1>4

\* Regular part files are whole chunks.
LEMMA RegularChunks ==
    ASSUME NEW t, InPartFiles(t), Regular(t) PROVE WholeChunks(backup[t].parts)
BY DEF InPartFiles, Regular, WholeChunks, Iter, Wrap32

\* How far a chunk of regular files gets.
ChunkGoes(n) ==
    /\ job.total = SumOf(Target)[n] /\ job.idx \in 0 .. n - 1
    /\ job.partStart = SumOf(Target)[job.idx]
    /\ job.fp + Num <= backup[Target].parts[job.idx + 1]
    /\ job.done + Num = job.partStart + (job.fp + Num)
    /\ (job.bytesWritten + Num) % Wrap32 <= job.fp + Num
    /\ job.idx + 1 < n => /\ (job.fp + Num) % Iter = 0
                          /\ (job.bytesWritten + Num) % Wrap32 = job.fp + Num

PartState(p, n, i, q, fp, left) ==
    /\ p \in Seq(Nat \ {0}) /\ n \in 1 .. Len(p) /\ i \in 0 .. n - 1
    /\ fp \in Nat /\ left \in Nat /\ q \in Nat /\ q = p[i + 1]
    /\ Before(p)[i] + fp + left = Before(p)[n]

LEMMA PartsRest ==
    ASSUME NEW p, NEW n, NEW i, NEW q, NEW fp, NEW left, PartState(p, n, i, q, fp, left)
    PROVE  (i + 1 < n => left > q - fp) /\ (i + 1 = n => left = q - fp)
<1>1. /\ Before(p)[i] \in Nat /\ Before(p)[i + 1] \in Nat /\ Before(p)[n] \in Nat
      /\ Before(p)[i + 1] = Before(p)[i] + p[i + 1]
      /\ i + 1 < n => Before(p)[i + 1] < Before(p)[n]
  <2>1. p \in Seq(Nat \ {0}) /\ n \in 1 .. Len(p) /\ i \in 0 .. n - 1
    BY DEF PartState
  <2> QED
    BY <2>1, PartsLeft, Zenon
<1>2. PICK s1, s2, s3 \in Nat :
        /\ s1 + fp + left = s3 /\ s2 = s1 + q
        /\ (i + 1 < n => s2 < s3) /\ (i + 1 = n => s2 = s3)
  BY <1>1 DEF PartState
<1>3. fp \in Nat /\ left \in Nat /\ q \in Nat
  BY DEF PartState
<1>4. CASE i + 1 < n
  BY <1>2, <1>3, <1>4
<1>5. CASE i + 1 = n
  BY <1>2, <1>3, <1>5
<1> QED
  BY <1>4, <1>5

LEMMA ChunkOfParts ==
    ASSUME RestoreInv, job.pc = "copy", job.left > 0, ~PartWritten, Regular(Target),
           InPartFiles(Target)
    PROVE  /\ Got = Num /\ FileBase + job.fp = job.done
           /\ \E n \in 1 .. Len(backup[Target].parts) : ChunkGoes(n)
<1>1. PICK t \in Targets : t = Target
  BY TargetOK DEF RestoreInv
<1>2. PICK p \in Seq(Nat \ {0}) : p = backup[t].parts
  BY RestoreCard DEF RestoreInv
<1>3. WholeChunks(p)
  BY <1>1, <1>2, RegularChunks
<1>4. PICK fp \in Nat, b \in Nat, left \in Nat, done \in Nat, start \in Nat, i \in Nat :
        /\ fp = job.fp /\ b = job.bytesWritten /\ left = job.left /\ done = job.done
        /\ start = job.partStart /\ i = job.idx
        /\ done + left = job.total
  BY DEF RestoreInv, CopyBounds
<1>5. PICK n \in 1 .. Len(p) :
        /\ job.total = Before(p)[n] /\ i \in 0 .. n - 1 /\ start = Before(p)[i]
        /\ fp <= p[i + 1] /\ done = start + fp /\ b <= fp
        /\ i + 1 < n => fp % Iter = 0 /\ b = fp
  BY <1>1, <1>2, <1>4 DEF RestoreInv, InParts, SumOf
<1>6. i \in 0 .. n - 1
  BY <1>5
<1>7. Before(p)[i] + fp + left = Before(p)[n] /\ done = start + fp /\ start = Before(p)[i]
  BY <1>4, <1>5
<1>8. fp <= p[i + 1] /\ b <= fp /\ (i + 1 < n => fp % 2 = 0 /\ b = fp)
  BY <1>5 DEF Iter
<1>9. PICK q \in Nat : q = p[i + 1]
  BY <1>6
<1>10. job.multi
  BY DEF RestoreInv, CopyBounds
<1>11. FileUnits = q /\ FileBase = start
  BY <1>1, <1>2, <1>4, <1>7, <1>9, <1>10 DEF FileUnits, FileBase, RestoreFiles
<1>12. b < q
  BY <1>4, <1>9, <1>10, <1>11 DEF PartWritten
<1>13. PICK num \in 0 .. 2 :
         num = Num /\ num <= left /\ (left < 2 => num = left) /\ (left >= 2 => num = 2)
  BY <1>4 DEF Num, Smaller, Iter
<1>14. PICK more \in BOOLEAN : (more <=> i + 1 < n) /\ ChunkEnds(q, fp, b, more, num)
  <2>1. PartState(p, n, i, q, fp, left)
    BY <1>6, <1>7, <1>9 DEF PartState
  <2>2. (i + 1 < n => left > q - fp) /\ (i + 1 = n => left = q - fp)
    BY <2>1, PartsRest
  <2>3. i + 1 < n => q % 2 = 0 /\ q < 6
    <3>1. i + 1 < n => i + 1 \in 1 .. Len(p) - 1
      BY <2>1 DEF PartState
    <3> QED
      BY <1>3, <1>9, <3>1 DEF WholeChunks
  <2>4. i + 1 < n \/ i + 1 = n
    BY <1>6
  <2>5. CASE i + 1 < n
    <3>1. ChunkState(q, fp, b, left, TRUE, num)
      BY <1>8, <1>9, <1>12, <1>13, <2>2, <2>3, <2>5 DEF ChunkState
    <3> QED
      BY <2>5, <3>1, ChunkProgress
  <2>6. CASE i + 1 = n
    <3>1. ChunkState(q, fp, b, left, FALSE, num)
      BY <1>8, <1>9, <1>12, <1>13, <2>2, <2>6 DEF ChunkState
    <3>2. ~(i + 1 < n)
      BY <2>6
    <3> QED
      BY <3>1, <3>2, ChunkProgress
  <2> QED
    BY <2>4, <2>5, <2>6
<1>15. num <= q - fp /\ fp + num <= q
  BY <1>14 DEF ChunkEnds
<1>16. Got = num
  <2>1. Got = IF num < q - fp THEN num ELSE q - fp
    BY <1>4, <1>11, <1>13 DEF Got, Smaller
  <2> QED
    BY <1>15, <2>1
<1>17. fp + num <= p[i + 1] /\ done + num = start + (fp + num)
  <2>1. fp + num <= p[i + 1]
    BY <1>9, <1>15
  <2>2. done = start + fp
    BY <1>7
  <2>3. done + num = start + (fp + num)
    BY <2>2
  <2> QED BY <2>1, <2>3
<1>18. job.total = SumOf(Target)[n] /\ job.partStart = SumOf(Target)[job.idx]
  BY <1>1, <1>2, <1>4, <1>5, <1>7 DEF SumOf
<1>19. /\ (b + num) % Wrap32 <= fp + num
       /\ i + 1 < n => (fp + num) % Iter = 0 /\ (b + num) % Wrap32 = fp + num
  BY <1>14 DEF ChunkEnds, Wrap32, Iter
<1>20. ChunkGoes(n)
  BY <1>1, <1>2, <1>4, <1>6, <1>13, <1>17, <1>18, <1>19 DEF ChunkGoes
<1> QED
  BY <1>1, <1>2, <1>4, <1>7, <1>11, <1>13, <1>16, <1>20

\* The same in a single file.
LEMMA ChunkOfFile ==
    ASSUME RestoreInv, job.pc = "copy", job.left > 0, ~InPartFiles(Target)
    PROVE  Got = Num /\ FileBase + job.fp = job.done /\ job.multi = FALSE
<1>1. job.multi = FALSE
  BY DEF RestoreInv, CopyBounds
<1>2. PICK fp \in Nat, left \in Nat, total \in Nat :
        fp = job.fp /\ left = job.left /\ total = job.total /\ fp = job.done /\ fp + left = total
        /\ total = backup[Target].single
  BY DEF RestoreInv, CopyBounds
<1>3. FileUnits = total /\ FileBase = 0
  BY <1>1, <1>2 DEF FileUnits, FileBase, RestoreFiles
<1>4. PICK num \in Nat : num = Num /\ num <= left
  BY <1>2 DEF Num, Smaller, Iter
<1>5. Got = num
  BY <1>2, <1>3, <1>4 DEF Got, Smaller
<1> QED
  BY <1>1, <1>2, <1>3, <1>4, <1>5

\* Irregular files too are read within their bounds.
LEMMA GotBound ==
    ASSUME RestoreInv, job.pc = "copy", job.left > 0, InPartFiles(Target)
    PROVE  Got \in Nat /\ job.fp + Got <= backup[Target].parts[job.idx + 1]
<1>1. PICK t \in Targets : t = Target
  BY TargetOK DEF RestoreInv
<1>2. PICK p \in Seq(Nat \ {0}) : p = backup[t].parts
  BY RestoreCard DEF RestoreInv
<1>3. PICK q \in Nat : q = p[job.idx + 1]
  BY <1>1, <1>2 DEF RestoreInv, CopyBounds
<1>4. FileUnits = q /\ job.fp <= q /\ job.fp \in Nat
  BY <1>1, <1>2, <1>3 DEF RestoreInv, CopyBounds, FileUnits, RestoreFiles
<1>5. Num \in 1 .. 2
  BY ChunkSize
<1> QED
  BY <1>1, <1>2, <1>3, <1>4, <1>5 DEF Got, Smaller

\* What the copy has written so far stays.
LEMMA CopyKeeps ==
    ASSUME RestoreInv, job.pc = "copy", job.left > 0, NEW buf, image' = Written(buf),
           UNCHANGED fixed, outcome' = outcome,
           NEW t, t = Target, NEW dev, dev = job.dev, NEW off, off = job.off
    PROVE  /\ OnRecord'
           /\ Regular(t) => \A g \in 0 .. job.done - 1 : Holds(t, dev, off, g)'
           /\ Regular(t) /\ verif = 2 /\ job.verification # 0 /\ ~job.emu =>
                \A g \in 0 .. job.partStart - 1 : Exact(t, dev, off, g)'
<1>1. OnRecord'
  <2>1. \A s \in Targets : outcome[s].res = "done" =>
          \A g \in 0 .. outcome[s].total - 1 :
             LET a == <<outcome[s].dev, outcome[s].off + g>>
             IN  a \in DOMAIN image => a \in DOMAIN image' /\ image'[a] = image[a]
    BY WriteClear
  <2> QED
    BY <2>1, RecordKept DEF RestoreInv
<1>2. {job.off, job.done, job.partStart} \subseteq Nat /\ job.partStart <= job.done
  BY DEF RestoreInv, CopyBounds
<1>3. ASSUME NEW g \in 0 .. job.done - 1, <<dev, off + g>> \in DOMAIN image
      PROVE  <<dev, off + g>> \in DOMAIN image' /\ image'[<<dev, off + g>>] = image[<<dev, off + g>>]
  <2>1. PICK o \in Nat : o = off + g /\ o < job.off + job.done
    BY <1>2
  <2> QED
    BY <1>3, <2>1, WriteKeeps
<1>4. Regular(t) => \A g \in 0 .. job.done - 1 : Holds(t, dev, off, g)'
  <2>1. Regular(t) => \A g \in 0 .. job.done - 1 : Holds(t, dev, off, g)
    BY DEF RestoreInv, WrittenSoFar
  <2> QED
    BY <1>3, <2>1 DEF Holds
<1>5. Regular(t) /\ verif = 2 /\ job.verification # 0 /\ ~job.emu =>
        \A g \in 0 .. job.partStart - 1 : Exact(t, dev, off, g)'
  <2>1. Regular(t) /\ verif = 2 /\ job.verification # 0 /\ ~job.emu =>
          \A g \in 0 .. job.partStart - 1 : Exact(t, dev, off, g)
    BY DEF RestoreInv, WrittenSoFar
  <2>2. \A g \in 0 .. job.partStart - 1 : g \in 0 .. job.done - 1
    BY <1>2
  <2> QED
    BY <1>3, <2>1, <2>2 DEF Exact
<1> QED
  BY <1>1, <1>4, <1>5

\* The chunk is the one that belongs there, or what the card did not keep.
LEMMA ChunkPuts ==
    ASSUME RestoreInv, RestoreChunk, Regular(Target), NEW t, t = Target,
           NEW dev, dev = job.dev, NEW off, off = job.off, NEW j \in 0 .. Num - 1,
           NEW g, g = job.done + j
    PROVE  Holds(t, dev, off, g)'
<1>0. job.pc = "copy" /\ job.left > 0 /\ ~PartWritten
  BY DEF RestoreChunk
<1>1. Got = Num /\ FileBase + job.fp = job.done
  BY <1>0, ChunkOfParts, ChunkOfFile
<1>2. PICK num \in 1 .. 2 : num = Num
  BY <1>0, ChunkSize
<1>3. PICK done, fp, o \in Nat : done = job.done /\ fp = job.fp /\ o = job.off
  BY <1>0 DEF RestoreInv, CopyBounds
<1>4. PICK base \in Int : base = FileBase /\ base + fp = done
  <2>1. InPartFiles(Target) => FileBase \in Int
    <3>1. ASSUME InPartFiles(Target) PROVE FileBase = job.partStart
      <4>1. PICK s \in Targets : s = Target
        BY <1>0, TargetOK DEF RestoreInv
      <4> QED
        BY <1>0, <3>1 DEF RestoreInv, InParts, CopyBounds, FileBase, SumOf, RestoreFiles
    <3> QED
      BY <1>0, <3>1 DEF RestoreInv, CopyBounds
  <2>2. ~InPartFiles(Target) => FileBase = 0
    BY <1>0 DEF RestoreInv, CopyBounds, FileBase
  <2> QED
    BY <1>1, <1>3, <2>1, <2>2
<1>5. ReadBuf[j] = <<t, done + j>>
  <2>1. j \in 0 .. Iter - 1 /\ j < Got
    BY <1>1, <1>2 DEF Iter
  <2>2. base + (fp + j) = done + j
    BY <1>2, <1>3, <1>4
  <2>3. ReadBuf[j] = Content(fp + j)
    BY <1>3, <2>1 DEF ReadBuf
  <2> QED
    BY <1>4, <2>2, <2>3 DEF Content
<1>6. \/ image' = Written(ReadBuf)
      \/ image' = Written([i \in 0 .. Iter - 1 |-> Bad])
  BY DEF RestoreChunk, Torn
<1>7. /\ <<dev, off + done + j>> \in DOMAIN image'
      /\ image'[<<dev, off + done + j>>] \in {<<t, done + j>>, Bad}
  <2>1. CASE image' = Written(ReadBuf)
    BY <1>0, <1>3, <1>5, <2>1, WritePuts
  <2>2. CASE image' = Written([i \in 0 .. Iter - 1 |-> Bad])
    <3>1. PICK bad : bad = [i \in 0 .. Iter - 1 |-> Bad]
      OBVIOUS
    <3>2. bad[j] = Bad
      BY <1>2, <3>1 DEF Iter
    <3> QED
      BY <1>0, <1>3, <2>2, <3>1, <3>2, WritePuts
  <2> QED
    BY <1>6, <2>1, <2>2
<1>8. off + done + j = off + g /\ done + j = g
  BY <1>2, <1>3
<1> QED
  BY <1>3, <1>7, <1>8 DEF Holds

LEMMA RestoreChunkStep == ASSUME RestoreInv, RestoreChunk PROVE RestoreInv'
<1>0. /\ job.pc = "copy" /\ job.left > 0 /\ ~PartWritten /\ UNCHANGED fixed /\ outcome' = outcome
  BY DEF RestoreChunk
<1>1. PICK t \in Targets : t = Target
  BY <1>0, TargetOK DEF RestoreInv
<1>2. PICK num \in 1 .. 2 : num = Num /\ num <= job.left
  BY <1>0, ChunkSize
<1>3. PICK got \in Nat : got = Got
  <2>1. CASE InPartFiles(Target)
    BY <1>0, <2>1, GotBound
  <2>2. CASE ~InPartFiles(Target)
    <3>1. Got = num
      BY <1>0, <1>2, <2>2, ChunkOfFile
    <3>2. num \in Nat
      OBVIOUS
    <3> QED
      BY <3>1, <3>2
  <2> QED
    BY <2>1, <2>2
<1>4. PICK wr \in Nat : wr = (job.bytesWritten + num) % Wrap32
  BY <1>0, <1>2, SmallMod DEF RestoreInv, CopyBounds, Wrap32
<1>5. job' = [job EXCEPT !.fp = @ + got, !.buf = ReadBuf, !.done = @ + num, !.left = @ - num,
                         !.bytesWritten = wr, !.tries = 0]
  BY <1>2, <1>3, <1>4 DEF RestoreChunk
<1>6. DOMAIN job = CopyLocals
  BY <1>0 DEF RestoreInv, RestoreTypes
<1>7. /\ job'.pc = "copy" /\ job'.button = job.button /\ job'.emu = job.emu /\ job'.k = job.k
      /\ job'.multi = job.multi /\ job'.idx = job.idx /\ job'.fp = job.fp + got
      /\ job'.bytesWritten = wr /\ job'.left = job.left - num /\ job'.total = job.total
      /\ job'.done = job.done + num /\ job'.partStart = job.partStart /\ job'.dev = job.dev
      /\ job'.off = job.off /\ job'.verification = job.verification /\ DOMAIN job' = CopyLocals
  BY <1>0, <1>5, <1>6 DEF CopyLocals
<1>8. Target' = t
  BY <1>1, <1>7 DEF Target
<1>9. backup' = backup /\ mbr' = mbr /\ verif' = verif
  BY <1>0 DEF fixed
<1>10. RestoreTypes'
  BY <1>0, <1>7, <1>9 DEF RestoreInv, RestoreTypes
<1>11. CopyBounds'
  <2>1. InPartFiles(t) => job.fp + got <= backup[t].parts[job.idx + 1]
    BY <1>0, <1>1, <1>3, GotBound
  <2>2. ~InPartFiles(t) => got = num
    BY <1>0, <1>1, <1>2, <1>3, ChunkOfFile
  <2>3. /\ job.done + num \in Nat /\ job.left - num \in Nat /\ job.fp + got \in Nat
        /\ (job.done + num) + (job.left - num) = job.total /\ job.partStart <= job.done + num
    <3>1. /\ {job.done, job.left, job.total, job.fp, job.partStart} \subseteq Nat
          /\ job.done + job.left = job.total /\ job.partStart <= job.done
      BY <1>0 DEF RestoreInv, CopyBounds
    <3>2. PICK d \in Nat, l \in Nat, tt \in Nat, fp \in Nat, s \in Nat :
             d = job.done /\ l = job.left /\ tt = job.total /\ fp = job.fp /\ s = job.partStart
      BY <3>1
    <3>3. num \in Nat /\ num <= l /\ d + l = tt /\ s <= d
      BY <1>2, <3>1, <3>2
    <3>4. /\ d + num \in Nat /\ l - num \in Nat /\ fp + got \in Nat
          /\ (d + num) + (l - num) = tt /\ s <= d + num
      BY <3>3
    <3> QED
      BY <3>2, <3>4
  <2> QED
    BY <1>0, <1>1, <1>7, <1>8, <1>9, <2>1, <2>2, <2>3 DEF RestoreInv, CopyBounds, InPartFiles, Fits
<1>12. InParts'
  <2>1. SUFFICES ASSUME InPartFiles(t), Regular(t) PROVE InParts'
    BY <1>8, <1>9 DEF InParts, InPartFiles, Regular
  <2>2. PICK n \in 1 .. Len(backup[t].parts) : ChunkGoes(n)
    BY <1>0, <1>1, <2>1, ChunkOfParts
  <2>3. got = num
    BY <1>0, <1>1, <1>2, <1>3, <2>1, ChunkOfParts
  <2> QED
    BY <1>1, <1>2, <1>4, <1>7, <1>8, <1>9, <2>2, <2>3 DEF InParts, ChunkGoes, SumOf
<1>13. PICK dev, off : dev = job.dev /\ off = job.off
  OBVIOUS
<1>14. \E buf : image' = Written(buf)
  BY DEF RestoreChunk, Torn
<1>15. PICK buf : image' = Written(buf)
  BY <1>14
<1>16. /\ OnRecord'
       /\ Regular(t) => \A g \in 0 .. job.done - 1 : Holds(t, dev, off, g)'
       /\ Regular(t) /\ verif = 2 /\ job.verification # 0 /\ ~job.emu =>
            \A g \in 0 .. job.partStart - 1 : Exact(t, dev, off, g)'
  BY <1>0, <1>1, <1>13, <1>15, CopyKeeps
<1>17. WrittenSoFar'
  <2>1. SUFFICES ASSUME Regular(t) PROVE WrittenSoFar'
    BY <1>8, <1>9 DEF WrittenSoFar, Regular
  <2>2. \A g \in 0 .. job.done + num - 1 : Holds(t, dev, off, g)'
    <3>1. SUFFICES ASSUME NEW g \in 0 .. job.done + num - 1 PROVE Holds(t, dev, off, g)'
      OBVIOUS
    <3>0. job.done \in Nat
      BY <1>0 DEF RestoreInv, CopyBounds
    <3>2. CASE g < job.done
      <4>1. g \in 0 .. job.done - 1
        BY <1>2, <3>0, <3>2
      <4> QED
        BY <1>16, <2>1, <4>1
    <3>3. CASE g >= job.done
      <4>1. PICK j \in 0 .. num - 1 : g = job.done + j
        <5>1. g - job.done \in 0 .. num - 1 /\ g = job.done + (g - job.done)
          BY <1>2, <3>0, <3>3
        <5> QED
          BY <5>1
      <4> QED
        BY <1>1, <1>2, <1>13, <2>1, <4>1, ChunkPuts
    <3> QED
      BY <1>2, <3>0, <3>2, <3>3
  <2>3. \A g \in 0 .. job'.done - 1 : Holds(Target, job.dev, job.off, g)'
    <3>1. SUFFICES ASSUME NEW g \in 0 .. job'.done - 1 PROVE Holds(Target, job.dev, job.off, g)'
      OBVIOUS
    <3>0. job'.dev = job.dev /\ job'.off = job.off /\ job'.done = job.done + num /\ job.done \in Nat
      BY <1>0, <1>7 DEF RestoreInv, CopyBounds
    <3>2. job'.dev = dev /\ job'.off = off /\ g \in 0 .. job.done + num - 1
      BY <1>13, <3>0
    <3>3. Holds(t, dev, off, g)'
      BY <2>2, <3>2
    <3> QED
      BY <1>8, <3>2, <3>3 DEF Holds
  <2>4. verif' = 2 /\ job'.verification # 0 /\ ~job'.emu =>
          \A g \in 0 .. job'.partStart - 1 : Exact(Target, job.dev, job.off, g)'
    BY <1>7, <1>8, <1>9, <1>13, <1>16, <2>1 DEF Exact
  <2> QED
    BY <2>3, <2>4 DEF WrittenSoFar
<1>18. OffRecord'
  BY <1>0, <1>1, <1>7, <1>8 DEF RestoreInv, OffRecord, Clear
<1> QED
  BY <1>10, <1>11, <1>12, <1>16, <1>17, <1>18 DEF RestoreInv

\* A write fails.
LEMMA WriteFailsStep == ASSUME RestoreInv, RestoreWriteFails PROVE RestoreInv'
<1>0. /\ job.pc = "copy" /\ job.left > 0 /\ ~PartWritten /\ UNCHANGED fixed
      /\ \E buf : image' = Written(buf)
  BY DEF RestoreWriteFails, Torn
<1>1. CASE RestoreFails
  BY <1>0, <1>1, FailsStep DEF RestoreFails
<1>2. CASE job' = [job EXCEPT !.tries = @ + 1] /\ outcome' = outcome
  <2>1. DOMAIN job = CopyLocals
    BY <1>0 DEF RestoreInv, RestoreTypes
  <2>2. /\ job'.pc = "copy" /\ job'.button = job.button /\ job'.emu = job.emu /\ job'.k = job.k
        /\ job'.multi = job.multi /\ job'.idx = job.idx /\ job'.fp = job.fp
        /\ job'.bytesWritten = job.bytesWritten /\ job'.left = job.left /\ job'.total = job.total
        /\ job'.done = job.done /\ job'.partStart = job.partStart /\ job'.dev = job.dev
        /\ job'.off = job.off /\ job'.verification = job.verification /\ DOMAIN job' = CopyLocals
    BY <1>0, <1>2, <2>1 DEF CopyLocals
  <2>3. Target' = Target
    BY <2>2 DEF Target
  <2>4. backup' = backup /\ mbr' = mbr /\ verif' = verif
    BY <1>0 DEF fixed
  <2>5. PICK t, dev, off : t = Target /\ dev = job.dev /\ off = job.off
    OBVIOUS
  <2>6. PICK buf : image' = Written(buf)
    BY <1>0
  <2>7. /\ OnRecord'
        /\ Regular(t) => \A g \in 0 .. job.done - 1 : Holds(t, dev, off, g)'
        /\ Regular(t) /\ verif = 2 /\ job.verification # 0 /\ ~job.emu =>
             \A g \in 0 .. job.partStart - 1 : Exact(t, dev, off, g)'
    BY <1>0, <1>2, <2>5, <2>6, CopyKeeps
  <2>8. RestoreTypes'
    BY <1>0, <1>2, <2>2, <2>4 DEF RestoreInv, RestoreTypes
  <2>9. CopyBounds'
    BY <1>0, <2>2, <2>3, <2>4 DEF RestoreInv, CopyBounds, InPartFiles, Fits
  <2>10. InParts'
    BY <1>0, <2>2, <2>3, <2>4 DEF RestoreInv, InParts, InPartFiles, SumOf, Regular
  <2>11. WrittenSoFar'
    BY <2>2, <2>3, <2>4, <2>5, <2>7 DEF WrittenSoFar, Regular
  <2>12. OffRecord'
    BY <1>0, <1>2, <2>2, <2>3 DEF RestoreInv, OffRecord, Clear
  <2> QED
    BY <2>7, <2>8, <2>9, <2>10, <2>11, <2>12 DEF RestoreInv
<1> QED
  BY <1>1, <1>2 DEF RestoreWriteFails

----------------------------------------------------------------------------
(* EmmcRestore: the end of a part file.                                    *)

\* Where a copy of regular part files is.
At(p, n, i, q, fp, left) ==
    /\ PartState(p, n, i, q, fp, left) /\ fp <= q
    /\ p = backup[Target].parts /\ i = job.idx /\ fp = job.fp /\ left = job.left
    /\ job.partStart = Before(p)[i] /\ job.done = job.partStart + fp /\ job.total = Before(p)[n]
    /\ job.bytesWritten <= fp /\ FileUnits = q /\ FileBase = job.partStart

LEMMA PartsAt ==
    ASSUME RestoreInv, job.pc = "copy", Regular(Target), InPartFiles(Target)
    PROVE  \E p, n, i, q, fp, left : At(p, n, i, q, fp, left)
<1>1. PICK t \in Targets : t = Target
  BY TargetOK DEF RestoreInv
<1>2. PICK p \in Seq(Nat \ {0}) : p = backup[t].parts
  BY RestoreCard DEF RestoreInv
<1>3. PICK fp \in Nat, b \in Nat, left \in Nat, done \in Nat, start \in Nat, i \in Nat :
        /\ fp = job.fp /\ b = job.bytesWritten /\ left = job.left /\ done = job.done
        /\ start = job.partStart /\ i = job.idx
        /\ done + left = job.total
  BY DEF RestoreInv, CopyBounds
<1>4. PICK n \in 1 .. Len(p) :
        /\ job.total = Before(p)[n] /\ i \in 0 .. n - 1 /\ start = Before(p)[i]
        /\ fp <= p[i + 1] /\ done = start + fp /\ b <= fp
  BY <1>1, <1>2, <1>3 DEF RestoreInv, InParts, SumOf
<1>5. PICK q \in Nat : q = p[i + 1]
  BY <1>4
<1>6. job.multi
  BY DEF RestoreInv, CopyBounds
<1>7. FileUnits = q /\ FileBase = start
  BY <1>1, <1>2, <1>3, <1>4, <1>5, <1>6 DEF FileUnits, FileBase, RestoreFiles
<1>8. i \in 0 .. n - 1 /\ Before(p)[i] + fp + left = Before(p)[n]
  BY <1>3, <1>4
<1>9. PartState(p, n, i, q, fp, left)
  BY <1>5, <1>8 DEF PartState
<1>10. fp <= q
  BY <1>4, <1>5
<1>11. At(p, n, i, q, fp, left)
  BY <1>1, <1>2, <1>3, <1>4, <1>7, <1>9, <1>10 DEF At
<1> QED
  BY <1>11

\* An open file that matches is where it belongs.
LEMMA PartVerified ==
    ASSUME RestoreInv, job.pc = "copy", Target \in Targets,
           "ok" \in VerifyFile, verif = 2, FileBase = job.partStart,
           FileUnits \in Nat, job.done = job.partStart + FileUnits,
           NEW g \in job.partStart .. job.done - 1
    PROVE  Exact(Target, job.dev, job.off, g)
<1>1. FileMatches
  BY DEF VerifyFile
<1>2. PICK start, q, off \in Nat : start = job.partStart /\ q = FileUnits /\ off = job.off
  BY DEF RestoreInv, CopyBounds
<1>3. PICK n \in 0 .. q - 1 : g = start + n
  <2>1. g - start \in 0 .. q - 1 /\ g = start + (g - start)
    BY <1>2
  <2> QED
    BY <2>1
<1>4. UnitMatches(n)
  BY <1>1, <1>2 DEF FileMatches, Compared
<1>5. PICK a : a = <<job.dev, off + start + n>>
  OBVIOUS
<1>6. a \in DOMAIN image /\ image[a] = <<Target, start + n>>
  BY <1>2, <1>4, <1>5 DEF UnitMatches, Content
<1>7. off + start + n = off + g
  BY <1>2, <1>3
<1> QED
  BY <1>2, <1>3, <1>5, <1>6, <1>7 DEF Exact

\* Every unit before the end of a verified part file is right.
LEMMA VerifiedSoFar ==
    ASSUME RestoreInv, job.pc = "copy", Regular(Target), Target \in Targets,
           "ok" \in VerifyFile, verif = 2, FileBase = job.partStart,
           FileUnits \in Nat, job.done = job.partStart + FileUnits
    PROVE  \A g \in 0 .. job.done - 1 : Exact(Target, job.dev, job.off, g)
<1>1. job.verification # 0 /\ ~job.emu
  BY DEF VerifyFile
<1>2. job.partStart \in Nat /\ job.done \in Nat
  BY DEF RestoreInv, CopyBounds
<1>3. \A g \in 0 .. job.partStart - 1 : Exact(Target, job.dev, job.off, g)
  BY <1>1 DEF RestoreInv, WrittenSoFar
<1>4. \A g \in job.partStart .. job.done - 1 : Exact(Target, job.dev, job.off, g)
  BY PartVerified
<1>5. \A g \in 0 .. job.done - 1 : g \in 0 .. job.partStart - 1 \/ g \in job.partStart .. job.done - 1
  BY <1>2
<1> QED
  BY <1>3, <1>4, <1>5

\* A part file is through: it has been written to its end, and others follow.
LEMMA PartIsThrough ==
    ASSUME RestoreInv, job.pc = "copy", Regular(Target), InPartFiles(Target),
           job.left > 0, PartWritten
    PROVE  /\ FileUnits \in Nat /\ FileBase = job.partStart /\ job.done = job.partStart + FileUnits
           /\ \E n \in 1 .. Len(backup[Target].parts) :
                /\ job.total = SumOf(Target)[n] /\ job.idx + 1 \in 0 .. n - 1
                /\ job.done = SumOf(Target)[job.idx + 1]
<1>1. PICK p, n, i, q, fp, left : At(p, n, i, q, fp, left)
  BY PartsAt
<1>2. PartState(p, n, i, q, fp, left)
  BY <1>1 DEF At
<1>3. /\ p \in Seq(Nat \ {0}) /\ n \in 1 .. Len(p) /\ i \in 0 .. n - 1
      /\ fp \in Nat /\ left \in Nat /\ q \in Nat /\ q = p[i + 1]
  BY <1>2 DEF PartState
<1>4. PICK b \in Nat : b = job.bytesWritten
  BY DEF RestoreInv, CopyBounds
<1>5. fp = q
  <2>1. fp <= q /\ b <= fp /\ b >= q
    BY <1>1, <1>4 DEF At, PartWritten
  <2> QED
    BY <1>3, <1>4, <2>1
<1>6. left > 0
  BY <1>1 DEF At
<1>7. i + 1 < n
  <2>1. i + 1 = n => left = q - fp
    BY <1>2, PartsRest
  <2>2. i + 1 # n
    BY <1>3, <1>5, <1>6, <2>1
  <2> QED
    BY <1>3, <2>2
<1>8. Before(p)[i + 1] = Before(p)[i] + q
  <2>1. Before(p)[i + 1] = Before(p)[i] + p[i + 1]
    BY <1>3, PartsLeft, Zenon
  <2> QED
    BY <1>3, <2>1
<1>9. i + 1 \in 0 .. n - 1
  BY <1>3, <1>7
<1>10. job.partStart = Before(p)[i] /\ job.done = job.partStart + q /\ job.done = Before(p)[i + 1]
  BY <1>1, <1>5, <1>8 DEF At
<1>11. FileUnits = q /\ FileBase = job.partStart /\ p = backup[Target].parts /\ i = job.idx
       /\ job.total = Before(p)[n]
  BY <1>1 DEF At
<1>12. FileUnits \in Nat /\ FileBase = job.partStart /\ job.done = job.partStart + FileUnits
  BY <1>3, <1>10, <1>11
<1>13. n \in 1 .. Len(backup[Target].parts)
  BY <1>3, <1>11
<1>14. job.total = SumOf(Target)[n] /\ job.idx + 1 \in 0 .. n - 1 /\ job.done = SumOf(Target)[job.idx + 1]
  BY <1>9, <1>10, <1>11 DEF SumOf
<1> QED
  BY <1>12, <1>13, <1>14

LEMMA SwitchStep == ASSUME RestoreInv, RestoreSwitch PROVE RestoreInv'
<1>0. /\ job.pc = "copy" /\ job.left > 0 /\ PartWritten /\ UNCHANGED fixed /\ image' = image
  BY DEF RestoreSwitch
<1>1. CASE RestoreFails
  BY <1>0, <1>1, FailsStep DEF RestoreFails
<1>2. ASSUME NEW r \in VerifyFile, r # "error", ~(job.idx + 1 >= Len(RestoreFiles.parts)),
             job' = [job EXCEPT !.idx = @ + 1, !.fp = 0, !.bytesWritten = 0,
                                !.partStart = job.done, !.verification = Later(r)],
             outcome' = outcome
      PROVE  RestoreInv'
  <2>1. PICK t \in Targets : t = Target
    BY <1>0, TargetOK DEF RestoreInv
  <2>2. InPartFiles(t)
    BY <1>0, <2>1 DEF PartWritten, RestoreInv, CopyBounds
  <2>3. DOMAIN job = CopyLocals
    BY <1>0 DEF RestoreInv, RestoreTypes
  <2>4. /\ job'.pc = "copy" /\ job'.button = job.button /\ job'.emu = job.emu /\ job'.k = job.k
        /\ job'.multi = job.multi /\ job'.idx = job.idx + 1 /\ job'.fp = 0
        /\ job'.bytesWritten = 0 /\ job'.left = job.left /\ job'.total = job.total
        /\ job'.done = job.done /\ job'.partStart = job.done /\ job'.dev = job.dev
        /\ job'.off = job.off /\ job'.verification = Later(r) /\ DOMAIN job' = CopyLocals
    BY <1>0, <1>2, <2>3 DEF CopyLocals
  <2>5. Target' = t
    BY <2>1, <2>4 DEF Target
  <2>6. backup' = backup /\ mbr' = mbr /\ verif' = verif
    BY <1>0 DEF fixed
  <2>7. RestoreTypes'
    BY <1>0, <1>2, <2>4, <2>6 DEF RestoreInv, RestoreTypes
  <2>8. PICK p \in Seq(Nat \ {0}) : p = backup[t].parts
    BY RestoreCard DEF RestoreInv
  <2>9. PICK idx \in Nat : idx = job.idx
    BY <1>0 DEF RestoreInv, CopyBounds
  <2>10. idx + 1 + 1 \in 1 .. Len(p) /\ 0 <= p[idx + 1 + 1]
    BY <1>2, <2>1, <2>8, <2>9 DEF RestoreFiles
  <2>11. Later(r) \in 0 .. 2
    BY <1>0 DEF Later, RestoreInv, CopyBounds
  <2>12. CopyBounds'
    <3>1. /\ {job.off, job.total, job.done, job.left} \subseteq Nat
          /\ job.done + job.left = job.total /\ job.total <= Fits(t, job.emu)
          /\ job.multi \in BOOLEAN /\ job.multi
      BY <1>0, <2>1, <2>2 DEF RestoreInv, CopyBounds
    <3>2. /\ job'.idx + 1 \in 1 .. Len(backup'[t].parts) /\ 0 <= backup'[t].parts[job'.idx + 1]
          /\ job'.idx \in Nat
      BY <2>4, <2>6, <2>8, <2>9, <2>10
    <3>3. InPartFiles(t)' /\ Fits(t, job.emu)' = Fits(t, job.emu)
      BY <2>2, <2>4, <2>6 DEF InPartFiles, Fits
    <3>4. job.done <= job.done /\ 0 \in Nat
      BY <3>1
    <3> QED
      BY <2>4, <2>5, <2>11, <3>1, <3>2, <3>3, <3>4 DEF CopyBounds, Fits
  <2>13. InParts'
    <3>1. SUFFICES ASSUME Regular(t) PROVE InParts'
      BY <2>5, <2>6 DEF InParts, Regular
    <3>2. PICK n \in 1 .. Len(p) : /\ job.total = Before(p)[n] /\ job.idx + 1 \in 0 .. n - 1
                                   /\ job.done = Before(p)[job.idx + 1]
      BY <1>0, <2>1, <2>2, <2>8, <3>1, PartIsThrough DEF SumOf
    <3>3. 0 % Iter = 0 /\ job.done \in Nat /\ job.done = job.done + 0
      BY <1>0 DEF RestoreInv, CopyBounds, Iter
    <3> QED
      BY <2>4, <2>5, <2>6, <2>8, <2>9, <2>10, <3>2, <3>3 DEF InParts, SumOf
  <2>14. WrittenSoFar'
    <3>1. SUFFICES ASSUME Regular(t) PROVE WrittenSoFar'
      BY <2>5, <2>6 DEF WrittenSoFar, Regular
    <3>2. \A g \in 0 .. job.done - 1 : Holds(t, job.dev, job.off, g)
      BY <1>0, <2>1, <3>1 DEF RestoreInv, WrittenSoFar
    <3>3. ASSUME verif = 2, Later(r) # 0, ~job.emu
          PROVE  \A g \in 0 .. job.done - 1 : Exact(t, job.dev, job.off, g)
      <4>1. r = "ok"
        BY <1>2, <3>3 DEF Later, VerifyFile
      <4> QED
        BY <1>0, <1>2, <2>1, <2>2, <3>1, <3>3, <4>1, PartIsThrough, VerifiedSoFar
    <3> QED
      BY <1>0, <2>1, <2>4, <2>5, <2>6, <3>2, <3>3 DEF WrittenSoFar, Holds, Exact
  <2>15. OffRecord'
    BY <1>0, <1>2, <2>1, <2>4, <2>5 DEF RestoreInv, OffRecord, Clear
  <2>16. OnRecord'
    <3>1. \A s \in Targets : outcome'[s] = outcome[s] \/ outcome'[s].res # "done"
      BY <1>2
    <3> QED
      BY <1>0, <3>1, RecordKept DEF RestoreInv
  <2> QED
    BY <2>7, <2>12, <2>13, <2>14, <2>15, <2>16 DEF RestoreInv
<1> QED
  BY <1>1, <1>2 DEF RestoreSwitch

\* The copy is through: the last file has been written to its end.
LEMMA CopyIsThrough ==
    ASSUME RestoreInv, job.pc = "copy", Regular(Target), job.left = 0
    PROVE  FileUnits \in Nat /\ FileBase = job.partStart /\ job.done = job.partStart + FileUnits
<1>1. CASE InPartFiles(Target)
  <2>1. PICK p, n, i, q, fp, left : At(p, n, i, q, fp, left)
    BY <1>1, PartsAt
  <2>2. PartState(p, n, i, q, fp, left) /\ left = 0 /\ fp <= q
    BY <2>1 DEF At
  <2>3. n \in Nat /\ i \in 0 .. n - 1 /\ fp \in Nat /\ q \in Nat
    BY <2>2 DEF PartState
  <2>4. (i + 1 < n => left > q - fp) /\ (i + 1 = n => left = q - fp)
    BY <2>2, PartsRest
  <2>5. fp = q
    BY <2>2, <2>3, <2>4
  <2> QED
    BY <2>1, <2>3, <2>5 DEF At
<1>2. CASE ~InPartFiles(Target)
  <2>1. job.multi = FALSE /\ job.partStart = 0 /\ job.total = backup[Target].single
    BY <1>2 DEF RestoreInv, CopyBounds
  <2>2. job.done = job.total /\ job.total \in Nat
    BY DEF RestoreInv, CopyBounds
  <2>3. FileUnits = job.total /\ FileBase = 0
    BY <2>1 DEF FileUnits, FileBase, RestoreFiles
  <2> QED
    BY <2>1, <2>2, <2>3
<1> QED
  BY <1>1, <1>2

LEMMA SucceededVals ==
    ASSUME RestoreInv, job.pc = "copy", NEW r
    PROVE  /\ Succeeded(r).res = "done" /\ Succeeded(r).emu = job.emu /\ Succeeded(r).dev = job.dev
           /\ Succeeded(r).off = job.off /\ Succeeded(r).total = job.total
           /\ Succeeded(r).sure => r = "ok"
<1>1. PICK ok \in BOOLEAN : ok <=> r = "ok"
  <2>1. CASE r = "ok"
    BY <2>1
  <2>2. CASE r # "ok"
    BY <2>2
  <2> QED
    BY <2>1, <2>2
<1>2. PICK as \in BOOLEAN : as <=> ~job.emu /\ sel # Select(Target)
  <2>1. CASE ~job.emu /\ sel # Select(Target)
    BY <2>1
  <2>2. CASE ~(~job.emu /\ sel # Select(Target))
    BY <2>2
  <2> QED
    BY <2>1, <2>2
<1>3. ok = (r = "ok") /\ as = (~job.emu /\ sel # Select(Target))
  BY <1>1, <1>2, Zenon
<1>4. PICK o : o = [res |-> "done", emu |-> job.emu, dev |-> job.dev, off |-> job.off,
                    total |-> job.total, sure |-> ok, astray |-> as]
  OBVIOUS
<1>5. o = Succeeded(r)
  BY <1>3, <1>4, Zenon DEF Succeeded
<1>6. /\ o.res = "done" /\ o.emu = job.emu /\ o.dev = job.dev /\ o.off = job.off
      /\ o.total = job.total /\ o.sure = ok
  BY <1>4
<1> QED
  BY <1>1, <1>5, <1>6

LEMMA DoneStep == ASSUME RestoreInv, RestoreDone PROVE RestoreInv'
<1>0. job.pc = "copy" /\ job.left = 0 /\ UNCHANGED fixed /\ image' = image
  BY DEF RestoreDone
<1>1. CASE RestoreFails
  BY <1>0, <1>1, FailsStep DEF RestoreFails
<1>2. ASSUME NEW r \in VerifyFile, RestoreReturns(Succeeded(r)) PROVE RestoreInv'
  <2>1. PICK t \in Targets : t = Target
    BY <1>0, TargetOK DEF RestoreInv
  <2>2. PICK o : o = Succeeded(r)
    OBVIOUS
  <2>3. /\ o.res = "done" /\ o.dev = job.dev /\ o.off = job.off /\ o.total = job.total
        /\ o.sure => r = "ok"
    BY <1>0, <2>2, SucceededVals
  <2>4. o.off \in Nat /\ o.total \in Nat /\ RestoreReturns(o)
    BY <1>0, <1>2, <2>2, <2>3 DEF RestoreInv, CopyBounds
  <2>5. /\ RestoreTypes' /\ job'.pc # "copy"
        /\ \A s \in Targets : outcome'[s] = IF s = t THEN o ELSE outcome[s]
    BY <1>0, <2>1, <2>4, ReturnsTypes DEF RestoreInv
  <2>6. backup' = backup /\ verif' = verif
    BY <1>0 DEF fixed
  <2>7. job.done = job.total
    BY <1>0 DEF RestoreInv, CopyBounds
  <2>8. OnRecord'
    <3> DEFINE Kept(s) == /\ \A g \in 0 .. outcome[s].total - 1 : Holds(s, outcome[s].dev, outcome[s].off, g)
                          /\ outcome[s].sure /\ verif = 2 =>
                               \A g \in 0 .. outcome[s].total - 1 : Exact(s, outcome[s].dev, outcome[s].off, g)
    <3>1. SUFFICES ASSUME NEW s \in Targets, outcome'[s].res = "done", Regular(s)' PROVE Kept(s)'
      BY DEF OnRecord
    <3>2. Regular(s)
      BY <2>6, <3>1 DEF Regular
    <3>3. CASE s = t
      <4>1. \A g \in 0 .. o.total - 1 : Holds(t, o.dev, o.off, g)
        BY <1>0, <2>1, <2>3, <2>7, <3>2, <3>3 DEF RestoreInv, WrittenSoFar
      <4>2. o.sure /\ verif = 2 => \A g \in 0 .. o.total - 1 : Exact(t, o.dev, o.off, g)
        BY <1>0, <1>2, <2>1, <2>3, <2>7, <3>2, <3>3, CopyIsThrough, VerifiedSoFar
      <4>3. outcome'[s] = o
        BY <2>5, <3>3
      <4> QED
        BY <1>0, <2>6, <3>3, <4>1, <4>2, <4>3 DEF Holds, Exact
    <3>4. CASE s # t
      <4>1. outcome'[s] = outcome[s]
        BY <2>5, <3>4
      <4>2. Kept(s)
        BY <3>1, <3>2, <4>1 DEF RestoreInv, OnRecord
      <4> QED
        BY <1>0, <2>6, <4>1, <4>2 DEF Holds, Exact
    <3> QED
      BY <3>3, <3>4
  <2> QED
    BY <2>5, <2>8 DEF RestoreInv, CopyBounds, InParts, WrittenSoFar, OffRecord
<1> QED
  BY <1>1, <1>2 DEF RestoreDone

LEMMA RestoreInitial == ASSUME RestoreInit PROVE RestoreInv
<1>1. job.pc = "idle"
  BY DEF RestoreInit, NoJob
<1>2. \A t \in Targets : outcome[t] = NoOutcome
  BY DEF RestoreInit
<1>3. DOMAIN outcome = Targets
  BY DEF RestoreInit
<1>4. \A t \in Targets : outcome[t].res = "none" /\ outcome[t].off = 0 /\ outcome[t].total = 0
  BY <1>2, NoOutcomeVals
<1>5. \E c \in SdCards : backup = c.files /\ mbr = c.mbr
  BY DEF RestoreInit
<1>6. verif \in 0 .. 2
  BY RestoreSizes DEF RestoreInit
<1>7. RestoreTypes
  BY <1>1, <1>3, <1>4, <1>5, <1>6 DEF RestoreTypes
<1> QED
  BY <1>1, <1>4, <1>7 DEF RestoreInv, CopyBounds, InParts, WrittenSoFar, OffRecord, OnRecord

LEMMA RestoreKept == ASSUME RestoreInv, UNCHANGED restoreVars PROVE RestoreInv'
<1>1. /\ backup' = backup /\ mbr' = mbr /\ verif' = verif /\ image' = image /\ sel' = sel
      /\ raw_based' = raw_based /\ emu_ini' = emu_ini /\ noted' = noted /\ job' = job /\ outcome' = outcome
      /\ presses' = presses /\ mishaps' = mishaps
  BY DEF restoreVars
<1>2. RestoreTypes'
  BY <1>1 DEF RestoreInv, RestoreTypes
<1>3. CopyBounds'
  BY <1>1 DEF RestoreInv, CopyBounds, Target, InPartFiles, Fits
<1>4. InParts'
  BY <1>1 DEF RestoreInv, InParts, Target, InPartFiles, Regular, SumOf
<1>5. WrittenSoFar'
  BY <1>1 DEF RestoreInv, WrittenSoFar, Target, Regular, Holds, Exact
<1>6. OffRecord'
  BY <1>1 DEF RestoreInv, OffRecord, Target, Clear
<1>7. OnRecord'
  BY <1>1 DEF RestoreInv, OnRecord, Exact, Clear, Holds, Regular, InPartFiles
<1> QED
  BY <1>2, <1>3, <1>4, <1>5, <1>6, <1>7 DEF RestoreInv

LEMMA RestoreStepKeeps == ASSUME RestoreInv, [RestoreNext]_restoreVars PROVE RestoreInv'
<1>1. ASSUME NEW b \in DOMAIN RestoreOf, NEW e \in BOOLEAN, restore_emmc_selected(b, e)
      PROVE  RestoreInv'
  BY <1>1, SelectedStep
<1>2. CASE RestoreStep
  BY <1>2, NextStep, RefusedStep, OpensStep, RestoreChunkStep, WriteFailsStep, SwitchStep, DoneStep
     DEF RestoreStep
<1>3. CASE RestorePowerCut
  BY <1>3, PowerCutStep
<1>4. CASE UNCHANGED restoreVars
  BY <1>4, RestoreKept
<1> QED
  BY <1>1, <1>2, <1>3, <1>4 DEF RestoreNext

LEMMA RestoreInvSound == ASSUME RestoreInv PROVE RestoreSound
<1>1. ASSUME NEW t \in Targets, Finished(t), Regular(t), NEW g \in 0 .. outcome[t].total - 1
      PROVE  /\ Placed(t, g) \in {<<t, g>>, Bad}
             /\ outcome[t].sure /\ verif = 2 => Placed(t, g) = <<t, g>>
  BY <1>1 DEF RestoreInv, OnRecord, Finished, Placed, Holds, Exact
<1> QED
  BY <1>1 DEF RestoreSound, RestoredIsBackup, VerifiedIsRestored

LEMMA RestoreInvariant == RestoreSpec => []RestoreInv
<1>1. RestoreInit => RestoreInv
  BY RestoreInitial
<1>2. RestoreInv /\ [RestoreNext]_restoreVars => RestoreInv'
  BY RestoreStepKeeps
<1> QED
  BY <1>1, <1>2, PTL DEF RestoreSpec

\* A finished restore of a backup as the backup tool makes it has put every
\* unit in its place, and with full verification none is lost: chunks, part
\* files, retries, failed attempts and power cuts before it notwithstanding,
\* for every size of the partition and of the part files (_restore_emmc_part).
THEOREM RestoreAlwaysSound == RestoreSpec => []RestoreSound
<1>1. RestoreInv => RestoreSound
  BY RestoreInvSound
<1> QED
  BY <1>1, RestoreInvariant, PTL

----------------------------------------------------------------------------
(* EmmcRestore: the parts of an emuMMC.                                    *)

\* Steps that neither open a file nor finish a restore.
LEMMA EmuKept ==
    ASSUME EmuInv, UNCHANGED <<mbr, raw_based, emu_ini, noted>>,
           job'.pc = "copy" => /\ job.pc = "copy" /\ job'.emu = job.emu /\ job'.part = job.part
                               /\ job'.dev = job.dev /\ job'.off = job.off /\ Target' = Target,
           \A t \in Targets : outcome'[t] = outcome[t] \/ outcome'[t].res # "done"
    PROVE  EmuInv'
<1>1. DOMAIN raw_based' = 1 .. 3
  BY DEF EmuInv
<1>2. ASSUME NEW k \in 1 .. 3, FirstFit(k)' PROVE EmuAt(k)' /\ EmuNoted(k)'
  <2>1. FirstFit(k)
    BY <1>2 DEF FirstFit
  <2>2. EmuAt(k) /\ EmuNoted(k)
    BY <2>1 DEF EmuInv
  <2>3. EmuHome(k)' = EmuHome(k)
    BY DEF EmuHome
  <2>6. EmuNoted(k)'
    BY <2>2, <2>3 DEF EmuNoted
  <2>4. job'.pc = "copy" /\ job'.emu =>
          job'.part = k /\ job'.dev = "SD" /\ job'.off = EmuHome(k)' + PartOffset(Target)'
    BY <2>2, <2>3 DEF EmuAt, PartOffset
  <2>5. ASSUME NEW t \in Targets, EmuFinished(t)'
        PROVE  /\ outcome'[t].dev = "SD" /\ outcome'[t].off = EmuHome(k)' + PartOffset(t)
               /\ outcome'[t].total <= Fits(t, TRUE)
    <3>1. outcome'[t] = outcome[t]
      BY <2>5 DEF EmuFinished
    <3>2. EmuFinished(t)
      BY <2>5, <3>1 DEF EmuFinished
    <3> QED
      BY <2>2, <2>3, <3>1, <3>2 DEF EmuAt
  <2>7. EmuAt(k)'
    BY <2>4, <2>5 DEF EmuAt, Fits, PartOffset
  <2> QED
    BY <2>6, <2>7
<1> QED
  BY <1>1, <1>2 DEF EmuInv

\* They are most of the steps.
LEMMA EmuFails ==
    ASSUME RestoreInv, EmuInv, job.pc # "idle", UNCHANGED fixed, UNCHANGED emuFiles, RestoreFails
    PROVE  EmuInv'
<1>1. PICK o : o = [NoOutcome EXCEPT !.res = "failed"]
  OBVIOUS
<1>2. o.res = "failed" /\ o.off = 0 /\ o.total = 0
  BY <1>1, NoOutcomeVals
<1>3. RestoreReturns(o)
  BY <1>1 DEF RestoreFails
<1>4. /\ job'.pc # "copy"
      /\ \A t \in Targets : outcome'[t] = IF t = Target THEN o ELSE outcome[t]
  BY <1>2, <1>3, ReturnsTypes DEF RestoreInv
<1>5. \A t \in Targets : outcome'[t] = outcome[t] \/ outcome'[t].res # "done"
  BY <1>2, <1>4
<1> QED
  BY <1>4, <1>5, EmuKept DEF fixed, emuFiles

LEMMA EmuOutside ==
    ASSUME RestoreInv, EmuInv,
           \/ \E b \in DOMAIN RestoreOf, e \in BOOLEAN : restore_emmc_selected(b, e)
           \/ NextTarget \/ RestoreSkips \/ RestoreRefused \/ RestoreReadFails \/ RestorePowerCut
    PROVE  EmuInv'
<1>1. CASE \E b \in DOMAIN RestoreOf, e \in BOOLEAN : restore_emmc_selected(b, e)
  <2>1. /\ job'.pc = "open" /\ outcome' = outcome /\ UNCHANGED <<mbr, raw_based, emu_ini, noted>>
    BY <1>1 DEF restore_emmc_selected, fixed, emuFiles
  <2> QED
    BY <2>1, EmuKept
<1>2. CASE NextTarget
  <2>1. DOMAIN job = {"pc", "button", "emu", "k"}
    BY <1>2 DEF NextTarget, RestoreInv, RestoreTypes
  <2>2. /\ job'.pc = "open" /\ outcome' = outcome /\ UNCHANGED <<mbr, raw_based, emu_ini, noted>>
    BY <1>2, <2>1 DEF NextTarget, fixed, emuFiles
  <2> QED
    BY <2>2, EmuKept
<1>3. CASE RestoreSkips
  <2>1. PICK o : o = [NoOutcome EXCEPT !.res = "skipped"]
    OBVIOUS
  <2>2. o.res = "skipped" /\ o.off = 0 /\ o.total = 0
    BY <2>1, NoOutcomeVals
  <2>3. RestoreReturns(o) /\ UNCHANGED fixed /\ UNCHANGED emuFiles /\ job.pc # "idle"
    BY <1>3, <2>1 DEF RestoreSkips
  <2>4. /\ job'.pc # "copy"
        /\ \A t \in Targets : outcome'[t] = IF t = Target THEN o ELSE outcome[t]
    BY <2>2, <2>3, ReturnsTypes DEF RestoreInv
  <2>5. \A t \in Targets : outcome'[t] = outcome[t] \/ outcome'[t].res # "done"
    BY <2>2, <2>4
  <2> QED
    BY <2>3, <2>4, <2>5, EmuKept DEF fixed, emuFiles
<1>4. CASE RestoreRefused \/ RestoreReadFails
  BY <1>4, EmuFails DEF RestoreRefused, RestoreReadFails
<1>5. CASE RestorePowerCut
  <2>1. PICK t0 \in Targets : t0 = Target
    BY <1>5, TargetOK DEF RestoreInv, RestorePowerCut
  <2>2. PICK o : o = [NoOutcome EXCEPT !.res = "failed"]
    OBVIOUS
  <2>3. o.res = "failed"
    BY <2>2, NoOutcomeVals
  <2>4. outcome' = [outcome EXCEPT ![t0] = o] /\ DOMAIN outcome = Targets
    BY <1>5, <2>1, <2>2 DEF RestorePowerCut, RestoreInv, RestoreTypes
  <2>5. \A t \in Targets : outcome'[t] = outcome[t] \/ outcome'[t].res # "done"
    BY <2>3, <2>4
  <2>6. job'.pc = "idle" /\ UNCHANGED <<mbr, raw_based, emu_ini, noted>>
    BY <1>5 DEF RestorePowerCut, NoJob, fixed, emuFiles
  <2> QED
    BY <2>5, <2>6, EmuKept
<1> QED
  BY <1>1, <1>2, <1>3, <1>4, <1>5

LEMMA EmuCopying ==
    ASSUME RestoreInv, EmuInv, RestoreChunk \/ RestoreWriteFails \/ RestoreSwitch PROVE EmuInv'
<1>1. /\ job.pc = "copy" /\ DOMAIN job = CopyLocals /\ UNCHANGED fixed /\ UNCHANGED emuFiles
  BY DEF RestoreChunk, RestoreWriteFails, RestoreSwitch, RestoreInv, RestoreTypes
<1>2. CASE RestoreFails
  BY <1>1, <1>2, EmuFails
<1>3. CASE ~RestoreFails
  <2>1. /\ job'.emu = job.emu /\ job'.part = job.part /\ job'.dev = job.dev /\ job'.off = job.off
        /\ job'.button = job.button /\ job'.k = job.k /\ outcome' = outcome
    BY <1>1, <1>3 DEF RestoreChunk, RestoreWriteFails, RestoreSwitch, CopyLocals
  <2>2. Target' = Target
    BY <2>1 DEF Target
  <2> QED
    BY <1>1, <2>1, <2>2, EmuKept DEF fixed, emuFiles
<1> QED
  BY <1>2, <1>3

\* _get_valid_partition finds that one.
LEMMA FirstFitFound ==
    ASSUME RestoreTypes, job.pc = "open", job.emu, ~Refused, FoundSize \in Nat,
           NEW k \in 1 .. 3, FirstFit(k)
    PROVE  ValidPartition = k
<1>1. PICK t \in Targets : t = Target
  BY TargetOK
<1>2. FoundSize <= RoomOf
  <2>1. RoomOf \in Nat
    BY <1>1, RestoreCard DEF RoomOf, BootUnits
  <2> QED
    BY <2>1 DEF Refused
<1>3. RoomOf <= 2 * BootUnits + Room["RAW"]
  <2>1. Room["RAW"] \in Nat
    BY RestoreSizes DEF Targets
  <2> QED
    BY <1>1, <2>1 DEF RoomOf, BootUnits
<1>4. mbr[k].size \in Nat /\ Room["RAW"] \in Nat /\ RoomOf \in Nat
  BY <1>1, RestoreCard DEF RoomOf, BootUnits, Targets
<1>5. Suitable(k)
  BY <1>2, <1>3, <1>4 DEF Suitable, FirstFit, EmuOffset, BootUnits
<1>6. \A j \in 1 .. k - 1 : ~Suitable(j)
  BY DEF FirstFit, Suitable
<1>7. \A m \in 1 .. 3 : Suitable(m) /\ (\A j \in 1 .. m - 1 : ~Suitable(j)) => m = k
  BY <1>5, <1>6
<1> HIDE DEF Suitable
<1> QED
  BY <1>5, <1>6, <1>7 DEF ValidPartition

LEMMA EmuOpens == ASSUME RestoreInv, EmuInv, RestoreOpens PROVE EmuInv'
<1>0. /\ job.pc = "open" /\ (multi \/ RestoreFiles.single # NoFile) /\ ~Refused
      /\ UNCHANGED <<mbr, raw_based, emu_ini, noted>>
  BY DEF RestoreOpens, fixed, emuFiles
<1>1. PICK t \in Targets : t = Target
  BY <1>0, TargetOK DEF RestoreInv
<1>2. PICK m \in BOOLEAN : m = multi
  BY DEF multi
<1>3. PICK size \in Nat : size = FoundSize
  BY <1>0, OpensSize DEF RestoreInv
<1>4. PICK dev, off, part, buf :
        /\ dev = Device /\ off = Offset /\ part = (IF job.emu THEN ValidPartition ELSE 0)
        /\ buf = [j \in 0 .. Iter - 1 |-> Garbage]
  OBVIOUS
<1>5. job' = [pc |-> "copy", button |-> job.button, emu |-> job.emu, k |-> job.k,
              multi |-> m, idx |-> 0, fp |-> 0, bytesWritten |-> 0,
              left |-> size, total |-> size, done |-> 0, partStart |-> 0,
              dev |-> dev, off |-> off, part |-> part, buf |-> buf,
              verification |-> verif, tries |-> 0]
  BY <1>2, <1>3, <1>4, Zenon DEF RestoreOpens
<1>6. /\ job'.pc = "copy" /\ job'.button = job.button /\ job'.emu = job.emu /\ job'.k = job.k
      /\ job'.dev = dev /\ job'.off = off /\ job'.part = part
  BY <1>5
<1>7. Target' = t
  BY <1>1, <1>6 DEF Target
<1>8. \A s \in Targets : outcome'[s] = IF Overwritten(s) THEN NoOutcome ELSE outcome[s]
  BY DEF RestoreOpens
<1>9. DOMAIN raw_based' = 1 .. 3
  BY <1>0 DEF EmuInv
<1>10. ASSUME NEW k \in 1 .. 3, FirstFit(k)' PROVE EmuAt(k)' /\ EmuNoted(k)'
  <2>1. FirstFit(k)
    BY <1>0, <1>10 DEF FirstFit
  <2>2. EmuAt(k) /\ EmuNoted(k)
    BY <2>1 DEF EmuInv
  <2>3. EmuHome(k)' = EmuHome(k)
    BY <1>0 DEF EmuHome
  <2>7. EmuNoted(k)'
    BY <1>0, <2>2, <2>3 DEF EmuNoted
  <2>4. ASSUME job.emu PROVE part = k /\ dev = "SD" /\ off = EmuHome(k) + PartOffset(t)
    <3>1. ValidPartition = k
      BY <1>0, <1>3, <2>1, <2>4, FirstFitFound DEF RestoreInv
    <3>2. mbr[k].start \in Nat
      BY RestoreCard DEF RestoreInv
    <3>3. SdOffset(k) = EmuHome(k) + PartOffset(t)
      BY <1>1, <3>2 DEF SdOffset, ActivePart, EmuHome, PartOffset, EmuOffset, BootUnits
    <3> QED
      BY <1>4, <2>4, <3>1, <3>3 DEF Device, Offset
  <2>5. job'.pc = "copy" /\ job'.emu =>
          job'.part = k /\ job'.dev = "SD" /\ job'.off = EmuHome(k)' + PartOffset(Target)'
    BY <1>6, <1>7, <2>3, <2>4 DEF PartOffset
  <2>6. ASSUME NEW s \in Targets, EmuFinished(s)'
        PROVE  /\ outcome'[s].dev = "SD" /\ outcome'[s].off = EmuHome(k)' + PartOffset(s)
               /\ outcome'[s].total <= Fits(s, TRUE)
    <3>1. outcome'[s] = outcome[s]
      BY <1>8, <2>6, NoOutcomeVals DEF EmuFinished
    <3>2. EmuFinished(s)
      BY <2>6, <3>1 DEF EmuFinished
    <3> QED
      BY <1>0, <2>2, <2>3, <3>1, <3>2 DEF EmuAt
  <2>8. EmuAt(k)'
    BY <2>5, <2>6 DEF EmuAt, Fits, PartOffset
  <2> QED
    BY <2>7, <2>8
<1> QED
  BY <1>9, <1>10 DEF EmuInv

LEMMA EmuDone == ASSUME RestoreInv, EmuInv, RestoreDone PROVE EmuInv'
<1>0. job.pc = "copy" /\ job.left = 0 /\ UNCHANGED fixed
  BY DEF RestoreDone
<1>1. CASE RestoreFails /\ UNCHANGED emuFiles
  BY <1>0, <1>1, EmuFails
<1>2. ASSUME NEW r \in VerifyFile, RestoreReturns(Succeeded(r)),
             IF job.emu THEN NoteEmu ELSE UNCHANGED emuFiles
      PROVE  EmuInv'
  <2>1. PICK t \in Targets : t = Target
    BY <1>0, TargetOK DEF RestoreInv
  <2>2. PICK o : o = Succeeded(r)
    OBVIOUS
  <2>3. o.emu = job.emu /\ o.dev = job.dev /\ o.off = job.off /\ o.total = job.total
    BY <1>0, <2>2, SucceededVals
  <2>4. o.off \in Nat /\ o.total \in Nat /\ RestoreReturns(o)
    BY <1>0, <1>2, <2>2, <2>3 DEF RestoreInv, CopyBounds
  <2>5. /\ job'.pc # "copy"
        /\ \A s \in Targets : outcome'[s] = IF s = t THEN o ELSE outcome[s]
    BY <1>0, <2>1, <2>4, ReturnsTypes DEF RestoreInv
  <2>6. mbr' = mbr
    BY <1>0 DEF fixed
  <2>7. job.total <= Fits(t, job.emu)
    BY <1>0, <2>1 DEF RestoreInv, CopyBounds
  <2>8. DOMAIN raw_based' = 1 .. 3
    BY <1>2 DEF EmuInv, emuFiles, NoteEmu
  <2>9. ASSUME NEW k \in 1 .. 3, FirstFit(k)' PROVE EmuAt(k)' /\ EmuNoted(k)'
    <3>1. FirstFit(k)
      BY <2>6, <2>9 DEF FirstFit
    <3>2. EmuAt(k) /\ EmuNoted(k)
      BY <3>1 DEF EmuInv
    <3>3. EmuHome(k)' = EmuHome(k)
      BY <2>6 DEF EmuHome
    <3>4. ASSUME job.emu PROVE EmuNoted(k)'
      <4>1. job.part = k /\ EmuSector = EmuHome(k) /\ DOMAIN raw_based = 1 .. 3
        BY <1>0, <3>2, <3>4 DEF EmuAt, EmuInv, EmuSector, EmuHome
      <4>2. PICK rb, ini :
              /\ raw_based' = [raw_based EXCEPT ![k] = rb] /\ emu_ini' = ini
              /\ noted' = (rb = EmuHome(k) /\ ini = EmuHome(k))
        BY <1>2, <3>4, <4>1 DEF NoteEmu
      <4>3. noted' => rb = EmuHome(k) /\ ini = EmuHome(k)
        BY <4>2, Zenon
      <4> QED
        BY <3>3, <4>1, <4>2, <4>3 DEF EmuNoted
    <3>5. ASSUME ~job.emu PROVE EmuNoted(k)'
      BY <1>2, <3>2, <3>3, <3>5 DEF emuFiles, EmuNoted
    <3>6. ASSUME NEW s \in Targets, EmuFinished(s)'
          PROVE  /\ outcome'[s].dev = "SD" /\ outcome'[s].off = EmuHome(k)' + PartOffset(s)
                 /\ outcome'[s].total <= Fits(s, TRUE)
      <4>1. CASE s = t
        <5>1. outcome'[s] = o /\ job.emu
          BY <2>3, <2>5, <3>6, <4>1 DEF EmuFinished
        <5>2. job.dev = "SD" /\ job.off = EmuHome(k) + PartOffset(t)
          BY <1>0, <2>1, <3>2, <5>1 DEF EmuAt
        <5>3. job.total <= Fits(t, TRUE)
          BY <2>7, <5>1 DEF Fits
        <5> QED
          BY <2>3, <3>3, <4>1, <5>1, <5>2, <5>3
      <4>2. CASE s # t
        <5>1. outcome'[s] = outcome[s]
          BY <2>5, <4>2
        <5>2. EmuFinished(s)
          BY <3>6, <5>1 DEF EmuFinished
        <5> QED
          BY <3>2, <3>3, <5>1, <5>2 DEF EmuAt
      <4> QED
        BY <4>1, <4>2
    <3>7. EmuAt(k)'
      BY <2>5, <3>6 DEF EmuAt, Fits, PartOffset
    <3> QED
      BY <3>4, <3>5, <3>7
  <2> QED
    BY <2>8, <2>9 DEF EmuInv
<1> QED
  BY <1>1, <1>2 DEF RestoreDone

LEMMA EmuStepKeeps ==
    ASSUME RestoreInv, EmuInv, [RestoreNext]_restoreVars PROVE EmuInv'
<1>1. CASE UNCHANGED restoreVars
  <2>1. Target' = Target /\ outcome' = outcome /\ job' = job /\ UNCHANGED <<mbr, raw_based, emu_ini, noted>>
    BY <1>1 DEF restoreVars, Target
  <2> QED
    BY <2>1, EmuKept
<1> QED
  BY <1>1, EmuOutside, EmuCopying, EmuOpens, EmuDone DEF RestoreNext, RestoreStep

\* What the two invariants say of an emuMMC that has been restored.
LEMMA EmuInvWhole == ASSUME RestoreInv, EmuInv PROVE EmuIsWhole
<1>1. SUFFICES ASSUME FirstFits, \A t \in {"BOOT0", "BOOT1", "RAW"} : EmuFinished(t) /\ Regular(t)
               PROVE  EmuIsWhole
  BY DEF EmuIsWhole
<1>2. PICK k \in 1 .. 3 : FirstFit(k)
  BY <1>1 DEF FirstFits, FirstFit
<1>3. EmuAt(k) /\ EmuNoted(k)
  BY <1>2 DEF EmuInv
<1>5. PICK start, size, room \in Nat : start = mbr[k].start /\ size = mbr[k].size /\ room = Room["RAW"]
  BY RestoreCard DEF RestoreInv, Targets
<1>6. size >= 12 + room /\ EmuHome(k) = start + 8
  BY <1>2, <1>5 DEF FirstFit, EmuHome, EmuOffset, BootUnits
<1>7. ASSUME NEW t \in {"BOOT0", "BOOT1", "RAW"},
             NEW s, s = mbr[k].start + EmuOffset + CASE t = "BOOT0" -> 0 [] t = "BOOT1" -> BootUnits
                                                     [] OTHER -> 2 * BootUnits
      PROVE  /\ outcome[t].dev = "SD" /\ outcome[t].off = s
             /\ s + outcome[t].total <= mbr[k].start + mbr[k].size
             /\ \A g \in 0 .. outcome[t].total - 1 : Placed(t, g) \in {<<t, g>>, Bad}
  <2>1. t \in Targets /\ outcome[t].res = "done" /\ Regular(t)
    BY <1>1, <1>7 DEF Targets, EmuFinished
  <2>2. \A g \in 0 .. outcome[t].total - 1 : Holds(t, outcome[t].dev, outcome[t].off, g)
    BY <2>1 DEF RestoreInv, OnRecord
  <2>3. /\ outcome[t].dev = "SD" /\ outcome[t].off = EmuHome(k) + PartOffset(t)
        /\ outcome[t].total <= Fits(t, TRUE) /\ outcome[t].total \in Nat
    BY <1>1, <1>3, <1>7, <2>1 DEF EmuAt, RestoreInv, RestoreTypes
  <2>4. PICK po \in Nat : /\ po = PartOffset(t) /\ s = start + 8 + po
                          /\ Fits(t, TRUE) + po <= 4 + room
    BY <1>5, <1>6, <1>7 DEF PartOffset, Fits, BootUnits, EmuOffset
  <2>5. outcome[t].off = s
    BY <1>5, <1>6, <2>3, <2>4
  <2>6. Fits(t, TRUE) \in Nat
    BY <1>5, <1>7 DEF Fits, BootUnits
  <2>7. PICK total, fit \in Nat : total = outcome[t].total /\ total <= fit /\ fit + po <= 4 + room
    BY <2>3, <2>4, <2>6
  <2>8. s + total <= start + size
    BY <1>6, <2>4, <2>7
  <2> QED
    BY <1>5, <2>2, <2>3, <2>5, <2>7, <2>8 DEF Holds, Placed
<1>8. noted => emu_ini = mbr[k].start + EmuOffset /\ raw_based[k] = emu_ini
  BY <1>3 DEF EmuNoted, EmuHome
<1> QED
  BY <1>7, <1>8 DEF EmuIsWhole

\* When BOOT and RAW have both been restored to an emuMMC, by any number of
\* presses and failures, it has all its parts behind each other in one
\* partition, and emummc.ini and raw_based name it if the last press could write
\* them, whenever the first partition that is not skipped has room for it
\* (_restore_emmc_part, _get_valid_partition, save_emummc_cfg).
THEOREM EmuAlwaysWhole == RestoreSpec => []EmuIsWhole
<1>1. RestoreInit => EmuInv
  <2>1. SUFFICES ASSUME RestoreInit PROVE EmuInv
    OBVIOUS
  <2>2. job.pc = "idle" /\ DOMAIN raw_based = 1 .. 3
    BY <2>1 DEF RestoreInit, NoJob
  <2>3. \A t \in Targets : ~EmuFinished(t)
    BY <2>1, NoOutcomeVals DEF RestoreInit, EmuFinished
  <2> QED
    BY <2>1, <2>2, <2>3 DEF EmuInv, EmuAt, EmuNoted, RestoreInit
<1>2. RestoreInv /\ EmuInv /\ [RestoreNext]_restoreVars => EmuInv'
  BY EmuStepKeeps
<1>3. RestoreInv /\ EmuInv => EmuIsWhole
  BY EmuInvWhole
<1> QED
  BY <1>1, <1>2, <1>3, RestoreInvariant, PTL DEF RestoreSpec

=============================================================================
