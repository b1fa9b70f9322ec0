------------------------- MODULE EmummcToolsProofs -------------------------
(***************************************************************************)
(* Proofs about the tools of Nyx that lay out the SD card.                 *)
(*                                                                         *)
(* EmummcTools: what emummc.ini is given is complete and flagged, and no   *)
(* operation damages an emuMMC but the one it was told to use, for any     *)
(* number of folders, any table and any number of operations, failures and *)
(* power cuts.                                                             *)
(*                                                                         *)
(* PartLayout: the tables the partition manager flashes are sound, on any  *)
(* device, after any moves of the sliders.                                 *)
(*                                                                         *)
(* PartFlash: Linux that was flashed is the image, and nothing is written  *)
(* outside the partition it is for, whatever files and partitions there    *)
(* are and whichever writes fail.                                          *)
(*                                                                         *)
(* SdRepartition: files that fit the RAM disk are never lost while the     *)
(* card is partitioned, and the report at the end is true.                 *)
(***************************************************************************)
EXTENDS EmummcTools, PartLayout, PartFlash, SdRepartition, FiniteSetTheorems, SequenceTheorems, TLAPS

EmuTable == [1 .. 3 -> [start : Nat, size : Nat, type : PartTypes]]
EmuImage == [PieceSet -> PieceStates]

Folders == \A f \in DOMAIN folders : folders[f] \in EmuFolder

\* The folder RAWk is for partition k.
RawOwn == \A k \in 1 .. 3 : RawFolder(k) \in DOMAIN folders => folders[RawFolder(k)].raw \in {0, k}

Tasks == [pc : {"copy", "flag", "ini", "move"}, kind : {"file", "raw", "fix", "backup"},
          path : DOMAIN folders, part : 0 .. 3, n : 1 .. 3, full : BOOLEAN]

\* Which operation is where, and on what.
TaskShape ==
    /\ task \in Tasks
    /\ task.kind \in {"raw", "fix"} => task.part \in 1 .. 3 /\ task.path = RawFolder(task.part)
    /\ task.kind \in {"file", "backup"} => task.part = 0
    /\ task.pc \in {"copy", "flag"} => task.kind \in {"file", "raw"}
    /\ task.pc = "move" => task.kind = "backup"

\* The image the operation makes: the pieces before the current one are whole;
\* a folder of its own holds nothing else yet.
Making ==
    /\ task.pc = "copy" => \A m \in 1 .. task.n - 1 : Image(task)[Pieces[m]] = "whole"
    /\ task.pc = "copy" /\ task.kind = "file" /\ ~task.full =>
         \A m \in task.n .. 3 : folders[task.path].img[Pieces[m]] = "none"
    /\ task.pc \in {"flag", "ini"} /\ task.kind \in {"file", "raw"} => Complete(Image(task))
    /\ task.kind = "raw" => Extent(task.part) <= mbr_table[task.part].size

\* What the operation will write to emummc.ini.
TaskIni == Ini(task.part, IF task.kind = "backup" THEN FlagFolder ELSE task.path)

\* The flag is there before emummc.ini is written, or could not be written.
Flagged == task.pc = "ini" \/ task.kind = "backup" => TaskIni \in unflagged \/ HasFlag(TaskIni)

IniOK == ini = Ini(ini.part, ini.path) /\ IniHasFlag

EmuInv ==
    /\ mbr_table \in EmuTable /\ Folders /\ RawOwn
    /\ raw_image \in [1 .. 3 -> EmuImage]
    /\ task = NoTask \/ (TaskShape /\ Making /\ Flagged)
    /\ IniOK

\* What a step may not do to another emuMMC.
KeepsOthers ==
    /\ \A f \in DOMAIN folders :
         Complete(folders[f].img) /\ ~Complete(folders[f].img)' =>
             task.pc # "idle" /\ task.path = f /\ task.full
    /\ \A k \in 1 .. 3 :
         Complete(raw_image[k]) /\ ~Complete(raw_image'[k]) =>
             task.pc # "idle" /\ task.kind = "raw" /\ task.part = k

---------------------------------------------------------------------------
(* Pieces, flags and folders *)

LEMMA PiecesOK ==
  /\ \A n \in 1 .. 3 : Pieces[n] \in PieceSet
  /\ \A m, n \in 1 .. 3 : Pieces[m] = Pieces[n] => m = n
  /\ \A q \in PieceSet : \E n \in 1 .. 3 : q = Pieces[n]
<1>1. Pieces[1] = "BOOT0" /\ Pieces[2] = "BOOT1" /\ Pieces[3] = "GPP"
  BY DEF Pieces
<1>2. \A n \in 1 .. 3 : n = 1 \/ n = 2 \/ n = 3
  OBVIOUS
<1> QED BY <1>1, <1>2 DEF PieceSet

\* Flags stay, but for one that was being written.
FlagsKept ==
    \A f \in DOMAIN folders :
        /\ f \in DOMAIN folders'
        /\ folders[f].file => folders'[f].file
        /\ folders[f].raw # 0 => \/ folders'[f].raw = folders[f].raw
                                 \/ Ini(folders[f].raw, f) \in unflagged'

\* What is no longer known to lack its flag has it.
Settled == \A i \in unflagged : i \in unflagged' \/ HasFlag(i)'

LEMMA IniParts == \A part, path : Ini(part, path).part = part /\ Ini(part, path).path = path
  BY DEF Ini

LEMMA IniKept ==
  ASSUME EmuInv, FlagsKept, ini' = ini, unflagged' = unflagged \/ Settled
  PROVE  IniOK'
<1>1. ini' = Ini(ini.part, ini.path)'
  BY DEF EmuInv, IniOK, Ini
<1>2. ASSUME ini.path # NoPath, ini \notin unflagged' PROVE HasFlag(ini)'
  <2>1. CASE ini \in unflagged
    BY <1>2, <2>1 DEF Settled, HasFlag
  <2>2. CASE ini \notin unflagged
    <3>1. HasFlag(ini)
      BY <1>2, <2>2 DEF EmuInv, IniOK, IniHasFlag
    <3>2. PICK part, path : part = ini.part /\ path = ini.path
      OBVIOUS
    <3>3. path \in DOMAIN folders /\ (IF part # 0 THEN folders[path].raw = part ELSE folders[path].file)
      BY <3>1, <3>2 DEF HasFlag
    <3>4. Ini(part, path) \notin unflagged'
      BY <1>2, <3>2 DEF EmuInv, IniOK
    <3>5. path \in DOMAIN folders' /\ (IF part # 0 THEN folders'[path].raw = part ELSE folders'[path].file)
      BY <3>3, <3>4 DEF FlagsKept
    <3> QED BY <3>2, <3>5 DEF HasFlag
  <2> QED BY <2>1, <2>2
<1> QED BY <1>1, <1>2 DEF IniOK, IniHasFlag

LEMMA IniSet ==
  ASSUME NEW part, NEW path, ini' = Ini(part, path),
         path # NoPath => Ini(part, path) \in unflagged' \/ HasFlag(Ini(part, path))'
  PROVE  IniOK'
<1>1. ini'.part = part /\ ini'.path = path
  BY IniParts
<1>2. HasFlag(Ini(part, path))' = HasFlag(ini)'
  BY DEF HasFlag
<1>3. Ini(ini.part, ini.path)' = Ini(ini'.part, ini'.path)
  BY DEF Ini
<1> QED BY <1>1, <1>2, <1>3 DEF IniOK, IniHasFlag

LEMMA FoldersSame ==
  ASSUME Folders, RawOwn, folders' = folders
  PROVE  Folders' /\ RawOwn' /\ FlagsKept
  BY DEF Folders, RawOwn, FlagsKept

LEMMA NewFolderOK == NewFolder \in EmuFolder /\ NewFolder.raw = 0 /\ NewFolder.img = Nothing
<1>1. Nothing \in [PieceSet -> PieceStates]
  BY DEF Nothing, PieceStates
<1> QED BY <1>1 DEF NewFolder, EmuFolder

LEMMA WithFolderOK ==
  ASSUME NEW f, Folders, RawOwn
  PROVE  /\ DOMAIN WithFolder(f) = DOMAIN folders \cup {f}
         /\ \A n \in DOMAIN folders : WithFolder(f)[n] = folders[n]
         /\ \A n \in DOMAIN WithFolder(f) : WithFolder(f)[n] \in EmuFolder
         /\ f \notin DOMAIN folders => WithFolder(f)[f] = NewFolder
         /\ \A k \in 1 .. 3 : RawFolder(k) \in DOMAIN WithFolder(f) =>
               WithFolder(f)[RawFolder(k)].raw \in {0, k}
<1>1. /\ DOMAIN WithFolder(f) = DOMAIN folders \cup {f}
      /\ \A n \in DOMAIN folders : WithFolder(f)[n] = folders[n]
      /\ f \notin DOMAIN folders => WithFolder(f)[f] = NewFolder
  BY DEF WithFolder
<1>2. \A n \in DOMAIN WithFolder(f) : WithFolder(f)[n] = NewFolder \/ n \in DOMAIN folders
  BY DEF WithFolder
<1>3. \A n \in DOMAIN WithFolder(f) : WithFolder(f)[n] \in EmuFolder
  BY <1>1, <1>2, NewFolderOK DEF Folders
<1>4. \A k \in 1 .. 3 : RawFolder(k) \in DOMAIN WithFolder(f) =>
               WithFolder(f)[RawFolder(k)].raw \in {0, k}
  BY <1>1, <1>2, NewFolderOK DEF RawOwn
<1> QED BY <1>1, <1>3, <1>4

LEMMA FolderAdded ==
  ASSUME NEW f, Folders, RawOwn, folders' = WithFolder(f)
  PROVE  /\ Folders' /\ RawOwn' /\ FlagsKept
         /\ \A g \in DOMAIN folders : g \in DOMAIN folders' /\ folders'[g] = folders[g]
         /\ f \in DOMAIN folders'
         /\ f \notin DOMAIN folders => folders'[f] = NewFolder
<1>1. /\ DOMAIN folders' = DOMAIN folders \cup {f}
      /\ \A n \in DOMAIN folders : folders'[n] = folders[n]
      /\ \A n \in DOMAIN folders' : folders'[n] \in EmuFolder
      /\ f \notin DOMAIN folders => folders'[f] = NewFolder
      /\ \A k \in 1 .. 3 : RawFolder(k) \in DOMAIN folders' => folders'[RawFolder(k)].raw \in {0, k}
  BY WithFolderOK
<1> QED BY <1>1 DEF Folders, RawOwn, FlagsKept

\* A folder with a new flag: f2 is its new content.
LEMMA FolderFlagged ==
  ASSUME Folders, RawOwn, NEW W, NEW f \in DOMAIN W, NEW f2 \in EmuFolder, NEW k \in 0 .. 3,
         k # 0 => f = RawFolder(k),
         \A n \in DOMAIN folders : n \in DOMAIN W /\ W[n] = folders[n],
         \A n \in DOMAIN W : W[n] \in EmuFolder,
         \A j \in 1 .. 3 : RawFolder(j) \in DOMAIN W => W[RawFolder(j)].raw \in {0, j},
         DOMAIN folders' = DOMAIN W, folders'[f] = f2,
         \A n \in DOMAIN W : n # f => folders'[n] = W[n],
         W[f].file => f2.file,
         f2.img = W[f].img,
         \/ f2.raw = W[f].raw \/ (k # 0 /\ f2.raw = k)
         \/ k # 0 /\ f2.raw = 0 /\ Ini(k, f) \in unflagged'
  PROVE  /\ Folders' /\ RawOwn' /\ FlagsKept /\ DOMAIN folders' = DOMAIN W
         /\ folders'[f] = f2
         /\ \A g \in DOMAIN folders : folders'[g].img = folders[g].img
<1>1. /\ DOMAIN folders' = DOMAIN W /\ folders'[f] = f2
      /\ \A n \in DOMAIN W : n # f => folders'[n] = W[n]
  OBVIOUS
<1>2. Folders'
  BY <1>1 DEF Folders
<1>3. RawOwn'
  <2> SUFFICES ASSUME NEW j \in 1 .. 3, RawFolder(j) \in DOMAIN W
               PROVE  folders'[RawFolder(j)].raw \in {0, j}
    BY <1>1 DEF RawOwn
  <2>1. CASE RawFolder(j) # f
    BY <2>1, <1>1
  <2>2. CASE RawFolder(j) = f
    <3>1. k # 0 => j = k
      BY <2>2 DEF RawFolder
    <3> QED BY <2>2, <3>1, <1>1
  <2> QED BY <2>1, <2>2
<1>4. FlagsKept
  <2> SUFFICES ASSUME NEW g \in DOMAIN folders
               PROVE  /\ g \in DOMAIN folders'
                      /\ folders[g].file => folders'[g].file
                      /\ folders[g].raw # 0 => \/ folders'[g].raw = folders[g].raw
                                               \/ Ini(folders[g].raw, g) \in unflagged'
    BY DEF FlagsKept
  <2>1. CASE g # f
    BY <2>1, <1>1
  <2>2. CASE g = f /\ f2.raw = W[f].raw
    BY <2>2, <1>1
  <2>3. CASE g = f /\ k # 0 /\ (f2.raw = k \/ (f2.raw = 0 /\ Ini(k, f) \in unflagged'))
    <3>1. folders[g].raw \in {0, k}
      BY <2>3 DEF RawOwn
    <3> QED BY <2>3, <3>1, <1>1
  <2> QED BY <2>1, <2>2, <2>3
<1>5. \A g \in DOMAIN folders : folders'[g].img = folders[g].img
  BY <1>1
<1> QED BY <1>1, <1>2, <1>3, <1>4, <1>5

\* A flag is written or fails to be, in the folders W.
LEMMA FlagStep ==
  ASSUME Folders, RawOwn, NEW W, NEW f \in DOMAIN W, NEW k \in 0 .. 3,
         k # 0 => f = RawFolder(k),
         \A n \in DOMAIN folders : n \in DOMAIN W /\ W[n] = folders[n],
         \A n \in DOMAIN W : W[n] \in EmuFolder,
         \A j \in 1 .. 3 : RawFolder(j) \in DOMAIN W => W[RawFolder(j)].raw \in {0, j},
         FlagWritten(W, f, k) \/ FlagFails(W, f, k)
  PROVE  /\ Folders' /\ RawOwn' /\ FlagsKept /\ DOMAIN folders' = DOMAIN W
         /\ \A g \in DOMAIN folders : folders'[g].img = folders[g].img
         /\ Settled
         /\ Ini(k, f) \in unflagged' \/ HasFlag(Ini(k, f))'
<1>0. W[f] \in EmuFolder
  OBVIOUS
<1>1. PICK f2 \in EmuFolder :
        /\ DOMAIN folders' = DOMAIN W /\ folders'[f] = f2
        /\ \A n \in DOMAIN W : n # f => folders'[n] = W[n]
        /\ (W[f].file => f2.file) /\ f2.img = W[f].img
        /\ \/ f2.raw = W[f].raw \/ (k # 0 /\ f2.raw = k)
           \/ k # 0 /\ f2.raw = 0 /\ Ini(k, f) \in unflagged'
        /\ Ini(k, f) \in unflagged' \/ (IF k # 0 THEN f2.raw = k ELSE f2.file)
  <2>1. CASE FlagWritten(W, f, k) /\ k # 0
    <3> DEFINE e == [W[f] EXCEPT !.raw = k]
    <3>1. folders' = [W EXCEPT ![f] = e]
      BY <2>1 DEF FlagWritten
    <3>2. e \in EmuFolder /\ e.img = W[f].img /\ e.file = W[f].file /\ e.raw = k
      BY <1>0 DEF EmuFolder
    <3> HIDE DEF e
    <3> QED BY <2>1, <3>1, <3>2
  <2>2. CASE FlagWritten(W, f, k) /\ k = 0
    <3> DEFINE e == [W[f] EXCEPT !.file = TRUE]
    <3>1. folders' = [W EXCEPT ![f] = e]
      BY <2>2 DEF FlagWritten
    <3>2. e \in EmuFolder /\ e.img = W[f].img /\ e.file /\ e.raw = W[f].raw
      BY <1>0 DEF EmuFolder
    <3> HIDE DEF e
    <3> QED BY <2>2, <3>1, <3>2
  <2>3. CASE FlagFails(W, f, k) /\ folders' = W
    <3>1. Ini(k, f) \in unflagged'
      BY <2>3 DEF FlagFails
    <3> QED BY <1>0, <2>3, <3>1
  <2>4. CASE FlagFails(W, f, k) /\ k # 0 /\ folders' = [W EXCEPT ![f].raw = 0]
    <3> DEFINE e == [W[f] EXCEPT !.raw = 0]
    <3>1. folders' = [W EXCEPT ![f] = e] /\ Ini(k, f) \in unflagged'
      BY <2>4 DEF FlagFails
    <3>2. e \in EmuFolder /\ e.img = W[f].img /\ e.file = W[f].file /\ e.raw = 0
      BY <1>0 DEF EmuFolder
    <3> HIDE DEF e
    <3> QED BY <2>4, <3>1, <3>2
  <2> QED BY <2>1, <2>2, <2>3, <2>4 DEF FlagFails
<1>2. /\ Folders' /\ RawOwn' /\ FlagsKept /\ DOMAIN folders' = DOMAIN W
      /\ folders'[f] = f2
      /\ \A g \in DOMAIN folders : folders'[g].img = folders[g].img
  BY <1>1, FolderFlagged
<1>3. Ini(k, f) \in unflagged' \/ HasFlag(Ini(k, f))'
  <2>1. PICK i : i = Ini(k, f)
    OBVIOUS
  <2>2. i.part = k /\ i.path = f
    BY <2>1, IniParts
  <2>3. i \in unflagged' \/ HasFlag(i)'
    BY <1>1, <1>2, <2>1, <2>2 DEF HasFlag
  <2> QED BY <2>1, <2>3
<1>4. Settled
  <2>1. CASE unflagged' = unflagged \cup {Ini(k, f)}
    BY <2>1 DEF Settled
  <2>2. CASE unflagged' = unflagged \ {Ini(k, f)}
    <3>1. SUFFICES ASSUME NEW i \in unflagged, i \notin unflagged' PROVE HasFlag(i)'
      BY DEF Settled
    <3>2. i = Ini(k, f)
      BY <2>2, <3>1
    <3> QED BY <1>3, <3>1, <3>2
  <2> QED BY <2>1, <2>2 DEF FlagWritten, FlagFails
<1> QED BY <1>2, <1>3, <1>4

LEMMA ExtentKept ==
  ASSUME \A k \in 1 .. 3 : mbr_table'[k].size = mbr_table[k].size
  PROVE  \A k \in 1 .. 3 : Extent(k)' = Extent(k)
  BY DEF Extent, Resized

LEMMA TypeSetOK ==
  ASSUME mbr_table \in EmuTable, NEW k \in 1 .. 3, NEW x \in PartTypes,
         mbr_table' = [mbr_table EXCEPT ![k].type = x]
  PROVE  /\ mbr_table' \in EmuTable
         /\ \A j \in 1 .. 3 : mbr_table'[j].size = mbr_table[j].size
<1> DEFINE e == [mbr_table[k] EXCEPT !.type = x]
<1>1. mbr_table[k] \in [start : Nat, size : Nat, type : PartTypes]
  BY DEF EmuTable
<1>2. e \in [start : Nat, size : Nat, type : PartTypes] /\ e.size = mbr_table[k].size
  BY <1>1
<1>3. mbr_table' = [mbr_table EXCEPT ![k] = e]
  OBVIOUS
<1> HIDE DEF e
<1> QED BY <1>2, <1>3 DEF EmuTable

\* Nothing is damaged where images stay as they are.
LEMMA ImagesKept ==
  ASSUME \A g \in DOMAIN folders : folders'[g].img = folders[g].img, raw_image' = raw_image
  PROVE  KeepsOthers
  BY DEF KeepsOthers, Complete

---------------------------------------------------------------------------
(* The folder a creation takes *)

LEMMA LeastExists ==
  ASSUME NEW S \in SUBSET Nat, S # {}
  PROVE  \E n \in S : \A m \in S : n <= m
<1> DEFINE below(n) == 0 .. n - 1
           B == {below(n) : n \in S}
<1>1. B \subseteq FiniteSubsetsOf(Nat)
  <2> SUFFICES ASSUME NEW n \in S PROVE below(n) \in FiniteSubsetsOf(Nat)
    OBVIOUS
  <2>1. IsFiniteSet(below(n))
    BY FS_Interval
  <2> QED BY <2>1 DEF FiniteSubsetsOf
<1>2. PICK x \in B : \A y \in B : ~(<<y, x>> \in StrictSubsetOrdering(Nat))
  <2> HIDE DEF B
  <2>1. B # {}
    BY DEF B
  <2> QED BY <1>1, <2>1, FS_StrictSubsetOrderingWellFounded, WFMin
<1>3. PICK n \in S : x = below(n)
  OBVIOUS
<1>4. ASSUME NEW m \in S, m < n PROVE FALSE
  <2>1. m \in below(n) /\ m \notin below(m)
    BY <1>4
  <2>2. below(m) \subseteq below(n) /\ below(m) # below(n)
    BY <1>4, <2>1
  <2>3. below(m) \in SUBSET Nat /\ below(n) \in SUBSET Nat
    OBVIOUS
  <2>4. <<below(m), below(n)>> \in StrictSubsetOrdering(Nat)
    BY <2>2, <2>3 DEF StrictSubsetOrdering
  <2> QED BY <2>4, <1>2, <1>3
<1> QED BY <1>4

\* The slot found is new unless all are taken.
LEMMA FreeSlotOK ==
  ASSUME NEW kind
  PROVE  /\ FreeSlot(kind) \in 0 .. Slots - 1
         /\ <<kind, FreeSlot(kind)>> \notin DOMAIN folders \/ FreeSlot(kind) = Slots - 1
         /\ \A m \in 0 .. FreeSlot(kind) - 1 : <<kind, m>> \in DOMAIN folders
<1>1. Slots \in Nat \ {0}
  BY EmummcSizes
<1> DEFINE S == {n \in 0 .. Slots - 1 : <<kind, n>> \notin DOMAIN folders \/ n = Slots - 1}
<1>2. S \in SUBSET Nat /\ Slots - 1 \in S
  BY <1>1
<1>3. PICK n \in S : \A m \in S : n <= m
  <2> HIDE DEF S
  <2> QED BY <1>2, LeastExists
<1>4. \A m \in 0 .. n - 1 : <<kind, m>> \in DOMAIN folders
  <2> SUFFICES ASSUME NEW m \in 0 .. n - 1, <<kind, m>> \notin DOMAIN folders PROVE FALSE
    OBVIOUS
  <2>1. m \in S
    BY <1>1
  <2> QED BY <2>1, <1>3
<1>5. \E k \in 0 .. Slots - 1 :
         /\ <<kind, k>> \notin DOMAIN folders \/ k = Slots - 1
         /\ \A m \in 0 .. k - 1 : <<kind, m>> \in DOMAIN folders
  BY <1>3, <1>4
<1> QED BY <1>5 DEF FreeSlot

LEMMA SlotIsNew ==
  ASSUME NEW kind, <<kind, FreeSlot(kind)>> \in DOMAIN folders
  PROVE  \A m \in 0 .. Slots - 1 : <<kind, m>> \in DOMAIN folders
<1>1. Slots \in Nat \ {0} /\ FreeSlot(kind) = Slots - 1
  BY FreeSlotOK, EmummcSizes
<1>2. \A m \in 0 .. Slots - 1 : m \in 0 .. FreeSlot(kind) - 1 \/ m = FreeSlot(kind)
  BY <1>1
<1> QED BY <1>2, FreeSlotOK

---------------------------------------------------------------------------
(* The steps *)

LEMMA EmuInitOK == EmuInit => EmuInv
<1> SUFFICES ASSUME EmuInit PROVE EmuInv
  OBVIOUS
<1>1. Nothing \in EmuImage
  BY DEF Nothing, EmuImage, PieceStates
<1>2. mbr_table \in EmuTable /\ Folders /\ RawOwn
  BY EmummcSizes DEF EmuInit, EmuTable, Folders, RawOwn
<1>3. raw_image \in [1 .. 3 -> EmuImage]
  BY <1>1 DEF EmuInit
<1>4. task = NoTask /\ IniOK
  BY DEF EmuInit, IniOK, IniHasFlag, Disabled, Ini
<1> QED BY <1>2, <1>3, <1>4 DEF EmuInv

LEMMA DumpFileOK ==
  ASSUME EmuInv, dump_emummc_file
  PROVE  EmuInv' /\ KeepsOthers
<1> DEFINE f == SdFolder(FreeSlot("SD"))
           full == \A m \in 0 .. Slots - 1 : SdFolder(m) \in DOMAIN folders
<1>1. /\ task' = [pc |-> "copy", kind |-> "file", path |-> f, part |-> 0, n |-> 1, full |-> full]
      /\ folders' = WithFolder(f)
      /\ UNCHANGED <<mbr_table, raw_image, ini, unflagged, saved>>
  BY DEF dump_emummc_file, Begin
<1>2. full \in BOOLEAN
  OBVIOUS
<1>3. f \in DOMAIN folders => full
  BY SlotIsNew DEF SdFolder
<1> HIDE DEF f, full
<1>4. /\ Folders' /\ RawOwn' /\ FlagsKept
      /\ \A g \in DOMAIN folders : g \in DOMAIN folders' /\ folders'[g] = folders[g]
      /\ f \in DOMAIN folders'
      /\ f \notin DOMAIN folders => folders'[f] = NewFolder
  BY <1>1, FolderAdded DEF EmuInv
<1>5. TaskShape'
  BY <1>1, <1>2, <1>4 DEF TaskShape, Tasks
<1>6. Making'
  <2>1. ~full => folders'[f].img = Nothing
    BY <1>3, <1>4, NewFolderOK
  <2>2. ~full => \A m \in 1 .. 3 : folders'[f].img[Pieces[m]] = "none"
    BY <2>1, PiecesOK DEF Nothing
  <2>3. task'.pc = "copy" /\ task'.kind = "file" /\ task'.path = f /\ task'.n = 1
        /\ task'.full = full
    BY <1>1
  <2> QED BY <2>2, <2>3 DEF Making
<1>7. Flagged'
  BY <1>1 DEF Flagged
<1>8. IniOK'
  BY <1>1, <1>4, IniKept DEF EmuInv
<1>9. KeepsOthers
  BY <1>1, <1>4, ImagesKept
<1> QED BY <1>1, <1>4, <1>5, <1>6, <1>7, <1>8, <1>9 DEF EmuInv

LEMMA DumpRawOK ==
  ASSUME EmuInv, NEW k \in 1 .. 3, dump_emummc_raw(k)
  PROVE  EmuInv' /\ KeepsOthers
<1> DEFINE f == RawFolder(k)
<1>1. /\ task' = [pc |-> "copy", kind |-> "raw", path |-> f, part |-> k, n |-> 1, full |-> FALSE]
      /\ folders' = WithFolder(f)
      /\ UNCHANGED <<mbr_table, raw_image, ini, unflagged, saved>> /\ Available(k)
  BY DEF dump_emummc_raw, Begin
<1>2. /\ Folders' /\ RawOwn' /\ FlagsKept
      /\ \A g \in DOMAIN folders : g \in DOMAIN folders' /\ folders'[g] = folders[g]
      /\ f \in DOMAIN folders'
  BY <1>1, FolderAdded DEF EmuInv
<1>3. TaskShape'
  BY <1>1, <1>2 DEF TaskShape, Tasks
<1>4. Extent(k) <= mbr_table[k].size
  <2>1. mbr_table[k].size \in Nat /\ Protect \in Nat /\ EmmcSize \in Nat
    BY EmummcSizes DEF EmuInv, EmuTable
  <2> QED BY <2>1, <1>1 DEF Available, Extent
<1>5. Making'
  BY <1>1, <1>4 DEF Making, Extent, Resized
<1>6. Flagged'
  BY <1>1 DEF Flagged
<1>7. IniOK'
  BY <1>1, <1>2, IniKept DEF EmuInv
<1>8. KeepsOthers
  BY <1>1, <1>2, ImagesKept
<1> QED BY <1>1, <1>2, <1>3, <1>5, <1>6, <1>7, <1>8 DEF EmuInv
---------------------------------------------------------------------------
(* Copying *)

\* An operation that copies is of kind file or raw.
LEMMA CopyTask ==
  ASSUME EmuInv, task.pc \in {"copy", "flag", "ini", "move"}
  PROVE  /\ TaskShape /\ Making /\ Flagged
         /\ task.kind \in {"file", "raw", "fix", "backup"} /\ task.path \in DOMAIN folders
         /\ task.n \in 1 .. 3 /\ task.part \in 0 .. 3 /\ task.full \in BOOLEAN
<1>1. task # NoTask
  BY DEF NoTask
<1> QED BY <1>1 DEF EmuInv, TaskShape, Tasks

LEMMA FilePiece ==
  ASSUME EmuInv, task.pc \in {"copy", "move"}, NEW s \in PieceStates,
         folders' = [folders EXCEPT ![task.path].img[Pieces[task.n]] = s]
  PROVE  /\ Folders' /\ RawOwn' /\ FlagsKept /\ DOMAIN folders' = DOMAIN folders
         /\ folders'[task.path].img = [folders[task.path].img EXCEPT ![Pieces[task.n]] = s]
         /\ folders[task.path].img \in EmuImage
         /\ \A g \in DOMAIN folders : g # task.path => folders'[g] = folders[g]
<1>1. task.path \in DOMAIN folders /\ Pieces[task.n] \in PieceSet
  BY CopyTask, PiecesOK
<1> DEFINE p == task.path
           q == Pieces[task.n]
           i2 == [folders[p].img EXCEPT ![q] = s]
           e == [folders[p] EXCEPT !.img = i2]
<1>2. folders[p] \in EmuFolder
  BY <1>1 DEF EmuInv, Folders
<1>3. i2 \in EmuImage /\ folders[p].img \in EmuImage
  BY <1>1, <1>2 DEF EmuFolder, EmuImage
<1>4. folders' = [folders EXCEPT ![p] = e]
  OBVIOUS
<1> HIDE DEF i2
<1>5. e \in EmuFolder /\ e.img = i2 /\ e.file = folders[p].file /\ e.raw = folders[p].raw
  BY <1>2, <1>3 DEF EmuFolder, EmuImage
<1> HIDE DEF e, q, p
<1>6. /\ DOMAIN folders' = DOMAIN folders /\ folders'[p] = e
      /\ \A g \in DOMAIN folders : g # p => folders'[g] = folders[g]
  BY <1>1, <1>4 DEF p
<1>7. Folders'
  BY <1>5, <1>6 DEF EmuInv, Folders
<1>8. \A g \in DOMAIN folders : folders'[g].file = folders[g].file /\ folders'[g].raw = folders[g].raw
  BY <1>5, <1>6
<1>9. RawOwn'
  BY <1>6, <1>8 DEF EmuInv, RawOwn
<1>10. FlagsKept
  BY <1>6, <1>8 DEF FlagsKept
<1> QED BY <1>3, <1>5, <1>6, <1>7, <1>9, <1>10 DEF p, q, i2

\* What setting the current piece changes.
LEMMA SetPieceOK ==
  ASSUME EmuInv, task.pc = "copy", NEW s \in PieceStates, SetPiece(s)
  PROVE  /\ Folders' /\ RawOwn' /\ FlagsKept /\ DOMAIN folders' = DOMAIN folders
         /\ raw_image' \in [1 .. 3 -> EmuImage]
         /\ task.kind = "file" => folders'[task.path].img = [folders[task.path].img EXCEPT ![Pieces[task.n]] = s]
         /\ task.kind = "raw" => raw_image'[task.part] = [raw_image[task.part] EXCEPT ![Pieces[task.n]] = s]
         /\ folders[task.path].img \in EmuImage
         /\ KeepsOthers
<1>1. /\ task.path \in DOMAIN folders /\ Pieces[task.n] \in PieceSet /\ task.n \in 1 .. 3
      /\ task.full \in BOOLEAN /\ TaskShape /\ Making
  BY CopyTask, PiecesOK
<1>2. task.kind \in {"file", "raw"}
  BY <1>1 DEF TaskShape
<1>3. CASE task.kind = "file"
  <2>1. folders' = [folders EXCEPT ![task.path].img[Pieces[task.n]] = s] /\ raw_image' = raw_image
    BY <1>3 DEF SetPiece
  <2>2. /\ Folders' /\ RawOwn' /\ FlagsKept /\ DOMAIN folders' = DOMAIN folders
        /\ folders'[task.path].img = [folders[task.path].img EXCEPT ![Pieces[task.n]] = s]
        /\ folders[task.path].img \in EmuImage
        /\ \A g \in DOMAIN folders : g # task.path => folders'[g] = folders[g]
    BY <2>1, FilePiece
  <2>3. KeepsOthers
    <3>1. ~task.full => folders[task.path].img[Pieces[task.n]] = "none"
      BY <1>1, <1>3 DEF Making
    <3>2. ~task.full => ~Complete(folders[task.path].img)
      BY <3>1, <1>1 DEF Complete
    <3>3. \A g \in DOMAIN folders :
             Complete(folders[g].img) /\ ~Complete(folders'[g].img) => g = task.path
      BY <2>2
    <3>4. \A k \in 1 .. 3 : Complete(raw_image'[k]) = Complete(raw_image[k])
      BY <2>1
    <3>5. \A g \in DOMAIN folders :
             Complete(folders[g].img) /\ ~Complete(folders'[g].img) => task.path = g /\ task.full
      BY <3>2, <3>3
    <3>6. \A g \in DOMAIN folders : Complete(folders[g].img)' = Complete(folders'[g].img)
      BY DEF Complete
    <3> QED BY <3>4, <3>5, <3>6 DEF KeepsOthers
  <2> QED BY <1>3, <2>1, <2>2, <2>3 DEF EmuInv
<1>4. CASE task.kind = "raw"
  <2>1. raw_image' = [raw_image EXCEPT ![task.part][Pieces[task.n]] = s] /\ folders' = folders
    BY <1>4 DEF SetPiece
  <2>2. task.part \in 1 .. 3
    BY <1>1, <1>4 DEF TaskShape
  <2>3. /\ raw_image' \in [1 .. 3 -> EmuImage]
        /\ raw_image'[task.part] = [raw_image[task.part] EXCEPT ![Pieces[task.n]] = s]
        /\ \A k \in 1 .. 3 : k # task.part => raw_image'[k] = raw_image[k]
    BY <1>1, <2>1, <2>2 DEF EmuInv, EmuImage
  <2>4. Folders' /\ RawOwn' /\ FlagsKept
    BY <2>1, FoldersSame DEF EmuInv
  <2>5. folders[task.path].img \in EmuImage
    BY <1>1 DEF EmuInv, Folders, EmuFolder, EmuImage
  <2>6. KeepsOthers
    <3>1. \A k \in 1 .. 3 :
             Complete(raw_image[k]) /\ ~Complete(raw_image'[k]) => task.part = k
      BY <2>3
    <3>2. \A g \in DOMAIN folders : Complete(folders[g].img)' = Complete(folders[g].img)
      BY <2>1 DEF Complete
    <3> QED BY <3>1, <3>2, <1>4 DEF KeepsOthers
  <2> QED BY <1>4, <2>1, <2>3, <2>4, <2>5, <2>6
<1> QED BY <1>2, <1>3, <1>4

\* The operation ends; what else is left as it was stays sound.
LEMMA TaskOver ==
  ASSUME EmuInv, task' = NoTask, mbr_table' \in EmuTable, Folders', RawOwn',
         raw_image' \in [1 .. 3 -> EmuImage], IniOK'
  PROVE  EmuInv'
  BY DEF EmuInv

\* The image of an operation, by its kind.
LEMMA ImageOf ==
  ASSUME TaskShape
  PROVE  /\ task.kind = "file" => Image(task) = folders[task.path].img
         /\ task.kind = "raw" => Image(task) = raw_image[task.part]
  BY DEF TaskShape, Image

LEMMA TypeSetKeeps ==
  ASSUME EmuInv, task.pc = "copy", mbr_table' = TypeSet
  PROVE  /\ mbr_table' \in EmuTable
         /\ \A k \in 1 .. 3 : mbr_table'[k].size = mbr_table[k].size
<1>1. CASE task.kind = "raw" /\ task.n = 3
  <2>1. task.part \in 1 .. 3
    BY <1>1, CopyTask DEF TaskShape
  <2>2. mbr_table' = [mbr_table EXCEPT ![task.part].type = "emummc"]
    BY <1>1 DEF TypeSet
  <2>3. PICK k \in 1 .. 3 : k = task.part
    BY <2>1
  <2>4. mbr_table' = [mbr_table EXCEPT ![k].type = "emummc"]
    BY <2>2, <2>3
  <2>5. "emummc" \in PartTypes
    BY DEF PartTypes
  <2>6. mbr_table \in EmuTable
    BY DEF EmuInv
  <2> QED BY <2>4, <2>5, <2>6, TypeSetOK
<1>2. CASE ~(task.kind = "raw" /\ task.n = 3)
  BY <1>2 DEF TypeSet, EmuInv
<1> QED BY <1>1, <1>2

LEMMA PieceCopiedOK ==
  ASSUME EmuInv, PieceCopied
  PROVE  EmuInv' /\ KeepsOthers
<1>1. /\ task.pc = "copy" /\ SetPiece("whole") /\ mbr_table' = TypeSet
      /\ task' = IF task.n < 3 THEN [task EXCEPT !.n = @ + 1] ELSE [task EXCEPT !.pc = "flag"]
      /\ ini' = ini /\ unflagged' = unflagged
  BY DEF PieceCopied
<1>2. /\ TaskShape /\ Making /\ task.path \in DOMAIN folders /\ task.n \in 1 .. 3
      /\ task.full \in BOOLEAN /\ task \in Tasks
  BY <1>1, CopyTask DEF TaskShape
<1>3. task.kind \in {"file", "raw"}
  BY <1>1, <1>2 DEF TaskShape
<1>4. /\ Folders' /\ RawOwn' /\ FlagsKept /\ DOMAIN folders' = DOMAIN folders
      /\ raw_image' \in [1 .. 3 -> EmuImage]
      /\ task.kind = "file" => folders'[task.path].img = [folders[task.path].img EXCEPT ![Pieces[task.n]] = "whole"]
      /\ task.kind = "raw" => raw_image'[task.part] = [raw_image[task.part] EXCEPT ![Pieces[task.n]] = "whole"]
      /\ folders[task.path].img \in EmuImage
      /\ KeepsOthers
  <2>1. "whole" \in PieceStates
    BY DEF PieceStates
  <2> QED BY <1>1, <2>1, SetPieceOK
<1>5. /\ mbr_table' \in EmuTable
      /\ \A k \in 1 .. 3 : mbr_table'[k].size = mbr_table[k].size
  BY <1>1, TypeSetKeeps
<1>6. /\ task'.kind = task.kind /\ task'.path = task.path /\ task'.part = task.part
      /\ task'.full = task.full
      /\ task.n < 3 => task'.pc = "copy" /\ task'.n = task.n + 1
      /\ task.n = 3 => task'.pc = "flag" /\ task'.n = 3
      /\ task' \in Tasks
  <2>1. CASE task.n < 3
    <3>1. task' = [task EXCEPT !.n = @ + 1] /\ task.n + 1 \in 1 .. 3
      BY <1>1, <1>2, <2>1
    <3> QED BY <1>2, <2>1, <3>1, <1>1 DEF Tasks
  <2>2. CASE task.n = 3
    <3>1. task' = [task EXCEPT !.pc = "flag"]
      BY <1>1, <2>2
    <3> QED BY <1>2, <2>2, <3>1 DEF Tasks
  <2> QED BY <1>2, <2>1, <2>2
<1>7. TaskShape'
  <2>1. task' \in Tasks'
    BY <1>6, <1>4 DEF Tasks
  <2>2. task'.pc \in {"copy", "flag"}
    BY <1>6, <1>2
  <2> QED BY <1>2, <1>3, <1>6, <2>1, <2>2 DEF TaskShape
<1>8. \A m \in 1 .. task.n : Image(task)'[Pieces[m]] = "whole"
  <2>1. \A m \in 1 .. task.n - 1 : Image(task)[Pieces[m]] = "whole"
    BY <1>1, <1>2 DEF Making
  <2>2. Image(task)' = [Image(task) EXCEPT ![Pieces[task.n]] = "whole"] /\ Image(task) \in EmuImage
    <3>1. CASE task.kind = "file"
      <4>1. Image(task)' = folders'[task.path].img /\ Image(task) = folders[task.path].img
        BY <3>1, <1>2, <1>6 DEF Image, TaskShape
      <4> QED BY <3>1, <1>4, <4>1
    <3>2. CASE task.kind = "raw"
      <4>1. Image(task)' = raw_image'[task.part] /\ Image(task) = raw_image[task.part]
        BY <3>2, <1>2, <1>6 DEF Image, TaskShape
      <4>2. raw_image[task.part] \in EmuImage
        BY <3>2, <1>2 DEF TaskShape, EmuInv
      <4> QED BY <3>2, <1>4, <4>1, <4>2
    <3> QED BY <1>3, <3>1, <3>2
  <2> QED BY <2>1, <2>2, <1>2, PiecesOK DEF EmuImage
<1>9. task.n = 3 => Complete(Image(task))'
  BY <1>8, PiecesOK DEF Complete
<1>10. task.kind = "raw" => Extent(task.part)' <= mbr_table'[task.part].size
  <2> SUFFICES ASSUME task.kind = "raw" PROVE Extent(task.part)' <= mbr_table'[task.part].size
    OBVIOUS
  <2>1. PICK k \in 1 .. 3 : k = task.part
    BY <1>2 DEF TaskShape
  <2>2. Extent(k)' = Extent(k)
    BY <1>5, ExtentKept
  <2>3. Extent(task.part)' = Extent(k)'
    BY <2>1, <1>6 DEF Extent, Resized
  <2>4. Extent(task.part) <= mbr_table[task.part].size
    BY <1>2 DEF Making
  <2>5. Extent(task.part) = Extent(k)
    BY <2>1
  <2> QED BY <1>5, <2>1, <2>2, <2>3, <2>4, <2>5
<1>11. task'.pc = "copy" /\ task'.kind = "file" /\ ~task'.full =>
         \A m \in task'.n .. 3 : folders'[task.path].img[Pieces[m]] = "none"
  <2> SUFFICES ASSUME task'.pc = "copy", task'.kind = "file", ~task'.full,
                      NEW m \in task'.n .. 3
               PROVE  folders'[task.path].img[Pieces[m]] = "none"
    OBVIOUS
  <2>1. task.n < 3 /\ m \in task.n .. 3 /\ m # task.n /\ m \in 1 .. 3
    BY <1>2, <1>6
  <2>2. folders[task.path].img[Pieces[m]] = "none"
    BY <2>1, <1>1, <1>2, <1>6 DEF Making
  <2>3. Pieces[m] # Pieces[task.n] /\ Pieces[m] \in PieceSet
    BY <2>1, <1>2, PiecesOK
  <2> QED BY <2>2, <2>3, <1>4, <1>6 DEF EmuImage
<1>12. Making'
  <2>1. task'.pc = "copy" => \A m \in 1 .. task'.n - 1 : Image(task)'[Pieces[m]] = "whole"
    BY <1>2, <1>6, <1>8
  <2>2. task'.pc \in {"flag", "ini"} => Complete(Image(task))'
    BY <1>2, <1>6, <1>9
  <2>3. task'.kind = "raw" => Extent(task.part)' <= mbr_table'[task'.part].size
    BY <1>6, <1>10
  <2>4. task'.pc = "copy" /\ task'.kind = "file" /\ ~task'.full =>
         \A m \in task'.n .. 3 : folders'[task'.path].img[Pieces[m]] = "none"
    BY <1>6, <1>11
  <2> QED BY <2>1, <2>2, <2>3, <2>4 DEF Making
<1>13. Flagged'
  <2>1. task'.pc # "ini" /\ task'.kind # "backup"
    BY <1>2, <1>3, <1>6
  <2> QED BY <2>1 DEF Flagged
<1>14. IniOK'
  BY <1>1, <1>4, IniKept DEF EmuInv
<1> QED BY <1>4, <1>5, <1>7, <1>12, <1>13, <1>14 DEF EmuInv

LEMMA StopsCopyingOK ==
  ASSUME EmuInv, StopsCopying
  PROVE  EmuInv' /\ KeepsOthers
<1>1. task.pc = "copy" /\ task' = NoTask /\ ini' = ini /\ unflagged' = unflagged
  BY DEF StopsCopying
<1>2. mbr_table' \in EmuTable
  <2>1. mbr_table' = mbr_table \/ mbr_table' = TypeSet
    BY DEF StopsCopying
  <2> QED BY <1>1, <2>1, TypeSetKeeps DEF EmuInv
<1>3. Folders' /\ RawOwn' /\ FlagsKept /\ raw_image' \in [1 .. 3 -> EmuImage] /\ KeepsOthers
  <2>1. CASE UNCHANGED <<folders, raw_image, mbr_table>>
    <3>1. Folders' /\ RawOwn' /\ FlagsKept
      BY <2>1, FoldersSame DEF EmuInv
    <3>2. KeepsOthers
      BY <2>1, ImagesKept
    <3> QED BY <2>1, <3>1, <3>2 DEF EmuInv
  <2>2. CASE \E s \in PieceStates : SetPiece(s)
    BY <2>2, <1>1, SetPieceOK
  <2>3. {"part", "none"} \subseteq PieceStates
    BY DEF PieceStates
  <2> QED BY <2>1, <2>2, <2>3 DEF StopsCopying
<1>4. IniOK'
  BY <1>1, <1>3, IniKept DEF EmuInv
<1> QED BY <1>1, <1>2, <1>3, <1>4, TaskOver

LEMMA EmuPowerCutOK ==
  ASSUME EmuInv, EmuPowerCut
  PROVE  EmuInv' /\ KeepsOthers
<1>1. task' = NoTask /\ mbr_table' = mbr_table /\ ini' \in {ini, Disabled}
  BY DEF EmuPowerCut
<1>2. /\ Folders' /\ RawOwn' /\ FlagsKept /\ raw_image' \in [1 .. 3 -> EmuImage] /\ KeepsOthers
      /\ unflagged' = unflagged \/ Settled
  <2>1. CASE task.pc = "copy"
    <3>1. SetPiece("part") /\ "part" \in PieceStates /\ unflagged' = unflagged
      BY <2>1 DEF EmuPowerCut, PieceStates
    <3> QED BY <2>1, <3>1, SetPieceOK
  <2>2. CASE task.pc = "flag"
    <3>1. FlagFails(folders, task.path, task.part) /\ raw_image' = raw_image
      BY <2>2 DEF EmuPowerCut
    <3>2. /\ task.path \in DOMAIN folders /\ task.part \in 0 .. 3
          /\ task.part # 0 => task.path = RawFolder(task.part)
      BY <2>2, CopyTask DEF TaskShape
    <3>3. PICK f, k, W : f = task.path /\ k = task.part /\ W = folders
      OBVIOUS
    <3>4. /\ f \in DOMAIN W /\ k \in 0 .. 3 /\ (k # 0 => f = RawFolder(k)) /\ FlagFails(W, f, k)
          /\ \A n \in DOMAIN folders : n \in DOMAIN W /\ W[n] = folders[n]
          /\ \A n \in DOMAIN W : W[n] \in EmuFolder
          /\ \A j \in 1 .. 3 : RawFolder(j) \in DOMAIN W => W[RawFolder(j)].raw \in {0, j}
          /\ Folders /\ RawOwn
      BY <3>1, <3>2, <3>3 DEF EmuInv, Folders, RawOwn
    <3>5. /\ Folders' /\ RawOwn' /\ FlagsKept /\ Settled
          /\ \A g \in DOMAIN folders : folders'[g].img = folders[g].img
      BY <3>4, FlagStep
    <3>6. KeepsOthers
      BY <3>1, <3>5, ImagesKept
    <3> QED BY <3>1, <3>5, <3>6 DEF EmuInv
  <2>3. CASE task.pc \notin {"copy", "flag"}
    <3>1. UNCHANGED <<folders, raw_image, unflagged>>
      BY <2>3 DEF EmuPowerCut
    <3>2. Folders' /\ RawOwn' /\ FlagsKept
      BY <3>1, FoldersSame DEF EmuInv
    <3>3. KeepsOthers
      BY <3>1, ImagesKept
    <3> QED BY <3>1, <3>2, <3>3 DEF EmuInv
  <2> QED BY <2>1, <2>2, <2>3
<1>3. IniOK'
  <2>1. CASE ini' = ini
    BY <1>2, <2>1, IniKept
  <2>2. CASE ini' = Disabled
    BY <2>2 DEF Disabled, Ini, IniOK, IniHasFlag
  <2> QED BY <1>1, <2>1, <2>2
<1> QED BY <1>1, <1>2, <1>3, TaskOver DEF EmuInv

---------------------------------------------------------------------------
(* Flags and emummc.ini *)

LEMMA WriteFlagOK ==
  ASSUME EmuInv, WriteFlag
  PROVE  EmuInv' /\ KeepsOthers
<1>1. /\ task.pc = "flag" /\ task' = [task EXCEPT !.pc = "ini"]
      /\ UNCHANGED <<mbr_table, raw_image, ini>>
  BY DEF WriteFlag
<1>2. /\ TaskShape /\ Making /\ task.path \in DOMAIN folders /\ task \in Tasks
      /\ task.kind \in {"file", "raw"}
  BY <1>1, CopyTask DEF TaskShape
<1>3. PICK f \in DOMAIN folders : f = task.path
  BY <1>2
<1>4. PICK k, W : k = task.part /\ W = folders
  OBVIOUS
<1>5. k \in 0 .. 3 /\ (k # 0 => f = RawFolder(k))
  BY <1>2, <1>3, <1>4 DEF TaskShape, Tasks
<1>6. FlagWritten(W, f, k) \/ FlagFails(W, f, k)
  BY <1>3, <1>4 DEF WriteFlag
<1>7. /\ f \in DOMAIN W
      /\ \A n \in DOMAIN folders : n \in DOMAIN W /\ W[n] = folders[n]
      /\ \A n \in DOMAIN W : W[n] \in EmuFolder
      /\ \A j \in 1 .. 3 : RawFolder(j) \in DOMAIN W => W[RawFolder(j)].raw \in {0, j}
      /\ Folders /\ RawOwn
  BY <1>4 DEF EmuInv, Folders, RawOwn
<1>8. /\ Folders' /\ RawOwn' /\ FlagsKept /\ DOMAIN folders' = DOMAIN folders /\ Settled
      /\ \A g \in DOMAIN folders : folders'[g].img = folders[g].img
      /\ Ini(k, f) \in unflagged' \/ HasFlag(Ini(k, f))'
  BY <1>4, <1>5, <1>6, <1>7, FlagStep
<1>9. /\ task'.pc = "ini" /\ task'.kind = task.kind /\ task'.path = f /\ task'.part = task.part
      /\ task' \in Tasks
  BY <1>1, <1>2, <1>3 DEF Tasks
<1>10. TaskShape'
  BY <1>2, <1>3, <1>8, <1>9 DEF TaskShape, Tasks
<1>11. Making'
  <2>1. Complete(Image(task))
    BY <1>1, <1>2 DEF Making
  <2>2. Image(task)' = Image(task)
    BY <1>1, <1>2, <1>3, <1>8, <1>9 DEF Image
  <2>3. Complete(Image(task))'
    BY <2>1, <2>2 DEF Complete
  <2>4. Extent(task.part)' = Extent(task.part)
    BY <1>1, <1>9 DEF Extent, Resized
  <2> QED BY <1>1, <1>2, <1>9, <2>3, <2>4 DEF Making
<1>12. Flagged'
  <2>1. TaskIni' = Ini(k, f)
    BY <1>2, <1>4, <1>9 DEF TaskIni, Ini
  <2>2. HasFlag(TaskIni)' = HasFlag(Ini(k, f))'
    BY <2>1 DEF HasFlag
  <2> QED BY <1>8, <2>1, <2>2 DEF Flagged
<1>13. IniOK' /\ KeepsOthers
  BY <1>1, <1>8, IniKept, ImagesKept
<1> QED BY <1>1, <1>8, <1>10, <1>11, <1>12, <1>13 DEF EmuInv

\* save_emummc_cfg with a folder that has the flag, or with none.
LEMMA SavedCfg ==
  ASSUME EmuInv, NEW part, NEW path, SaveCfg(part, path), folders' = folders,
         unflagged' = unflagged,
         path # NoPath => Ini(part, path) \in unflagged \/ HasFlag(Ini(part, path))
  PROVE  IniOK'
<1>1. CASE ini' = ini
  <2>1. FlagsKept
    BY FoldersSame DEF EmuInv
  <2> QED BY <1>1, <2>1, IniKept
<1>2. CASE ini' = Ini(part, path)
  <2>1. HasFlag(Ini(part, path))' = HasFlag(Ini(part, path))
    BY DEF HasFlag, Ini
  <2> QED BY <1>2, <2>1, IniSet
<1> QED BY <1>1, <1>2 DEF SaveCfg

\* The operations that only write emummc.ini.
LEMMA OnlyIni ==
  ASSUME EmuInv, task' = NoTask, UNCHANGED <<mbr_table, folders, raw_image, unflagged>>, IniOK'
  PROVE  EmuInv' /\ KeepsOthers
<1>1. Folders' /\ RawOwn'
  BY FoldersSame DEF EmuInv
<1>2. KeepsOthers
  BY ImagesKept
<1> QED BY <1>1, <1>2, TaskOver DEF EmuInv

LEMMA SaveIniOK ==
  ASSUME EmuInv, SaveIni
  PROVE  EmuInv' /\ KeepsOthers
<1>1. /\ task.pc = "ini" /\ task' = NoTask /\ UNCHANGED <<mbr_table, folders, raw_image, unflagged>>
      /\ SaveCfg(task.part, IF task.kind = "backup" THEN FlagFolder ELSE task.path)
  BY DEF SaveIni
<1>2. TaskShape /\ Flagged /\ task.path \in DOMAIN folders /\ task.kind \in {"file", "raw", "fix", "backup"}
  BY <1>1, CopyTask
<1>3. PICK part, path : part = task.part /\ path = IF task.kind = "backup" THEN FlagFolder ELSE task.path
  OBVIOUS
<1>4. SaveCfg(part, path)
  BY <1>1, <1>3
<1>5. Ini(part, path) \in unflagged \/ HasFlag(Ini(part, path))
  BY <1>1, <1>2, <1>3 DEF Flagged, TaskIni
<1>6. IniOK'
  BY <1>1, <1>4, <1>5, SavedCfg
<1> QED BY <1>1, <1>6, OnlyIni

LEMMA ChooseOK ==
  ASSUME EmuInv, (\E k \in 1 .. 3 : ChooseRaw(k)) \/ (\E f \in DOMAIN folders : ChooseFile(f)) \/ Disable
  PROVE  EmuInv' /\ KeepsOthers
<1>1. task' = NoTask /\ UNCHANGED <<mbr_table, folders, raw_image, unflagged>>
  BY DEF ChooseRaw, ChooseFile, Disable, Begin
<1>2. IniOK'
  <2>1. ASSUME NEW k \in 1 .. 3, ChooseRaw(k) PROVE IniOK'
    <3>1. PICK f \in DOMAIN folders : folders[f].raw = k /\ SaveCfg(k, f)
      BY <2>1 DEF ChooseRaw, ListedFor
    <3>2. HasFlag(Ini(k, f))
      BY <3>1, IniParts DEF HasFlag
    <3> QED BY <1>1, <3>1, <3>2, SavedCfg
  <2>2. ASSUME NEW f \in DOMAIN folders, ChooseFile(f) PROVE IniOK'
    <3>1. folders[f].file /\ SaveCfg(0, f)
      BY <2>2 DEF ChooseFile
    <3>2. HasFlag(Ini(0, f))
      BY <3>1, IniParts DEF HasFlag
    <3> QED BY <1>1, <3>1, <3>2, SavedCfg
  <2>3. CASE Disable
    <3>1. SaveCfg(0, NoPath)
      BY <2>3 DEF Disable
    <3> QED BY <1>1, <3>1, SavedCfg
  <2> QED BY <2>1, <2>2, <2>3
<1> QED BY <1>1, <1>2, OnlyIni

---------------------------------------------------------------------------
(* Migration *)

LEMMA FixRawOK ==
  ASSUME EmuInv, NEW k \in 1 .. 3, FixRaw(k)
  PROVE  EmuInv' /\ KeepsOthers
<1> DEFINE f == RawFolder(k)
<1>1. /\ task' = [pc |-> "ini", kind |-> "fix", path |-> f, part |-> k, n |-> 3, full |-> FALSE]
      /\ FlagWritten(WithFolder(f), f, k) \/ FlagFails(WithFolder(f), f, k)
      /\ mbr_table' = [mbr_table EXCEPT ![k].type = "emummc"]
      /\ UNCHANGED <<raw_image, ini>>
  BY DEF FixRaw, Begin
<1>2. /\ f \in DOMAIN WithFolder(f)
      /\ \A n \in DOMAIN folders : n \in DOMAIN WithFolder(f) /\ WithFolder(f)[n] = folders[n]
      /\ \A n \in DOMAIN WithFolder(f) : WithFolder(f)[n] \in EmuFolder
      /\ \A j \in 1 .. 3 : RawFolder(j) \in DOMAIN WithFolder(f) =>
            WithFolder(f)[RawFolder(j)].raw \in {0, j}
  BY WithFolderOK DEF EmuInv
<1>3. PICK W : W = WithFolder(f)
  OBVIOUS
<1>6. /\ Folders' /\ RawOwn' /\ FlagsKept /\ DOMAIN folders' = DOMAIN W /\ Settled
      /\ \A g \in DOMAIN folders : folders'[g].img = folders[g].img
      /\ Ini(k, f) \in unflagged' \/ HasFlag(Ini(k, f))'
  <2>1. /\ f \in DOMAIN W /\ k \in 0 .. 3 /\ f = RawFolder(k)
        /\ \A n \in DOMAIN folders : n \in DOMAIN W /\ W[n] = folders[n]
        /\ \A n \in DOMAIN W : W[n] \in EmuFolder
        /\ \A j \in 1 .. 3 : RawFolder(j) \in DOMAIN W => W[RawFolder(j)].raw \in {0, j}
        /\ Folders /\ RawOwn
    BY <1>2, <1>3 DEF EmuInv
  <2>2. FlagWritten(W, f, k) \/ FlagFails(W, f, k)
    BY <1>1, <1>3
  <2> HIDE DEF f
  <2> QED BY <2>1, <2>2, FlagStep
<1>7. mbr_table' \in EmuTable
  <2>1. "emummc" \in PartTypes /\ mbr_table \in EmuTable
    BY DEF PartTypes, EmuInv
  <2> QED BY <1>1, <2>1, TypeSetOK
<1>8. TaskShape'
  BY <1>1, <1>2, <1>3, <1>6 DEF TaskShape, Tasks
<1>9. Making' /\ Flagged'
  <2>1. /\ task'.pc = "ini" /\ task'.kind = "fix" /\ task'.path = f /\ task'.part = k
    BY <1>1
  <2> HIDE DEF f
  <2>2. TaskIni' = Ini(k, f)
    BY <2>1 DEF TaskIni, Ini
  <2>3. HasFlag(TaskIni)' = HasFlag(Ini(k, f))'
    BY <2>2 DEF HasFlag
  <2> QED BY <1>6, <2>1, <2>2, <2>3 DEF Making, Flagged
<1>10. IniOK' /\ KeepsOthers
  BY <1>1, <1>6, IniKept, ImagesKept
<1> QED BY <1>1, <1>6, <1>7, <1>8, <1>9, <1>10 DEF EmuInv

LEMMA MigrateBackupOK ==
  ASSUME EmuInv, MigrateBackup
  PROVE  EmuInv' /\ KeepsOthers
<1> DEFINE full == \A m \in 0 .. Slots - 1 : BkFolder(m) \in DOMAIN folders
<1>1. PICK f : f = BkFolder(FreeSlot("BK"))
  OBVIOUS
<1>2. /\ task' = [pc |-> "move", kind |-> "backup", path |-> f, part |-> 0, n |-> 1, full |-> full]
      /\ FlagWritten(WithFolder(f), FlagFolder, 0) \/ FlagFails(WithFolder(f), FlagFolder, 0)
      /\ UNCHANGED <<mbr_table, raw_image, ini>>
  BY <1>1 DEF MigrateBackup, Begin
<1>3. full \in BOOLEAN
  OBVIOUS
<1> HIDE DEF full
<1>4. /\ DOMAIN WithFolder(f) = DOMAIN folders \cup {f}
      /\ \A n \in DOMAIN folders : n \in DOMAIN WithFolder(f) /\ WithFolder(f)[n] = folders[n]
      /\ \A n \in DOMAIN WithFolder(f) : WithFolder(f)[n] \in EmuFolder
      /\ \A j \in 1 .. 3 : RawFolder(j) \in DOMAIN WithFolder(f) =>
            WithFolder(f)[RawFolder(j)].raw \in {0, j}
  BY WithFolderOK DEF EmuInv
\* BK00 exists or is the folder made now.
<1>5. FlagFolder \in DOMAIN WithFolder(f)
  <2>1. CASE FreeSlot("BK") = 0
    BY <2>1, <1>1, <1>4 DEF FlagFolder
  <2>2. CASE FreeSlot("BK") # 0
    <3>0. FreeSlot("BK") \in 0 .. Slots - 1 /\ Slots \in Nat
      BY FreeSlotOK, EmummcSizes
    <3>1. 0 \in 0 .. FreeSlot("BK") - 1
      BY <2>2, <3>0
    <3>2. <<"BK", 0>> \in DOMAIN folders
      BY <3>1, FreeSlotOK
    <3> QED BY <3>2, <1>4 DEF FlagFolder, BkFolder
  <2> QED BY <2>1, <2>2
<1>6. PICK W, g : W = WithFolder(f) /\ g = FlagFolder
  OBVIOUS
<1>9. /\ Folders' /\ RawOwn' /\ FlagsKept /\ DOMAIN folders' = DOMAIN W /\ Settled
      /\ \A h \in DOMAIN folders : folders'[h].img = folders[h].img
      /\ Ini(0, g) \in unflagged' \/ HasFlag(Ini(0, g))'
  <2>1. /\ g \in DOMAIN W
        /\ \A n \in DOMAIN folders : n \in DOMAIN W /\ W[n] = folders[n]
        /\ \A n \in DOMAIN W : W[n] \in EmuFolder
        /\ \A j \in 1 .. 3 : RawFolder(j) \in DOMAIN W => W[RawFolder(j)].raw \in {0, j}
        /\ Folders /\ RawOwn
    BY <1>4, <1>5, <1>6 DEF EmuInv
  <2>2. FlagWritten(W, g, 0) \/ FlagFails(W, g, 0)
    BY <1>2, <1>6
  <2>3. PICK z \in 0 .. 3 : z = 0
    OBVIOUS
  <2>4. (FlagWritten(W, g, z) \/ FlagFails(W, g, z)) /\ (z # 0 => g = RawFolder(z))
    BY <2>2, <2>3
  <2>5. /\ Folders' /\ RawOwn' /\ FlagsKept /\ DOMAIN folders' = DOMAIN W /\ Settled
        /\ \A h \in DOMAIN folders : folders'[h].img = folders[h].img
        /\ Ini(z, g) \in unflagged' \/ HasFlag(Ini(z, g))'
    BY <2>1, <2>4, FlagStep
  <2> QED BY <2>3, <2>5
<1>10. f \in DOMAIN folders'
  BY <1>4, <1>6, <1>9
<1>11. TaskShape'
  BY <1>2, <1>3, <1>10 DEF TaskShape, Tasks
<1>12. Making' /\ Flagged'
  <2>1. task'.pc = "move" /\ task'.kind = "backup" /\ task'.part = 0
    BY <1>2
  <2>2. TaskIni' = Ini(0, g)
    BY <1>6, <2>1 DEF TaskIni, Ini, FlagFolder, BkFolder
  <2>3. HasFlag(TaskIni)' = HasFlag(Ini(0, g))'
    BY <2>2 DEF HasFlag
  <2> QED BY <1>9, <2>1, <2>2, <2>3 DEF Making, Flagged
<1>13. IniOK' /\ KeepsOthers
  BY <1>2, <1>9, IniKept, ImagesKept
<1> QED BY <1>2, <1>9, <1>11, <1>12, <1>13 DEF EmuInv

LEMMA MovePieceOK ==
  ASSUME EmuInv, MovePiece
  PROVE  EmuInv' /\ KeepsOthers
<1>1. /\ task.pc = "move"
      /\ task' = IF task.n < 3 THEN [task EXCEPT !.n = @ + 1] ELSE [task EXCEPT !.pc = "ini"]
      /\ UNCHANGED <<mbr_table, raw_image, ini, unflagged>>
  BY DEF MovePiece
<1>2. /\ TaskShape /\ Flagged /\ task.path \in DOMAIN folders /\ task \in Tasks
      /\ task.n \in 1 .. 3 /\ task.kind = "backup"
  BY <1>1, CopyTask DEF TaskShape
<1>3. /\ Folders' /\ RawOwn' /\ FlagsKept /\ DOMAIN folders' = DOMAIN folders /\ KeepsOthers
  <2>1. CASE Moves
    <3>1. /\ folders' = [folders EXCEPT ![task.path].img[Pieces[task.n]] = "whole"]
          /\ "whole" \in PieceStates
      BY <2>1 DEF MovePiece, PieceStates
    <3>2. /\ Folders' /\ RawOwn' /\ FlagsKept /\ DOMAIN folders' = DOMAIN folders
          /\ folders'[task.path].img = [folders[task.path].img EXCEPT ![Pieces[task.n]] = "whole"]
          /\ folders[task.path].img \in EmuImage
          /\ \A h \in DOMAIN folders : h # task.path => folders'[h] = folders[h]
      BY <1>1, <3>1, FilePiece
    <3>3. \A h \in DOMAIN folders : Complete(folders[h].img) => Complete(folders'[h].img)
      BY <3>2 DEF Complete, EmuImage
    <3>4. \A h \in DOMAIN folders : Complete(folders[h].img)' = Complete(folders'[h].img)
      BY DEF Complete
    <3>5. \A k \in 1 .. 3 : Complete(raw_image'[k]) = Complete(raw_image[k])
      BY <1>1
    <3>6. KeepsOthers
      BY <3>3, <3>4, <3>5 DEF KeepsOthers
    <3> QED BY <3>2, <3>6
  <2>2. CASE ~Moves
    <3>1. folders' = folders
      BY <2>2 DEF MovePiece
    <3> QED BY <1>1, <3>1, FoldersSame, ImagesKept DEF EmuInv
  <2> QED BY <2>1, <2>2
<1>4. task' \in Tasks /\ task'.kind = "backup" /\ task'.part = task.part /\ task'.pc \in {"move", "ini"}
  <2>1. CASE task.n < 3
    <3>1. task' = [task EXCEPT !.n = @ + 1] /\ task.n + 1 \in 1 .. 3
      BY <1>1, <1>2, <2>1
    <3> QED BY <1>1, <1>2, <3>1 DEF Tasks
  <2>2. CASE ~(task.n < 3)
    BY <1>1, <1>2, <2>2 DEF Tasks
  <2> QED BY <2>1, <2>2
<1>5. TaskShape'
  <2>1. task' \in Tasks'
    BY <1>3, <1>4 DEF Tasks
  <2> QED BY <1>2, <1>4, <2>1 DEF TaskShape
<1>6. Making'
  BY <1>4 DEF Making
<1>7. Flagged'
  <2>1. PICK i : i = TaskIni
    OBVIOUS
  <2>2. TaskIni' = i /\ i.part = 0
    BY <1>2, <1>4, <2>1, IniParts DEF TaskIni, Ini, TaskShape, FlagFolder, BkFolder
  <2>3. i \in unflagged \/ HasFlag(i)
    BY <1>2, <2>1 DEF Flagged
  <2>4. i \in unflagged' \/ HasFlag(i)'
    BY <1>1, <1>3, <2>2, <2>3 DEF HasFlag, FlagsKept
  <2>5. HasFlag(TaskIni)' = HasFlag(i)'
    BY <2>2 DEF HasFlag
  <2> QED BY <2>2, <2>4, <2>5 DEF Flagged
<1>8. IniOK'
  BY <1>1, <1>3, IniKept DEF EmuInv
<1> QED BY <1>1, <1>3, <1>5, <1>6, <1>7, <1>8 DEF EmuInv

---------------------------------------------------------------------------
(* The theorems *)

LEMMA EmuStutter ==
  ASSUME EmuInv, UNCHANGED emuVars
  PROVE  EmuInv'
<1>1. Folders' /\ RawOwn' /\ FlagsKept
  BY FoldersSame DEF EmuInv, emuVars
<1>2. IniOK'
  BY <1>1, IniKept DEF emuVars
<1>3. task # NoTask => TaskShape' /\ Making' /\ Flagged'
  BY DEF EmuInv, emuVars, TaskShape, Tasks, Making, Flagged, Image, Complete, Extent, Resized, FlagFolder,
     TaskIni, HasFlag, Ini, BkFolder
<1> QED BY <1>1, <1>2, <1>3 DEF EmuInv, emuVars

LEMMA EmuStep ==
  ASSUME EmuInv, EmuNext
  PROVE  EmuInv' /\ KeepsOthers
  BY DumpFileOK, DumpRawOK, PieceCopiedOK, StopsCopyingOK, WriteFlagOK, SaveIniOK,
     FixRawOK, MigrateBackupOK, MovePieceOK, ChooseOK, EmuPowerCutOK DEF EmuNext

LEMMA EmuAlwaysInv == EmuSpec => []EmuInv
<1>1. EmuInv /\ [EmuNext]_emuVars => EmuInv'
  BY EmuStep, EmuStutter
<1> QED BY <1>1, EmuInitOK, PTL DEF EmuSpec

\* Whatever was cancelled, failed or lost its power before: an emuMMC that a
\* creation puts into emummc.ini is complete and inside its partition, and the
\* folder emummc.ini names has the flag the boot looks for, unless writing that
\* very flag failed (save_emummc_cfg, f_open of file_based and raw_based).
THEOREM IniAlwaysSound == EmuSpec => []IniSound
<1>1. EmuInv => IniSound
  <2> SUFFICES ASSUME EmuInv, task.pc = "ini", task.kind \in {"file", "raw"}
               PROVE  /\ Complete(Image(task))
                      /\ task.kind = "raw" => Extent(task.part) <= mbr_table[task.part].size
    BY DEF IniSound, CreatedIsWhole, EmuInv, IniOK
  <2> QED BY CopyTask DEF Making
<1> QED BY <1>1, EmuAlwaysInv, PTL

\* No creation, migration, failure or power cut damages a complete emuMMC but the
\* partition it was told to use, or the last folder when all are taken
\* (dump_emummc_file, dump_emummc_raw).
THEOREM OthersAlwaysKept == EmuSpec => OthersKept
<1>1. EmuInv /\ [EmuNext]_emuVars => [KeepsOthers]_emuVars
  BY EmuStep
<1> QED BY <1>1, EmuAlwaysInv, PTL DEF EmuSpec, OthersKept, KeepsOthers

---------------------------------------------------------------------------
(* Sums.                                                                   *)

\* g[n] is the sum of the first n of p, as far as len of them.
Sums(p, len, g) == g = [n \in 0 .. len |-> IF n = 0 THEN 0 ELSE g[n - 1] + p[n]]

\* The recursion is well founded.
LEMMA SumsExist == ASSUME NEW p, NEW len \in Nat PROVE \E g : Sums(p, len, g)
<1> DEFINE B == {n \in Nat : ~\E g : Sums(p, n, g)}
<1>1. SUFFICES ASSUME B # {} PROVE FALSE
  OBVIOUS
<1>2. PICK n \in B : \A m \in B : n <= m
  <2>1. B \in SUBSET Nat
    OBVIOUS
  <2> HIDE DEF B
  <2> QED
    BY <1>1, <2>1, LeastExists
<1>3. n # 0
  <2>1. PICK g : g = [k \in 0 .. 0 |-> 0]
    OBVIOUS
  <2>2. Sums(p, 0, g)
    BY <2>1 DEF Sums
  <2> QED
    BY <2>2
<1>4. n - 1 \in Nat /\ n - 1 \notin B
  BY <1>2, <1>3
<1>5. PICK g : Sums(p, n - 1, g)
  BY <1>4
<1>6. PICK h : h = [k \in 0 .. n |-> IF k = n THEN g[n - 1] + p[n] ELSE g[k]]
  OBVIOUS
<1>7. Sums(p, n, h)
  <2>1. ASSUME NEW k \in 0 .. n PROVE h[k] = IF k = 0 THEN 0 ELSE h[k - 1] + p[k]
    <3>1. CASE k = n
      <4>1. h[k - 1] = g[n - 1]
        BY <1>3, <1>6, <3>1
      <4> QED
        BY <1>3, <1>6, <3>1, <4>1
    <3>2. CASE k # n
      <4>1. k \in 0 .. n - 1 /\ h[k] = g[k]
        BY <1>6, <3>2
      <4>2. k # 0 => h[k - 1] = g[k - 1]
        BY <1>6, <3>2
      <4>3. g[k] = IF k = 0 THEN 0 ELSE g[k - 1] + p[k]
        BY <1>5, <4>1 DEF Sums
      <4> QED
        BY <4>1, <4>2, <4>3
    <3> QED
      BY <3>1, <3>2
  <2>2. h = [k \in 0 .. n |-> h[k]]
    BY <1>6
  <2>3. h = [k \in 0 .. n |-> IF k = 0 THEN 0 ELSE h[k - 1] + p[k]]
    BY <2>1, <2>2, Zenon
  <2> QED
    BY <2>3 DEF Sums
<1> QED
  BY <1>2, <1>7

\* The sums are numbers and grow.
LEMMA SumsGrow ==
  ASSUME NEW len \in Nat, NEW p, \A n \in 1 .. len : p[n] \in Nat, NEW g, Sums(p, len, g)
  PROVE  /\ g[0] = 0
         /\ \A n \in 1 .. len : g[n] = g[n - 1] + p[n]
         /\ \A n \in 0 .. len : g[n] \in Nat
         /\ \A n \in 0 .. len : \A m \in 0 .. n : g[m] <= g[n]
<1>1. \A n \in 0 .. len : g[n] = IF n = 0 THEN 0 ELSE g[n - 1] + p[n]
  BY DEF Sums
<1>2. \A n \in 0 .. len : g[n] \in Nat
  <2> DEFINE B == {n \in 0 .. len : g[n] \notin Nat}
  <2>1. SUFFICES ASSUME B # {} PROVE FALSE
    OBVIOUS
  <2>2. PICK n \in B : \A m \in B : n <= m
    <3>1. B \in SUBSET Nat
      OBVIOUS
    <3> HIDE DEF B
    <3> QED
      BY <2>1, <3>1, LeastExists
  <2>3. n # 0
    BY <1>1
  <2>4. n - 1 \in 0 .. len /\ n - 1 \notin B
    BY <2>2, <2>3
  <2> QED
    BY <1>1, <2>3, <2>4
<1>3. ASSUME NEW m \in 0 .. len PROVE \A n \in m .. len : g[m] <= g[n]
  <2> DEFINE B == {n \in m .. len : ~(g[m] <= g[n])}
  <2>1. SUFFICES ASSUME B # {} PROVE FALSE
    OBVIOUS
  <2>2. PICK n \in B : \A i \in B : n <= i
    <3>1. B \in SUBSET Nat
      OBVIOUS
    <3> HIDE DEF B
    <3> QED
      BY <2>1, <3>1, LeastExists
  <2>3. n # m
    BY <1>2
  <2>4. n - 1 \in m .. len /\ n - 1 \notin B
    BY <2>2, <2>3
  <2>5. g[n] = g[n - 1] + p[n] /\ p[n] \in Nat /\ g[n - 1] \in Nat /\ g[m] \in Nat
    BY <1>1, <1>2, <2>3, <2>4
  <2> QED
    BY <2>4, <2>5
<1> QED
  BY <1>1, <1>2, <1>3

---------------------------------------------------------------------------
(* PartFlash: flashing Linux and Android.                                  *)

FlashStates == {"idle", "open", "copy", "failed", "retry", "done", "error"}

FlashTypes ==
    /\ l4t_files \in Seq(Nat \ {0}) /\ and_files \in [AndroidNames -> Nat]
    /\ targets \in FlashTargets
    /\ DOMAIN device = 0 .. FlashDevice - 1
    /\ flasher \in [st : FlashStates, image : Nat, part : Nat, read : Nat, lba : Nat, retryCount : {0}]

\* The files before part, and part as far as read, are where they belong.
InPlace(part, read) ==
    \A n \in 1 .. Len(l4t_files) : \A k \in 0 .. l4t_files[n] - 1 :
        n < part \/ (n = part /\ k < read) =>
            device[FlashTarget("l4t").start + L4tBefore(l4t_files)[n - 1] + k] = <<"l4t", n, k>>

\* A file that is not the last and that bytesWritten cannot count.
Endless(part) == l4t_files[part] >= FlashWrap /\ part < Len(l4t_files)

\* Where the flasher is: in the middle of a file at a multiple of a chunk, or
\* between two, or past the end of one that is endless.
Position ==
    /\ flasher.st = "open" =>
         /\ flasher.lba = L4tBefore(l4t_files)[flasher.part]
         /\ flasher.part > 0 => flasher.read = l4t_files[flasher.part]
    /\ flasher.st \in {"copy", "failed", "retry"} =>
         /\ flasher.part > 0 /\ flasher.image > 0
         /\ flasher.read < l4t_files[flasher.part] \/ Endless(flasher.part)
         /\ flasher.read % L4tChunk = 0
         /\ flasher.lba = L4tBefore(l4t_files)[flasher.part - 1] + flasher.read
    /\ flasher.st = "done" =>
         /\ flasher.part > 0 /\ flasher.read >= l4t_files[flasher.part]
         /\ flasher.part = Len(l4t_files) \/ Endless(flasher.part)

Flashing ==
    flasher.st \in {"open", "copy", "failed", "retry", "done"} =>
        /\ l4t_files # <<>> /\ Aligned(l4t_files)
        /\ flasher.lba + flasher.image = ImageSize(l4t_files)
        /\ ImageSize(l4t_files) <= FlashTarget("l4t").size
        /\ flasher.part \in 0 .. Len(l4t_files)
        /\ InPlace(flasher.part, flasher.read)
        /\ Position

\* The inductive invariant.
FlashInv == FlashTypes /\ Flashing /\ FlashStaysInside

\* A partition is on the device.
LEMMA FlashTargetOK ==
  ASSUME targets \in FlashTargets, NEW name
  PROVE  /\ FlashTarget(name).start \in Nat /\ FlashTarget(name).size \in Nat
         /\ FlashTarget(name).start + FlashTarget(name).size <= FlashDevice
<1> DEFINE named == {i \in 1 .. Len(targets) : targets[i].name = name}
<1>1. FlashDevice \in Nat /\ Len(targets) \in Nat
  BY FlashSizes
<1>2. CASE named = {}
  BY <1>1, <1>2 DEF FlashTarget
<1>3. CASE named # {}
  <2>1. named \in SUBSET Nat
    BY <1>1
  <2> HIDE DEF named
  <2>2. PICK i \in named : \A j \in named : i <= j
    BY <1>3, <2>1, LeastExists
  <2>3. PICK m : m = Min(named)
    OBVIOUS
  <2>4. m \in named
    BY <2>2, <2>3 DEF Min
  <2>5. FlashTarget(name) = targets[m]
    BY <1>3, <2>3 DEF FlashTarget, named
  <2> QED
    BY <2>4, <2>5, FlashSizes DEF named
<1> QED
  BY <1>2, <1>3

LEMMA L4tBeforeSums == ASSUME NEW p, Len(p) \in Nat PROVE Sums(p, Len(p), L4tBefore(p))
<1>1. PICK g : g = CHOOSE h : Sums(p, Len(p), h)
  OBVIOUS
<1>2. Sums(p, Len(p), g)
  BY <1>1, SumsExist
<1>3. L4tBefore(p) = g
  BY <1>1, Zenon DEF L4tBefore, Sums
<1> QED
  BY <1>2, <1>3

\* Where the files start.
LEMMA L4tBeforeOK ==
  ASSUME NEW p \in Seq(Nat \ {0})
  PROVE  /\ L4tBefore(p)[0] = 0
         /\ \A n \in 1 .. Len(p) : L4tBefore(p)[n] = L4tBefore(p)[n - 1] + p[n]
         /\ \A n \in 0 .. Len(p) : L4tBefore(p)[n] \in Nat
         /\ \A n \in 0 .. Len(p) : \A m \in 0 .. n : L4tBefore(p)[m] <= L4tBefore(p)[n]
<1>1. PICK len \in Nat : len = Len(p)
  OBVIOUS
<1>2. PICK g : g = L4tBefore(p)
  OBVIOUS
<1>3. Sums(p, len, g) /\ \A n \in 1 .. len : p[n] \in Nat
  BY <1>1, <1>2, L4tBeforeSums
<1>4. /\ g[0] = 0
      /\ \A n \in 1 .. len : g[n] = g[n - 1] + p[n]
      /\ \A n \in 0 .. len : g[n] \in Nat
      /\ \A n \in 0 .. len : \A m \in 0 .. n : g[m] <= g[n]
  BY <1>3, SumsGrow
<1> QED
  BY <1>1, <1>2, <1>4

\* The steps of a file that is a multiple of a chunk.
LEMMA ChunkMod ==
  ASSUME NEW r \in Nat, r % 2 = 0
  PROVE  /\ (r + 2) % 2 = 0
         /\ \A s \in Nat : s % 2 = 0 /\ r < s => r + 2 <= s
OBVIOUS

\* A file ends where the next one starts, the last one where the image ends.
LEMMA FileEnds ==
  ASSUME NEW f \in Seq(Nat \ {0}), NEW part \in 1 .. Len(f)
  PROVE  /\ L4tBefore(f)[part - 1] \in Nat /\ f[part] \in Nat \ {0} /\ L4tBefore(f)[Len(f)] \in Nat
         /\ L4tBefore(f)[part] = L4tBefore(f)[part - 1] + f[part]
         /\ part = Len(f) => L4tBefore(f)[part - 1] + f[part] = L4tBefore(f)[Len(f)]
         /\ part # Len(f) => L4tBefore(f)[part - 1] + f[part] < L4tBefore(f)[Len(f)]
<1>1. PICK len \in Nat \ {0} : len = Len(f)
  OBVIOUS
<1>2. PICK g : g = L4tBefore(f)
  OBVIOUS
<1>3. /\ \A n \in 1 .. len : g[n] = g[n - 1] + f[n] /\ f[n] \in Nat \ {0}
      /\ \A n \in 0 .. len : g[n] \in Nat
      /\ \A n \in 0 .. len : \A m \in 0 .. n : g[m] <= g[n]
  <2>1. \A n \in 1 .. len : f[n] \in Nat \ {0}
    BY <1>1
  <2> QED BY <1>1, <1>2, <2>1, L4tBeforeOK
<1>4. g[part - 1] \in Nat /\ g[part] = g[part - 1] + f[part] /\ f[part] \in Nat \ {0} /\ g[len] \in Nat
  BY <1>1, <1>3
<1>5. ASSUME part # len PROVE g[part] < g[len]
  <2>1. part + 1 \in 1 .. len /\ part \in 0 .. len
    BY <1>1, <1>5
  <2>2. g[part + 1] = g[part] + f[part + 1] /\ f[part + 1] \in Nat \ {0} /\ g[part] \in Nat
    <3>1. (part + 1) - 1 = part
      BY <2>1
    <3> QED BY <1>3, <2>1, <3>1
  <2>3. g[part + 1] <= g[len]
    <3>1. len \in 0 .. len /\ part + 1 \in 0 .. len
      BY <1>1, <2>1
    <3> QED BY <1>3, <3>1
  <2>4. PICK x \in Nat \ {0} : x = f[part + 1]
    BY <2>2
  <2>5. PICK a \in Nat, b \in Nat, e \in Nat : a = g[part] /\ b = g[part + 1] /\ e = g[len]
    BY <1>4, <2>2
  <2>6. b = a + x /\ b <= e
    BY <2>2, <2>3, <2>4, <2>5
  <2>7. a < e
    BY <2>6
  <2> QED
    BY <2>5, <2>7
<1> QED
  BY <1>1, <1>2, <1>4, <1>5

\* The next chunk c of a file of s blocks: read of them are done, image blocks
\* are left of all files.
ChunkAt(s, read, image, c) ==
    /\ read < s /\ read % 2 = 0 /\ s <= read + image /\ (s # read + image => s % 2 = 0)
    /\ c = IF image < 2 THEN image ELSE 2

ChunkIn(s, read, image, c) ==
    /\ c \in 1 .. 2 /\ image - c \in Nat /\ read + c \in Nat
    /\ read + c <= s
    /\ read + c < s => (read + c) % 2 = 0 /\ image # c
    /\ image = c => s = read + image

LEMMA ChunkArith ==
  ASSUME NEW s \in Nat, NEW read \in Nat, NEW image \in Nat, NEW c, ChunkAt(s, read, image, c)
  PROVE  ChunkIn(s, read, image, c)
<1> USE DEF ChunkAt, ChunkIn
<1>1. CASE s = read + image
  <2>1. c # image => c = 2 /\ image > 2
    BY <1>1
  <2>2. c \in 1 .. 2 /\ image - c \in Nat
    BY <1>1
  <2> QED BY <1>1, <2>1, <2>2, ChunkMod
<1>2. CASE s # read + image
  <2>1. read + 2 <= s
    BY <1>2, ChunkMod
  <2>2. image > 2 /\ c = 2
    BY <1>2, <2>1
  <2> QED BY <2>1, <2>2, ChunkMod
<1> QED BY <1>1, <1>2

\* Where the flasher reads: image blocks are left from block read of file part on.
ReadsAt(f, part, read, image) ==
    /\ Aligned(f) /\ read < f[part] /\ read % 2 = 0
    /\ L4tBefore(f)[part - 1] + read + image = L4tBefore(f)[Len(f)]

\* A chunk stays inside its file, and it is the last one when it ends the last file.
ChunkOf(f, part, read, image, c) ==
    /\ c \in 1 .. 2 /\ image - c \in Nat /\ read + c \in Nat
    /\ read + c <= f[part]
    /\ read + c < f[part] => (read + c) % 2 = 0 /\ image # c
    /\ image = c => part = Len(f) /\ read + c = f[part]
    /\ part = Len(f) => f[part] = read + image

LEMMA ChunkFits ==
  ASSUME NEW f \in Seq(Nat \ {0}), NEW part \in 1 .. Len(f), NEW read \in Nat, NEW image \in Nat,
         ReadsAt(f, part, read, image),
         NEW c, c = IF image < 2 THEN image ELSE 2
  PROVE  ChunkOf(f, part, read, image, c)
<1>1. PICK s \in Nat : s = f[part]
  BY FileEnds
<1> PICK a \in Nat, b \in Nat : a = L4tBefore(f)[part - 1] /\ b = L4tBefore(f)[Len(f)]
  BY FileEnds
<1>0. a + read + image = b
  BY DEF ReadsAt
<1>2. part = Len(f) => s = read + image
  <2>1. part = Len(f) => a + s = b
    BY <1>1, FileEnds
  <2> QED BY <1>0, <2>1
<1>3. part # Len(f) => s < read + image
  <2>1. part # Len(f) => a + s < b
    BY <1>1, FileEnds
  <2> QED BY <1>0, <2>1
<1>4. part # Len(f) => s % 2 = 0
  BY <1>1 DEF ReadsAt, Aligned, L4tChunk
<1>5. s <= read + image /\ (s # read + image => s % 2 = 0)
  BY <1>2, <1>3, <1>4
<1>6. read < s /\ read % 2 = 0
  BY <1>1 DEF ReadsAt
<1>7. ChunkIn(s, read, image, c)
  <2>1. ChunkAt(s, read, image, c)
    BY <1>5, <1>6 DEF ChunkAt
  <2> QED BY <2>1, ChunkArith
<1> QED
  BY <1>1, <1>2, <1>3, <1>7 DEF ChunkIn, ChunkOf

\* What comes before a place in the image lies below it, and all of it below the end.
LEMMA BlocksBelow ==
  ASSUME NEW f \in Seq(Nat \ {0}), NEW n \in 1 .. Len(f), NEW k \in 0 .. f[n] - 1
  PROVE  /\ L4tBefore(f)[n - 1] + k \in Nat
         /\ L4tBefore(f)[n - 1] + k < L4tBefore(f)[Len(f)]
         /\ \A part \in 1 .. Len(f) : n < part => L4tBefore(f)[n - 1] + k < L4tBefore(f)[part - 1]
<1>1. PICK len \in Nat \ {0} : len = Len(f)
  OBVIOUS
<1>2. PICK g : g = L4tBefore(f)
  OBVIOUS
<1>3. /\ \A i \in 1 .. len : g[i] = g[i - 1] + f[i] /\ f[i] \in Nat \ {0}
      /\ \A i \in 0 .. len : g[i] \in Nat
      /\ \A i \in 0 .. len : \A m \in 0 .. i : g[m] <= g[i]
  <2>1. \A i \in 1 .. len : f[i] \in Nat \ {0}
    BY <1>1
  <2> QED BY <1>1, <1>2, <2>1, L4tBeforeOK
<1>4. g[n - 1] \in Nat /\ g[n - 1] + k < g[n] /\ g[n] \in Nat /\ k \in Nat
  <2>1. f[n] \in Nat /\ g[n] = g[n - 1] + f[n] /\ g[n - 1] \in Nat
    BY <1>1, <1>3
  <2> QED BY <2>1
<1>5. g[n] <= g[len] /\ g[len] \in Nat
  BY <1>1, <1>3
<1>6. ASSUME NEW part \in 1 .. Len(f), n < part PROVE g[n - 1] + k < g[part - 1]
  <2>1. part - 1 \in 0 .. len /\ n \in 0 .. part - 1
    BY <1>1, <1>6
  <2>2. g[n] <= g[part - 1] /\ g[part - 1] \in Nat
    BY <1>3, <2>1
  <2> QED BY <1>4, <2>2
<1> QED
  BY <1>1, <1>2, <1>4, <1>5, <1>6

LEMMA NumIs == ASSUME flasher.image \in Nat PROVE num = IF flasher.image < 2 THEN flasher.image ELSE 2
<1>1. PICK x \in Nat : x = flasher.image
  OBVIOUS
<1>2. \A m \in {x, 2} : (\A y \in {x, 2} : m <= y) => m = IF x < 2 THEN x ELSE 2
  OBVIOUS
<1>3. \E m \in {x, 2} : \A y \in {x, 2} : m <= y
  <2>1. CASE x < 2
    BY <2>1
  <2>2. CASE ~(x < 2)
    BY <2>2
  <2> QED BY <2>1, <2>2
<1>4. PICK m : m = Min({x, 2})
  OBVIOUS
<1>5. m \in {x, 2} /\ \A y \in {x, 2} : m <= y
  BY <1>3, <1>4 DEF Min
<1>6. m = IF x < 2 THEN x ELSE 2
  BY <1>2, <1>5
<1> QED
  BY <1>1, <1>4, <1>6 DEF num, L4tChunk

LEMMA FlashInitOK == FlashInit => FlashInv
<1> SUFFICES ASSUME FlashInit PROVE FlashInv
  OBVIOUS
<1>1. FlashTypes
  BY FlashSizes DEF FlashInit, FlashTypes, NoFlash, FlashStates
<1>2. Flashing
  BY DEF FlashInit, Flashing, NoFlash
<1>3. FlashStaysInside
  BY DEF FlashInit, FlashStaysInside
<1> QED
  BY <1>1, <1>2, <1>3 DEF FlashInv

\* bytesWritten counts a file below 4 GiB as it should, and never reaches one above.
LEMMA CountWraps ==
  ASSUME NEW x \in Nat
  PROVE  x % FlashWrap \in Nat /\ x % FlashWrap < FlashWrap /\ (x < FlashWrap => x % FlashWrap = x)
<1>1. PICK w \in Nat \ {0} : w = FlashWrap
  BY FlashSizes
<1>2. x % w \in Nat /\ x % w < w
  OBVIOUS
<1>3. x < w => x % w = x
  OBVIOUS
<1> QED BY <1>1, <1>2, <1>3

\* What the invariant says of a chunk that is about to be written.
LEMMA ChunkState ==
  ASSUME FlashInv, flasher.st \in {"copy", "failed", "retry"}
  PROVE  /\ flasher.part \in 1 .. Len(l4t_files)
         /\ num \in 1 .. 2 /\ flasher.image - num \in Nat /\ flasher.read + num \in Nat
         /\ flasher.lba \in Nat /\ flasher.lba + num <= FlashTarget("l4t").size
         /\ flasher.image # num => (flasher.read + num) % 2 = 0
         /\ flasher.read < l4t_files[flasher.part] =>
              ChunkOf(l4t_files, flasher.part, flasher.read, flasher.image, num)
         /\ flasher.read < l4t_files[flasher.part] \/ Endless(flasher.part)
<1>1. PICK f \in Seq(Nat \ {0}), image \in Nat, read \in Nat, part \in Nat, lba \in Nat :
        f = l4t_files /\ image = flasher.image /\ read = flasher.read /\ part = flasher.part /\ lba = flasher.lba
  BY DEF FlashInv, FlashTypes
<1>2. /\ Aligned(f) /\ part \in 1 .. Len(f) /\ read % 2 = 0 /\ image > 0
      /\ read < f[part] \/ Endless(part)
      /\ lba = L4tBefore(f)[part - 1] + read /\ lba + image = L4tBefore(f)[Len(f)]
      /\ L4tBefore(f)[Len(f)] <= FlashTarget("l4t").size
  BY <1>1 DEF FlashInv, Flashing, Position, ImageSize, L4tChunk
<1>4. PICK c : c = num
  OBVIOUS
<1>5. c = IF image < 2 THEN image ELSE 2
  BY <1>1, <1>4, NumIs
<1>6. read < f[part] => ChunkOf(f, part, read, image, c)
  <2>1. part \in 1 .. Len(f)
    BY <1>2
  <2>2. read < f[part] => ReadsAt(f, part, read, image)
    BY <1>2 DEF ReadsAt
  <2> QED BY <1>5, <2>1, <2>2, ChunkFits
<1>8. c \in 1 .. 2 /\ image - c \in Nat /\ read + c \in Nat
  BY <1>2, <1>5
<1>9. image # c => (read + c) % 2 = 0
  <2>1. image # c => c = 2
    BY <1>5
  <2> QED BY <1>2, <2>1, ChunkMod
<1>7. lba + c <= FlashTarget("l4t").size
  <2>1. PICK size \in Nat : size = FlashTarget("l4t").size
    BY FlashTargetOK DEF FlashInv, FlashTypes
  <2>2. PICK all \in Nat : all = L4tBefore(f)[Len(f)]
    BY <1>2, FileEnds
  <2>3. lba + image = all /\ all <= size
    BY <1>2, <2>1, <2>2
  <2> QED BY <1>8, <2>1, <2>3
<1> QED
  BY <1>1, <1>2, <1>4, <1>6, <1>7, <1>8, <1>9

\* The data of a chunk goes where it belongs and nowhere else.
LEMMA ChunkWritten ==
  ASSUME FlashInv, flasher.st \in {"copy", "failed", "retry"},
         NEW data, DOMAIN data = 1 .. num, Len(data) = num, \A i \in 1 .. num : data[i][1] = "l4t",
         Write(FlashTarget("l4t").start + flasher.lba, data), UNCHANGED <<l4t_files, targets>>
  PROVE  /\ DOMAIN device' = 0 .. FlashDevice - 1
         /\ FlashStaysInside'
         /\ \A n \in 1 .. Len(l4t_files) : \A k \in 0 .. l4t_files[n] - 1 :
              n < flasher.part \/ (n = flasher.part /\ k < flasher.read) =>
                device'[FlashTarget("l4t").start + L4tBefore(l4t_files)[n - 1] + k] = <<"l4t", n, k>>
         /\ \A i \in 1 .. num : device'[FlashTarget("l4t").start + flasher.lba + i - 1] = data[i]
<1>1. PICK start \in Nat, size \in Nat : start = FlashTarget("l4t").start /\ size = FlashTarget("l4t").size
  BY FlashTargetOK DEF FlashInv, FlashTypes
<1>2. start + size <= FlashDevice /\ FlashDevice \in Nat
  BY <1>1, FlashTargetOK, FlashSizes DEF FlashInv, FlashTypes
<1>3. PICK c \in 1 .. 2, lba \in Nat : c = num /\ lba = flasher.lba /\ lba + c <= size
  BY <1>1, ChunkState
<1>4. /\ DOMAIN device = 0 .. FlashDevice - 1
      /\ device' = [b \in DOMAIN device |->
                      IF b \in start + lba .. start + lba + c - 1 THEN data[b - (start + lba) + 1] ELSE device[b]]
  BY <1>1, <1>3 DEF FlashInv, FlashTypes, Write
<1>5. \A i \in 1 .. c : device'[start + lba + i - 1] = data[i]
  <2> SUFFICES ASSUME NEW i \in 1 .. c PROVE device'[start + lba + i - 1] = data[i]
    OBVIOUS
  <2>1. PICK b : b = start + lba + i - 1
    OBVIOUS
  <2>2. b \in 0 .. FlashDevice - 1 /\ b \in start + lba .. start + lba + c - 1 /\ b - (start + lba) + 1 = i
    <3>1. PICK end \in Nat : end = FlashDevice
      BY <1>2
    <3>2. start + size <= end /\ lba + c <= size /\ c \in Nat
      BY <1>2, <1>3, <3>1
    <3> QED BY <2>1, <3>1, <3>2
  <2> QED BY <1>4, <2>1, <2>2
<1>6. \A b \in 0 .. FlashDevice - 1 : b < start + lba => device'[b] = device[b]
  BY <1>3, <1>4
<1>7. FlashStaysInside'
  <2> SUFFICES ASSUME NEW b \in 0 .. FlashDevice - 1, device'[b] # Old
               PROVE  In(FlashTarget(device[b][1]), b)'
    BY <1>4 DEF FlashStaysInside
  <2>1. PICK name : name = device'[b][1]
    OBVIOUS
  <2>2. FlashTarget(device[b][1])' = FlashTarget(name)
    BY <2>1 DEF FlashTarget
  <2>3. SUFFICES b \in FlashTarget(name).start .. FlashTarget(name).start + FlashTarget(name).size - 1
    BY <2>2 DEF In
  <2>4. CASE b \in start + lba .. start + lba + c - 1
    <3>1. b - (start + lba) + 1 \in 1 .. num /\ device'[b] = data[b - (start + lba) + 1]
      <4>1. b - (start + lba) + 1 \in 1 .. c
        BY <2>4
      <4>2. device'[b] = data[b - (start + lba) + 1]
        BY <1>4, <2>4
      <4> QED BY <1>3, <4>1, <4>2
    <3>2. name = "l4t"
      BY <2>1, <3>1
    <3>3. b \in start .. start + size - 1
      BY <1>3, <2>4
    <3> QED BY <1>1, <3>2, <3>3
  <2>5. CASE b \notin start + lba .. start + lba + c - 1
    <3>1. device'[b] = device[b]
      BY <1>4, <2>5
    <3>2. In(FlashTarget(device[b][1]), b)
      BY <1>4, <3>1 DEF FlashInv, FlashStaysInside
    <3> QED BY <2>1, <3>1, <3>2 DEF In
  <2> QED BY <2>4, <2>5
<1>8. ASSUME NEW n \in 1 .. Len(l4t_files), NEW k \in 0 .. l4t_files[n] - 1,
             n < flasher.part \/ (n = flasher.part /\ k < flasher.read)
      PROVE  device'[start + L4tBefore(l4t_files)[n - 1] + k] = <<"l4t", n, k>>
  <2>1. PICK f \in Seq(Nat \ {0}), read \in Nat, part \in Nat :
          f = l4t_files /\ read = flasher.read /\ part = flasher.part
    BY DEF FlashInv, FlashTypes
  <2>2. /\ part \in 1 .. Len(f) /\ lba = L4tBefore(f)[part - 1] + read
        /\ L4tBefore(f)[Len(f)] <= size
    <3>1. /\ flasher.part \in 0 .. Len(l4t_files) /\ flasher.part > 0
          /\ flasher.lba = L4tBefore(l4t_files)[flasher.part - 1] + flasher.read
          /\ ImageSize(l4t_files) <= FlashTarget("l4t").size
      BY DEF FlashInv, Flashing, Position
    <3>2. part \in 0 .. Len(f) /\ part > 0 /\ lba = L4tBefore(f)[part - 1] + read
      BY <1>3, <2>1, <3>1
    <3>3. L4tBefore(f)[Len(f)] <= size
      BY <1>1, <2>1, <3>1 DEF ImageSize
    <3> QED BY <3>2, <3>3
  <2>3. /\ L4tBefore(f)[n - 1] + k \in Nat
        /\ L4tBefore(f)[n - 1] + k < L4tBefore(f)[Len(f)]
        /\ n < part => L4tBefore(f)[n - 1] + k < L4tBefore(f)[part - 1]
    BY <2>1, <2>2, BlocksBelow
  <2>4. PICK x \in Nat : x = L4tBefore(f)[n - 1] + k
    BY <2>3
  <2>5. PICK a \in Nat, all \in Nat : a = L4tBefore(f)[part - 1] /\ all = L4tBefore(f)[Len(f)]
    BY <2>2, FileEnds
  <2>6. x < lba
    <3>1. n < part => x < a
      BY <2>3, <2>4, <2>5
    <3>2. n = part /\ k < read => x < a + read
      BY <2>4, <2>5
    <3>3. lba = a + read
      BY <2>2, <2>5
    <3> QED BY <1>8, <2>1, <3>1, <3>2, <3>3
  <2>7. start + x \in 0 .. FlashDevice - 1 /\ start + x < start + lba
    <3>1. x < all /\ all <= size
      BY <2>2, <2>3, <2>4, <2>5
    <3>2. PICK end \in Nat : end = FlashDevice
      BY <1>2
    <3>3. start + size <= end
      BY <1>2, <3>2
    <3> QED BY <2>6, <3>1, <3>2, <3>3
  <2>8. device[start + x] = <<"l4t", n, k>>
    <3>1. device[start + L4tBefore(f)[n - 1] + k] = <<"l4t", n, k>>
      BY <1>1, <1>8, <2>1 DEF FlashInv, Flashing, InPlace
    <3>2. start + L4tBefore(f)[n - 1] + k = start + x
      <4>1. L4tBefore(f)[n - 1] \in Nat
        BY <2>1, L4tBeforeOK
      <4> QED BY <2>4, <4>1
    <3> QED BY <3>1, <3>2
  <2>9. start + L4tBefore(f)[n - 1] + k = start + x
    <3>1. L4tBefore(f)[n - 1] \in Nat
      BY <2>1, L4tBeforeOK
    <3> QED BY <2>4, <3>1
  <2> QED BY <1>6, <2>1, <2>7, <2>8, <2>9
<1>9. DOMAIN device' = 0 .. FlashDevice - 1
  BY <1>4
<1>10. \A i \in 1 .. num : device'[FlashTarget("l4t").start + flasher.lba + i - 1] = data[i]
  BY <1>1, <1>3, <1>5
<1> QED
  BY <1>1, <1>7, <1>8, <1>9, <1>10

\* What is on a device that is left alone stays inside its partitions.
LEMMA InsideKept ==
  ASSUME FlashStaysInside, UNCHANGED <<targets, device>>
  PROVE  FlashStaysInside'
<1> SUFFICES ASSUME NEW b \in DOMAIN device', device'[b] # Old
             PROVE  In(FlashTarget(device[b][1]), b)'
  BY DEF FlashStaysInside
<1>1. PICK name : name = device[b][1] /\ device'[b][1] = name
  OBVIOUS
<1>2. FlashTarget(device[b][1])' = FlashTarget(name)
  BY <1>1 DEF FlashTarget
<1>3. In(FlashTarget(name), b)
  BY <1>1 DEF FlashStaysInside
<1> QED BY <1>2, <1>3 DEF In

\* Steps that leave files, partitions and device alone.
LEMMA FlashMoves ==
  ASSUME FlashInv, UNCHANGED <<l4t_files, and_files, targets, device>>,
         flasher' \in [st : FlashStates, image : Nat, part : Nat, read : Nat, lba : Nat, retryCount : {0}],
         Flashing'
  PROVE  FlashInv'
<1>1. FlashTypes'
  BY DEF FlashInv, FlashTypes
<1>2. FlashStaysInside'
  BY InsideKept DEF FlashInv
<1> QED BY <1>1, <1>2 DEF FlashInv

\* The flasher stops, or has not begun.
LEMMA FlashRests ==
  ASSUME FlashInv, UNCHANGED <<l4t_files, and_files, targets, device>>,
         flasher' = [flasher EXCEPT !.st = "error"]
  PROVE  FlashInv'
<1>1. flasher' \in [st : FlashStates, image : Nat, part : Nat, read : Nat, lba : Nat, retryCount : {0}]
  BY DEF FlashInv, FlashTypes, FlashStates
<1>2. flasher'.st = "error"
  BY DEF FlashInv, FlashTypes
<1>3. Flashing'
  BY <1>2 DEF Flashing
<1> QED BY <1>1, <1>3, FlashMoves

LEMMA FlashFailsOK == FlashInv /\ FlashFails => FlashInv'
<1> SUFFICES ASSUME FlashInv, FlashFails PROVE FlashInv'
  OBVIOUS
<1> QED BY FlashRests DEF FlashFails, FlashL4t

LEMMA CheckFlashOK == FlashInv /\ _action_check_flash_linux => FlashInv'
<1> SUFFICES ASSUME FlashInv, _action_check_flash_linux PROVE FlashInv'
  OBVIOUS
<1>1. /\ flasher' = [NoFlash EXCEPT !.st = "open", !.image = ImageSize(l4t_files)]
      /\ UNCHANGED <<l4t_files, and_files, targets, device>>
      /\ l4t_files # <<>> /\ Aligned(l4t_files) /\ ~ImageTooBig(ImageSize(l4t_files), FlashTarget("l4t").size)
  BY DEF _action_check_flash_linux
<1>2. PICK f \in Seq(Nat \ {0}) : f = l4t_files
  BY DEF FlashInv, FlashTypes
<1>3. L4tBefore(f)[0] = 0
  BY L4tBeforeOK
<1>4. PICK all \in Nat : all = ImageSize(f)
  <2>1. Len(f) \in 0 .. Len(f)
    OBVIOUS
  <2> QED BY <2>1, L4tBeforeOK DEF ImageSize
<1>5. PICK size \in Nat : size = FlashTarget("l4t").size
  BY FlashTargetOK DEF FlashInv, FlashTypes
<1>6. all <= size
  BY <1>1, <1>2, <1>4, <1>5 DEF ImageTooBig
<1>7. flasher' = [st |-> "open", image |-> all, part |-> 0, read |-> 0, lba |-> 0, retryCount |-> 0]
  BY <1>1, <1>2, <1>4 DEF NoFlash
<1>8. flasher' \in [st : FlashStates, image : Nat, part : Nat, read : Nat, lba : Nat, retryCount : {0}]
  BY <1>7 DEF FlashStates
<1>9. FlashTarget("l4t")' = FlashTarget("l4t") /\ l4t_files' = f
  BY <1>1, <1>2 DEF FlashTarget
<1>10. InPlace(flasher.part, flasher.read)'
  BY <1>7, <1>9 DEF InPlace
<1>11. Position'
  BY <1>3, <1>7, <1>9 DEF Position
<1>12. Flashing'
  <2>1. /\ flasher'.part = 0 /\ flasher'.lba = 0 /\ flasher'.image = all
        /\ 0 \in 0 .. Len(f) /\ 0 + all = all
    BY <1>7
  <2>2. /\ l4t_files' # <<>> /\ Aligned(l4t_files)' /\ ImageSize(l4t_files)' = all
        /\ FlashTarget("l4t")'.size = size
    BY <1>1, <1>2, <1>4, <1>5, <1>9 DEF Aligned, ImageSize
  <2> QED BY <1>6, <1>9, <1>10, <1>11, <2>1, <2>2 DEF Flashing
<1> QED BY <1>1, <1>8, <1>12, FlashMoves

LEMMA OpenPartOK == FlashInv /\ OpenL4tPart => FlashInv'
<1> SUFFICES ASSUME FlashInv, OpenL4tPart, ~FlashFails PROVE FlashInv'
  BY FlashFailsOK
<1>1. /\ flasher.st = "open" /\ UNCHANGED <<l4t_files, and_files, targets, device>>
      /\ flasher.part < Len(l4t_files)
      /\ flasher' = [flasher EXCEPT !.st = "copy", !.part = flasher.part + 1, !.read = 0]
  BY DEF OpenL4tPart, FlashL4t
<1>2. PICK f \in Seq(Nat \ {0}), part \in Nat, read \in Nat, lba \in Nat, image \in Nat :
        /\ f = l4t_files /\ part = flasher.part /\ read = flasher.read
        /\ lba = flasher.lba /\ image = flasher.image
  BY DEF FlashInv, FlashTypes
<1>3. flasher' = [st |-> "copy", image |-> image, part |-> part + 1, read |-> 0, lba |-> lba, retryCount |-> 0]
  BY <1>1, <1>2 DEF FlashInv, FlashTypes
<1>4. flasher' \in [st : FlashStates, image : Nat, part : Nat, read : Nat, lba : Nat, retryCount : {0}]
  BY <1>2, <1>3 DEF FlashStates
<1>5. FlashTarget("l4t")' = FlashTarget("l4t") /\ l4t_files' = f
  BY <1>1, <1>2 DEF FlashTarget
<1>6. part + 1 \in 1 .. Len(f) /\ f[part + 1] \in Nat \ {0} /\ (part + 1) - 1 = part
  BY <1>1, <1>2
<1>7. Position'
  <2>1. lba = L4tBefore(f)[part] /\ L4tBefore(f)[part] \in Nat
    BY <1>1, <1>2, <1>6, L4tBeforeOK DEF FlashInv, Flashing, Position
  <2>2. 0 % L4tChunk = 0
    BY DEF L4tChunk
  <2>3. image > 0
    <3>1. lba + image = L4tBefore(f)[Len(f)]
      BY <1>1, <1>2 DEF FlashInv, Flashing, ImageSize
    <3>2. 0 \in 0 .. f[part + 1] - 1
      BY <1>6
    <3>3. L4tBefore(f)[(part + 1) - 1] + 0 < L4tBefore(f)[Len(f)]
      BY <1>6, <3>2, BlocksBelow
    <3>4. PICK a \in Nat : a = L4tBefore(f)[part]
      BY <2>1
    <3>5. lba = a /\ a + 0 < lba + image
      BY <1>6, <2>1, <3>1, <3>3, <3>4
    <3> QED BY <3>5
  <2>4. flasher'.read < l4t_files'[flasher'.part]
    BY <1>3, <1>5, <1>6
  <2> QED BY <1>3, <1>5, <1>6, <2>1, <2>2, <2>3, <2>4 DEF Position
<1>8. InPlace(flasher.part, flasher.read)'
  <2> SUFFICES ASSUME NEW n \in 1 .. Len(f), NEW k \in 0 .. f[n] - 1, n < part + 1 \/ (n = part + 1 /\ k < 0)
               PROVE  device[FlashTarget("l4t").start + L4tBefore(f)[n - 1] + k] = <<"l4t", n, k>>
    <3>1. flasher'.part = part + 1 /\ flasher'.read = 0 /\ device' = device
      <4>1. flasher'.part = part + 1 /\ flasher'.read = 0
        BY <1>3
      <4> QED BY <1>1, <4>1
    <3>2. PICK d, st, p, r : /\ d = device /\ st = FlashTarget("l4t").start /\ p = part + 1 /\ r = 0
                             /\ device' = d /\ FlashTarget("l4t")'.start = st
                             /\ flasher'.part = p /\ flasher'.read = r
      BY <1>5, <3>1
    <3>3. SUFFICES \A n \in 1 .. Len(f) : \A k \in 0 .. f[n] - 1 :
                     n < p \/ (n = p /\ k < r) => d[st + L4tBefore(f)[n - 1] + k] = <<"l4t", n, k>>
      BY <1>5, <3>2 DEF InPlace
    <3> QED BY <3>2
  <2>1. n < part \/ (n = part /\ k < read)
    <3>1. n < part \/ n = part
      BY <1>6
    <3>2. n = part => read = f[n]
      BY <1>1, <1>2 DEF FlashInv, Flashing, Position
    <3> QED BY <1>2, <3>1, <3>2
  <2> QED BY <1>1, <1>2, <2>1 DEF FlashInv, Flashing, InPlace
<1>9. Flashing'
  <2>1. /\ l4t_files # <<>> /\ Aligned(f) /\ lba + image = ImageSize(f)
        /\ ImageSize(f) <= FlashTarget("l4t").size
    BY <1>1, <1>2 DEF FlashInv, Flashing
  <2> QED BY <1>2, <1>3, <1>5, <1>6, <1>7, <1>8, <2>1 DEF Flashing
<1> QED BY <1>1, <1>4, <1>9, FlashMoves

\* A failed write leaves the files before it alone.
LEMMA WriteFailedOK ==
  ASSUME FlashInv, flasher.st \in {"copy", "retry"},
         Write(FlashTarget("l4t").start + flasher.lba, Spoilt), FlashL4t([flasher EXCEPT !.st = "failed"])
  PROVE  FlashInv'
<1>1. num \in 1 .. 2
  BY ChunkState
<1>2. PICK data : data = Spoilt
  OBVIOUS
<1>3. DOMAIN data = 1 .. num /\ Len(data) = num /\ \A i \in 1 .. num : data[i][1] = "l4t"
  BY <1>1, <1>2 DEF Spoilt
<1>4. Write(FlashTarget("l4t").start + flasher.lba, data)
  BY <1>2 DEF Write
<1>5. UNCHANGED <<l4t_files, and_files, targets>> /\ flasher' = [flasher EXCEPT !.st = "failed"]
  BY DEF FlashL4t
<1>6. /\ DOMAIN device' = 0 .. FlashDevice - 1
      /\ FlashStaysInside'
      /\ \A n \in 1 .. Len(l4t_files) : \A k \in 0 .. l4t_files[n] - 1 :
           n < flasher.part \/ (n = flasher.part /\ k < flasher.read) =>
             device'[FlashTarget("l4t").start + L4tBefore(l4t_files)[n - 1] + k] = <<"l4t", n, k>>
  BY <1>3, <1>4, <1>5, ChunkWritten
<1>7. FlashTypes'
  BY <1>5, <1>6 DEF FlashInv, FlashTypes, FlashStates
<1>8. /\ flasher'.st = "failed" /\ flasher'.part = flasher.part /\ flasher'.read = flasher.read
      /\ flasher'.lba = flasher.lba /\ flasher'.image = flasher.image
  BY <1>5 DEF FlashInv, FlashTypes
<1>9. FlashTarget("l4t")' = FlashTarget("l4t") /\ l4t_files' = l4t_files
  BY <1>5 DEF FlashTarget
<1>10. InPlace(flasher.part, flasher.read)'
  BY <1>6, <1>8, <1>9 DEF InPlace
<1>11. Position'
  BY <1>8, <1>9 DEF FlashInv, Flashing, Position, Endless
<1>12. Flashing'
  BY <1>8, <1>9, <1>10, <1>11 DEF FlashInv, Flashing
<1> QED BY <1>6, <1>7, <1>12 DEF FlashInv

\* A chunk that is written continues the image.
LEMMA WrittenOK ==
  ASSUME FlashInv, flasher.st \in {"copy", "retry"},
         Write(FlashTarget("l4t").start + flasher.lba, Chunks(flasher)), FlashL4t(AfterWrite(flasher))
  PROVE  FlashInv'
<1>1. PICK f \in Seq(Nat \ {0}), part \in Nat, read \in Nat, lba \in Nat, image \in Nat :
        /\ f = l4t_files /\ part = flasher.part /\ read = flasher.read
        /\ lba = flasher.lba /\ image = flasher.image
  BY DEF FlashInv, FlashTypes
<1>2. PICK c : c = num
  OBVIOUS
<1>3. /\ part \in 1 .. Len(f) /\ c \in 1 .. 2 /\ image - c \in Nat /\ read + c \in Nat
      /\ image # c => (read + c) % 2 = 0
      /\ f[part] \in Nat
  BY <1>1, <1>2, ChunkState
<1>20. \/ /\ read < f[part] /\ read + c <= f[part]
          /\ image = c => part = Len(f) /\ read + c = f[part]
          /\ part = Len(f) => f[part] = read + image
       \/ ~(read < f[part]) /\ Endless(part)
  BY <1>1, <1>2, ChunkState DEF ChunkOf
<1>4. PICK data : data = Chunks(flasher)
  OBVIOUS
<1>5. \A i \in 1 .. c : /\ data[i][1] = "l4t"
                        /\ read + i - 1 < f[part] => data[i] = <<"l4t", part, read + i - 1>>
  <2> SUFFICES ASSUME NEW i \in 1 .. c
               PROVE  /\ data[i][1] = "l4t"
                      /\ read + i - 1 < f[part] => data[i] = <<"l4t", part, read + i - 1>>
    OBVIOUS
  <2>1. data[i] = Block(part, read + i - 1)
    BY <1>1, <1>2, <1>4 DEF Chunks
  <2> QED BY <1>1, <2>1 DEF Block
<1>6. DOMAIN data = 1 .. num /\ Len(data) = num /\ \A i \in 1 .. num : data[i][1] = "l4t"
  <2>1. DOMAIN data = 1 .. num /\ Len(data) = num
    BY <1>2, <1>3, <1>4 DEF Chunks
  <2> QED BY <1>2, <1>5, <2>1
<1>7. Write(FlashTarget("l4t").start + flasher.lba, data)
  BY <1>4 DEF Write
<1>8. UNCHANGED <<l4t_files, and_files, targets>> /\ flasher' = AfterWrite(flasher)
  BY DEF FlashL4t
<1>9. /\ DOMAIN device' = 0 .. FlashDevice - 1
      /\ FlashStaysInside'
      /\ \A n \in 1 .. Len(l4t_files) : \A k \in 0 .. l4t_files[n] - 1 :
           n < flasher.part \/ (n = flasher.part /\ k < flasher.read) =>
             device'[FlashTarget("l4t").start + L4tBefore(l4t_files)[n - 1] + k] = <<"l4t", n, k>>
      /\ \A i \in 1 .. num : device'[FlashTarget("l4t").start + flasher.lba + i - 1] = data[i]
  BY <1>6, <1>7, <1>8, ChunkWritten
<1>10. PICK st : st = IF image - c = 0 THEN "done" ELSE IF (read + c) % FlashWrap >= f[part] THEN "open" ELSE "copy"
  OBVIOUS
<1>11. flasher' = [st |-> st, image |-> image - c, part |-> part, read |-> read + c, lba |-> lba + c, retryCount |-> 0]
  BY <1>1, <1>2, <1>8, <1>10 DEF AfterWrite, FlashInv, FlashTypes
<1>12. st \in FlashStates
  BY <1>10 DEF FlashStates
<1>13. FlashTypes'
  <2>1. flasher' \in [st : FlashStates, image : Nat, part : Nat, read : Nat, lba : Nat, retryCount : {0}]
    BY <1>3, <1>11, <1>12
  <2> QED BY <1>8, <1>9, <2>1 DEF FlashInv, FlashTypes
<1>14. /\ flasher'.st = st /\ flasher'.part = part /\ flasher'.read = read + c
       /\ flasher'.lba = lba + c /\ flasher'.image = image - c
  BY <1>11
<1>15. FlashTarget("l4t")' = FlashTarget("l4t") /\ l4t_files' = f
  BY <1>1, <1>8 DEF FlashTarget
<1>16. lba = L4tBefore(f)[part - 1] + read /\ L4tBefore(f)[part - 1] \in Nat
  BY <1>1, <1>3, FileEnds DEF FlashInv, Flashing, Position
<1>17. InPlace(flasher.part, flasher.read)'
  <2>1. PICK start \in Nat : start = FlashTarget("l4t").start
    BY FlashTargetOK DEF FlashInv, FlashTypes
  <2>2. PICK a \in Nat : a = L4tBefore(f)[part - 1]
    BY <1>16
  <2>3. ASSUME NEW n \in 1 .. Len(f), NEW k \in 0 .. f[n] - 1, n < part \/ (n = part /\ k < read + c)
        PROVE  device'[start + L4tBefore(f)[n - 1] + k] = <<"l4t", n, k>>
    <3>1. CASE n < part \/ (n = part /\ k < read)
      BY <1>1, <1>9, <2>1, <3>1
    <3>2. CASE n = part /\ ~(k < read)
      <4>1. k \in Nat
        BY <1>1
      <4>2. PICK i \in 1 .. c : k = read + i - 1
        <5>1. k - read + 1 \in 1 .. c /\ k = read + (k - read + 1) - 1
          BY <1>3, <2>3, <3>2, <4>1
        <5> QED BY <5>1
      <4>3. device'[start + lba + i - 1] = <<"l4t", part, k>>
        <5>1. read + i - 1 < f[part]
          BY <1>1, <1>3, <3>2, <4>1, <4>2
        <5> QED BY <1>1, <1>2, <1>5, <1>9, <2>1, <4>2, <5>1
      <4>4. start + lba + i - 1 = start + a + k
        <5>1. lba = a + read
          BY <1>16, <2>2
        <5> QED BY <1>3, <4>2, <5>1
      <4> QED BY <2>2, <3>2, <4>3, <4>4
    <3> QED BY <2>3, <3>1, <3>2
  <2> QED BY <1>14, <1>15, <2>1, <2>3, Zenon DEF InPlace
<1>18. Position'
  <2>1. PICK s \in Nat, a \in Nat : s = f[part] /\ a = L4tBefore(f)[part - 1]
    BY <1>3, <1>16
  <2>7. PICK w \in Nat : w = FlashWrap
    BY FlashSizes
  <2>8. PICK m \in Nat : m = (read + c) % FlashWrap /\ m < w /\ (read + c < w => m = read + c)
    BY <1>3, <2>7, CountWraps
  <2>9. st = IF image - c = 0 THEN "done" ELSE IF m >= s THEN "open" ELSE "copy"
    BY <1>10, <2>1, <2>8
  <2>10. /\ c \in Nat
         /\ \/ /\ read < s /\ read + c <= s
               /\ image = c => part = Len(f) /\ read + c = s
               /\ part = Len(f) => s = read + image
            \/ ~(read < s) /\ Endless(part)
    BY <1>3, <1>20, <2>1
  <2>11. Endless(part) <=> s >= w /\ part < Len(f)
    BY <1>1, <2>1, <2>7 DEF Endless
  <2>2. st = "open" => lba + c = L4tBefore(f)[part] /\ read + c = f[part]
    <3>1. st = "open" => read + c = s
      BY <2>8, <2>9, <2>10, <2>11
    <3>2. L4tBefore(f)[part] = a + s
      BY <1>3, <2>1, FileEnds
    <3>3. lba = a + read
      BY <1>16, <2>1
    <3>4. c \in Nat /\ (read + c = s => lba + c = a + s)
      BY <1>3, <3>3
    <3> QED BY <2>1, <3>1, <3>2, <3>4
  <2>3. st = "copy" => (read + c < f[part] \/ Endless(part)) /\ image - c > 0
    <3>1. st = "copy" => image - c # 0 /\ ~(m >= s)
      BY <2>9
    <3>2. Len(f) \in Nat /\ part <= Len(f)
      BY <1>3
    <3>3. ASSUME st = "copy", ~(read + c < s) PROVE Endless(part)
      <4>1. CASE ~(read < s)
        BY <2>10, <4>1
      <4>2. CASE read < s
        <5>1. read + c = s /\ part # Len(f)
          BY <1>3, <2>10, <3>1, <3>3, <4>2
        <5>2. ~(s < w)
          BY <2>8, <3>1, <3>3, <5>1
        <5> QED BY <2>7, <2>11, <3>2, <5>1, <5>2
      <4> QED BY <4>1, <4>2
    <3> QED BY <1>3, <2>1, <3>1, <3>3
  <2>12. lba + c = a + (read + c)
    BY <1>3, <1>16, <2>1
  <2>4. st = "copy" => (read + c) % L4tChunk = 0
    BY <1>3, <2>9 DEF L4tChunk
  <2>5. st = "done" => read + c >= f[part] /\ (part = Len(f) \/ Endless(part))
    <3>1. st = "done" => image = c
      BY <1>3, <2>9
    <3> QED BY <2>1, <2>10, <3>1
  <2>6. st \notin {"failed", "retry"} /\ part > 0
    BY <1>3, <1>10
  <2>14. Endless(flasher.part)' <=> Endless(part)
    BY <1>1, <1>14, <1>15 DEF Endless
  <2> QED BY <1>14, <1>15, <2>1, <2>2, <2>3, <2>4, <2>5, <2>6, <2>12, <2>14 DEF Position
<1>19. Flashing'
  <2>1. /\ l4t_files # <<>> /\ Aligned(f) /\ lba + image = ImageSize(f)
        /\ ImageSize(f) <= FlashTarget("l4t").size
    BY <1>1 DEF FlashInv, Flashing
  <2>2. (lba + c) + (image - c) = lba + image /\ part \in 0 .. Len(f)
    BY <1>3
  <2> QED BY <1>1, <1>14, <1>15, <1>17, <1>18, <2>1, <2>2 DEF Flashing
<1> QED BY <1>9, <1>13, <1>19 DEF FlashInv

LEMMA WriteChunkOK ==
  ASSUME FlashInv, flasher.st \in {"copy", "retry"}, WriteChunk
  PROVE  FlashInv'
<1>1. CASE Write(FlashTarget("l4t").start + flasher.lba, Chunks(flasher)) /\ FlashL4t(AfterWrite(flasher))
  BY <1>1, WrittenOK
<1>2. CASE /\ Write(FlashTarget("l4t").start + flasher.lba, Spoilt)
           /\ FlashL4t([flasher EXCEPT !.st = "failed"])
  BY <1>2, WriteFailedOK
<1> QED BY <1>1, <1>2 DEF WriteChunk

LEMMA RetryWaitOK == FlashInv /\ RetryWait => FlashInv'
<1> SUFFICES ASSUME FlashInv, RetryWait, ~FlashFails PROVE FlashInv'
  BY FlashFailsOK
<1>1. /\ flasher.st = "failed" /\ flasher' = [flasher EXCEPT !.st = "retry"]
      /\ UNCHANGED <<l4t_files, and_files, targets, device>>
  BY DEF RetryWait, FlashL4t
<1>2. flasher' \in [st : FlashStates, image : Nat, part : Nat, read : Nat, lba : Nat, retryCount : {0}]
  BY <1>1 DEF FlashInv, FlashTypes, FlashStates
<1>3. /\ flasher'.st = "retry" /\ flasher'.part = flasher.part /\ flasher'.read = flasher.read
      /\ flasher'.lba = flasher.lba /\ flasher'.image = flasher.image
  BY <1>1 DEF FlashInv, FlashTypes
<1>4. FlashTarget("l4t")' = FlashTarget("l4t") /\ l4t_files' = l4t_files /\ device' = device
  BY <1>1 DEF FlashTarget
<1>5. InPlace(flasher.part, flasher.read)'
  BY <1>1, <1>3, <1>4 DEF FlashInv, Flashing, InPlace
<1>6. Position'
  BY <1>1, <1>3, <1>4 DEF FlashInv, Flashing, Position, Endless
<1>7. Flashing'
  BY <1>1, <1>3, <1>4, <1>5, <1>6 DEF FlashInv, Flashing
<1> QED BY <1>1, <1>2, <1>7, FlashMoves

LEMMA FlashClosedOK == FlashInv /\ FlashClosed => FlashInv'
<1> SUFFICES ASSUME FlashInv, FlashClosed PROVE FlashInv'
  OBVIOUS
<1>1. flasher' = NoFlash /\ l4t_files' \in {l4t_files, <<>>} /\ UNCHANGED <<and_files, targets, device>>
  BY DEF FlashClosed
<1>2. FlashTypes'
  <2>1. l4t_files' \in Seq(Nat \ {0})
    <3>1. l4t_files \in Seq(Nat \ {0})
      BY DEF FlashInv, FlashTypes
    <3>2. <<>> \in Seq(Nat \ {0})
      OBVIOUS
    <3> QED BY <1>1, <3>1, <3>2
  <2>2. flasher' \in [st : FlashStates, image : Nat, part : Nat, read : Nat, lba : Nat, retryCount : {0}]
    BY <1>1 DEF NoFlash, FlashStates
  <2> QED BY <1>1, <2>1, <2>2 DEF FlashInv, FlashTypes
<1>3. Flashing'
  BY <1>1 DEF Flashing, NoFlash
<1>4. FlashStaysInside'
  BY <1>1, InsideKept DEF FlashInv
<1> QED BY <1>2, <1>3, <1>4 DEF FlashInv

LEMMA AndroidOK ==
  ASSUME NEW ok \in SUBSET AndroidNames, FlashInv, _action_flash_android_data(ok)
  PROVE  FlashInv'
<1>1. /\ flasher.st = "idle" /\ UNCHANGED <<l4t_files, targets, flasher>>
      /\ and_files' = [n \in AndroidNames |-> IF Flashable(n) THEN 0 ELSE and_files[n]]
      /\ DOMAIN device' = DOMAIN device
  BY DEF _action_flash_android_data
<1>2. FlashTypes'
  BY <1>1 DEF FlashInv, FlashTypes
<1>3. Flashing'
  BY <1>1 DEF Flashing
<1>4. FlashStaysInside'
  <2> SUFFICES ASSUME NEW b \in DOMAIN device, device'[b] # Old
               PROVE  In(FlashTarget(device[b][1]), b)'
    BY <1>1 DEF FlashStaysInside
  <2>1. PICK name : name = device'[b][1]
    OBVIOUS
  <2>2. FlashTarget(device[b][1])' = FlashTarget(name)
    BY <1>1, <2>1 DEF FlashTarget
  <2>3. SUFFICES b \in FlashTarget(name).start .. FlashTarget(name).start + FlashTarget(name).size - 1
    BY <2>2 DEF In
  <2>4. CASE \E n \in AndroidNames : Flashable(n) /\ Covers(n, b)
    <3>1. PICK n \in AndroidNames : Flashable(n) /\ Covers(n, b) /\
                 device'[b] = IF n \in ok THEN <<n, 1, b - FlashTarget(n).start>> ELSE <<n, 0, 0>>
      BY <2>4, Zenon DEF _action_flash_android_data
    <3>2. name = n
      BY <2>1, <3>1
    <3>3. PICK t : t = FlashTarget(n)
      OBVIOUS
    <3>4. t.start \in Nat /\ t.size \in Nat
      BY <3>3, FlashTargetOK DEF FlashInv, FlashTypes
    <3>5. PICK x \in Nat : x = and_files[n]
      BY DEF FlashInv, FlashTypes
    <3>6. x <= t.size /\ b \in t.start .. t.start + x - 1
      BY <3>1, <3>3, <3>5 DEF Flashable, Covers, AndroidFits
    <3>7. b \in t.start .. t.start + t.size - 1
      BY <3>4, <3>6
    <3> QED BY <3>2, <3>3, <3>7
  <2>5. CASE ~\E n \in AndroidNames : Flashable(n) /\ Covers(n, b)
    <3>1. device'[b] = device[b]
      BY <2>5, Zenon DEF _action_flash_android_data
    <3>2. In(FlashTarget(device[b][1]), b)
      BY <3>1 DEF FlashInv, FlashStaysInside
    <3> QED BY <2>1, <3>1, <3>2 DEF In
  <2> QED BY <2>4, <2>5
<1> QED BY <1>2, <1>3, <1>4 DEF FlashInv

LEMMA FlashStutter == FlashInv /\ UNCHANGED flashVars => FlashInv'
<1> SUFFICES ASSUME FlashInv, UNCHANGED flashVars PROVE FlashInv'
  OBVIOUS
<1>1. UNCHANGED <<l4t_files, and_files, targets, device>> /\ flasher' = flasher
  BY DEF flashVars
<1>2. FlashTypes' /\ FlashStaysInside'
  BY <1>1, InsideKept DEF FlashInv, FlashTypes
<1>3. Flashing'
  <2>1. Position <=> Position'
    BY <1>1 DEF Position, Endless
  <2>2. FlashTarget("l4t")' = FlashTarget("l4t")
    BY <1>1 DEF FlashTarget
  <2>3. PICK p, r : p = flasher.part /\ r = flasher.read /\ flasher'.part = p /\ flasher'.read = r
    BY <1>1
  <2>4. InPlace(p, r) => InPlace(flasher.part, flasher.read)'
    BY <1>1, <2>2, <2>3 DEF InPlace
  <2> QED BY <1>1, <2>1, <2>2, <2>3, <2>4 DEF FlashInv, Flashing, ImageSize
<1> QED BY <1>2, <1>3 DEF FlashInv

LEMMA FlashStepOK == FlashInv /\ [FlashNext]_flashVars => FlashInv'
<1> SUFFICES ASSUME FlashInv, [FlashNext]_flashVars PROVE FlashInv'
  OBVIOUS
<1>1. ASSUME FlashChunk PROVE FlashInv'
  BY <1>1, WriteChunkOK, FlashFailsOK DEF FlashChunk
<1>2. ASSUME WriteRetried PROVE FlashInv'
  BY <1>2, WriteChunkOK DEF WriteRetried
<1> QED BY <1>1, <1>2, CheckFlashOK, OpenPartOK, RetryWaitOK, FlashClosedOK, AndroidOK, FlashStutter
        DEF FlashNext, FlashStep

\* Whatever files and partitions there are: flashing Linux that says it is done
\* has put every block of every file where it belongs, up to the first file that
\* the 32 bits of bytesWritten cannot count, whichever reads and writes failed on
\* the way, and neither Linux nor Android touches a block outside the partition
\* of its name.
THEOREM FlashAlwaysSound == FlashSpec => []FlashSound
<1>1. FlashInv => FlashSound
  <2> SUFFICES ASSUME FlashInv PROVE FlashSound
    OBVIOUS
  <2>1. FlashedIsImage
    <3> SUFFICES ASSUME flasher.st = "done" PROVE FlashedIsImage
      BY DEF FlashedIsImage
    <3>1. ImageSize(l4t_files) <= FlashTarget("l4t").size
      BY DEF FlashInv, Flashing
    <3>2. ASSUME NEW n \in 1 .. Len(l4t_files), Reached(n), NEW k \in 0 .. l4t_files[n] - 1
          PROVE  device[FlashTarget("l4t").start + L4tBefore(l4t_files)[n - 1] + k] = <<"l4t", n, k>>
      <4>2. PICK f \in Seq(Nat \ {0}), p \in Nat, read \in Nat :
              f = l4t_files /\ p = flasher.part /\ read = flasher.read
        BY DEF FlashInv, FlashTypes
      <4>1. p \in 1 .. Len(f) /\ read >= f[p] /\ (p = Len(f) \/ f[p] >= FlashWrap)
        BY <4>2 DEF FlashInv, Flashing, Position, Endless
      <4>4. ~(p < n)
        <5>1. p < n => f[p] < FlashWrap /\ p # Len(f)
          BY <3>2, <4>1, <4>2 DEF Reached
        <5>2. f[p] \in Nat /\ FlashWrap \in Nat
          BY <4>1, FlashSizes
        <5> QED BY <4>1, <5>1, <5>2
      <4>5. n < p \/ n = p
        BY <4>2, <4>4
      <4>6. n = p => k < read
        BY <4>1, <4>2
      <4>3. n < flasher.part \/ (n = flasher.part /\ k < flasher.read)
        BY <4>2, <4>5, <4>6
      <4> QED BY <4>3 DEF FlashInv, Flashing, InPlace
    <3> QED BY <3>1, <3>2 DEF FlashedIsImage
  <2> QED BY <2>1 DEF FlashSound, FlashInv
<1> QED BY <1>1, FlashInitOK, FlashStepOK, PTL DEF FlashSpec

---------------------------------------------------------------------------
(* SdRepartition: the files while the SD card is partitioned.              *)

BeforeFormat == {"window", "warned", "no_ramdisk", "backup", "backup_failed"}
AfterFormat == {"mkfs", "restore", "restore_failed", "not_restored"}
RepartStates == BeforeFormat \cup AfterFormat \cup {"done", "restored_only"}

RepartTypes ==
    /\ files \in Contents
    /\ DOMAIN on_card = 1 .. Len(files) /\ DOMAIN on_ram = 1 .. Len(files)
    /\ DOMAIN repart = {"st", "todo", "total", "tries"}
    /\ repart.st \in RepartStates /\ repart.todo \in SUBSET Promised

\* What the RAM disk holds when exactly the files of a set were copied to it:
\* those that nothing happened to, and the others or not.
HasOnly(drive, set) ==
    \A n \in 1 .. Len(files) :
        /\ n \notin set => drive[n] = Gone
        /\ n \in set => drive[n] \in {files[n].size, Gone}
        /\ n \in set \ hit => drive[n] = files[n].size

CardAsWas == card_table = "old" /\ \A n \in 1 .. Len(files) : Whole(on_card, n)

\* Before formatting the card is as it was, and the RAM disk has the files that
\* are done; after it the RAM disk has them all, until they are restored.  All
\* but those that were hit.
WhereFilesAre ==
    /\ repart.st \in BeforeFormat => CardAsWas
    /\ repart.st \in {"window", "warned"} => HasOnly(on_ram, {})
    /\ repart.st = "done" => card_table = "new"
    /\ ReallyFits =>
         /\ repart.st = "backup" => HasOnly(on_ram, Promised \ repart.todo)
         /\ repart.st \in AfterFormat => HasOnly(on_ram, Promised)
         /\ repart.st = "restore" => \A n \in (Promised \ hit) \ repart.todo : Whole(on_card, n)
         /\ repart.st \in {"done", "restored_only"} => \A n \in Promised \ hit : Whole(on_card, n)

\* The inductive invariant.
RepartInv == RepartTypes /\ WhereFilesAre

\* Where one sum has nothing, the other is larger by what it has there.
LEMMA SumsApart ==
  ASSUME NEW len \in Nat, NEW f, NEW g,
         \A n \in 1 .. len : f[n] \in Nat /\ g[n] \in Nat /\ f[n] <= g[n],
         NEW F, NEW G, Sums(f, len, F), Sums(g, len, G), NEW j \in 1 .. len, f[j] = 0
  PROVE  F[len] \in Nat /\ G[len] \in Nat /\ F[len] + g[j] <= G[len]
<1>1. \A n \in 0 .. len : F[n] \in Nat /\ G[n] \in Nat
  BY SumsGrow
<1>2. F[0] = 0 /\ G[0] = 0 /\ \A n \in 1 .. len : F[n] = F[n - 1] + f[n] /\ G[n] = G[n - 1] + g[n]
  BY SumsGrow
<1> DEFINE B == {n \in 0 .. len : ~(F[n] + (IF j <= n THEN g[j] ELSE 0) <= G[n])}
<1>3. CASE B = {}
  <2>1. len \notin B /\ len \in 0 .. len
    BY <1>3
  <2> QED BY <1>1, <2>1
<1>4. CASE B # {}
  <2>1. PICK n \in B : \A m \in B : n <= m
    <3>1. B \in SUBSET Nat
      OBVIOUS
    <3> HIDE DEF B
    <3> QED BY <1>4, <3>1, LeastExists
  <2>2. n # 0
    BY <1>2
  <2>3. n - 1 \in 0 .. len /\ n - 1 \notin B /\ n \in 1 .. len
    BY <2>1, <2>2
  <2>4. PICK a \in Nat, b \in Nat, x \in Nat, y \in Nat, z \in Nat :
          a = F[n - 1] /\ b = G[n - 1] /\ x = f[n] /\ y = g[n] /\ z = g[j]
    BY <1>1, <2>3
  <2>5. F[n] = a + x /\ G[n] = b + y /\ x <= y
    BY <1>2, <2>3, <2>4
  <2>6. a + (IF j <= n - 1 THEN z ELSE 0) <= b
    BY <2>3, <2>4
  <2>7. ~(a + x + (IF j <= n THEN z ELSE 0) <= b + y)
    BY <2>1, <2>4, <2>5
  <2>8. j = n => x = 0 /\ z = y
    BY <2>4
  <2> QED BY <2>3, <2>5, <2>6, <2>7, <2>8
<1> QED BY <1>3, <1>4

LEMMA ClustersArith ==
  ASSUME NEW s \in Nat
  PROVE  ClustersOf(s) \in Nat /\ s <= ClustersOf(s) * 2
<1>1. CASE s = 0
  BY <1>1 DEF ClustersOf
<1>2. CASE s # 0
  <2>1. ClustersOf(s) = (s + 2 - 1) \div 2
    BY <1>2 DEF ClustersOf, Cluster
  <2>2. PICK q \in Nat : q = (s + 2 - 1) \div 2 /\ s <= q * 2
    <3>1. (s + 2 - 1) \div 2 \in Nat /\ s <= ((s + 2 - 1) \div 2) * 2
      OBVIOUS
    <3> QED BY <3>1
  <2> QED BY <2>1, <2>2
<1> QED BY <1>1, <1>2

LEMMA NoClusters == ClustersOf(Gone) = 0 /\ ClustersOf(0) = 0
BY DEF ClustersOf, Gone

\* Clusters adds up file after file.
LEMMA ClustersSum ==
  ASSUME Len(files) \in Nat, NEW size, NEW p, \A n \in 1 .. Len(files) : p[n] = ClustersOf(size[n])
  PROVE  \E g : Sums(p, Len(files), g) /\ Clusters(size) = g[Len(files)]
<1> DEFINE C(h) == h = [n \in 0 .. Len(files) |-> IF n = 0 THEN 0 ELSE h[n - 1] + ClustersOf(size[n])]
<1>1. PICK h : Sums(p, Len(files), h)
  BY SumsExist
<1>2. ASSUME NEW x PROVE C(x) <=> Sums(p, Len(files), x)
  <2>1. \A n \in 0 .. Len(files) : n # 0 => ClustersOf(size[n]) = p[n]
    OBVIOUS
  <2>2. [n \in 0 .. Len(files) |-> IF n = 0 THEN 0 ELSE x[n - 1] + ClustersOf(size[n])]
        = [n \in 0 .. Len(files) |-> IF n = 0 THEN 0 ELSE x[n - 1] + p[n]]
    BY <2>1, Zenon
  <2> QED BY <2>2, Zenon DEF Sums
<1>3. PICK g : g = CHOOSE x : C(x)
  OBVIOUS
<1>4. \E x : C(x)
  BY <1>1, <1>2
<1>5. C(g)
  <2> HIDE DEF C
  <2> QED BY <1>3, <1>4
<1>6. Clusters(size) = g[Len(files)]
  BY <1>3, Zenon DEF Clusters
<1> QED BY <1>2, <1>5, <1>6

\* The files on the card.
LEMMA FilesOK ==
  ASSUME files \in Contents
  PROVE  Len(files) \in Nat /\ \A n \in 1 .. Len(files) : files[n].size \in Nat
BY RepartSizes

LEMMA NextFileOK ==
  ASSUME Len(files) \in Nat, NEW todo \in SUBSET (1 .. Len(files)), todo # {}
  PROVE  NextFile(todo) \in todo
<1>1. PICK S : S = IF {n \in todo : IsCounted(n)} # {} THEN {n \in todo : IsCounted(n)} ELSE todo
  OBVIOUS
<1>2. S # {} /\ S \subseteq todo /\ S \in SUBSET Nat
  <2>1. S # {} /\ S \subseteq todo
    <3>1. CASE {n \in todo : IsCounted(n)} # {}
      BY <1>1, <3>1
    <3>2. CASE {n \in todo : IsCounted(n)} = {}
      BY <1>1, <3>2
    <3> QED BY <3>1, <3>2
  <2> QED BY <2>1
<1>3. PICK n \in S : \A m \in S : n <= m
  BY <1>2, LeastExists
<1>4. PICK x : x = Min(S)
  OBVIOUS
<1>5. x \in S
  BY <1>3, <1>4 DEF Min
<1> QED BY <1>1, <1>2, <1>4, <1>5 DEF NextFile

\* While the files that are to be kept fit the RAM disk there is room for each
\* of those that are not on it yet.
LEMMA RoomForNext ==
  ASSUME RepartInv, repart.st = "backup", ReallyFits, NEW j \in repart.todo
  PROVE  Kept(files[j].size) = files[j].size
<1>1. PICK len \in Nat : len = Len(files)
  BY FilesOK DEF RepartInv, RepartTypes
<1>2. \A n \in 1 .. len : files[n].size \in Nat
  BY <1>1, FilesOK DEF RepartInv, RepartTypes
<1>3. j \in 1 .. len /\ j \in Promised
  BY <1>1 DEF RepartInv, RepartTypes, Promised
<1>4. PICK all : all = [n \in 1 .. len |-> IF n \in Promised THEN files[n].size ELSE 0]
  OBVIOUS
<1>5. \A n \in 1 .. len : /\ n \notin Promised \ repart.todo => on_ram[n] = Gone
                          /\ n \in Promised \ repart.todo => on_ram[n] \in {files[n].size, Gone}
  BY <1>1 DEF RepartInv, WhereFilesAre, HasOnly
<1>6. PICK f : f = [n \in 1 .. len |-> ClustersOf(on_ram[n])]
  OBVIOUS
<1>7. PICK g : g = [n \in 1 .. len |-> ClustersOf(all[n])]
  OBVIOUS
<1>8. \A n \in 1 .. len : f[n] \in Nat /\ g[n] \in Nat /\ f[n] <= g[n]
  <2> SUFFICES ASSUME NEW n \in 1 .. len PROVE f[n] \in Nat /\ g[n] \in Nat /\ f[n] <= g[n]
    OBVIOUS
  <2>1. PICK s \in Nat : s = files[n].size
    BY <1>2
  <2>2. PICK c \in Nat : c = ClustersOf(s)
    BY ClustersArith
  <2>3. g[n] = c \/ (g[n] = 0 /\ n \notin Promised)
    <3>1. CASE n \in Promised
      BY <1>4, <1>7, <2>1, <2>2, <3>1
    <3>2. CASE n \notin Promised
      BY <1>4, <1>7, <3>2, NoClusters
    <3> QED BY <3>1, <3>2
  <2>4. f[n] = 0 \/ (f[n] = c /\ n \in Promised)
    <3>1. CASE n \in Promised \ repart.todo
      BY <1>5, <1>6, <2>1, <2>2, <3>1, NoClusters
    <3>2. CASE n \notin Promised \ repart.todo
      BY <1>5, <1>6, <3>2, NoClusters
    <3> QED BY <3>1, <3>2
  <2> QED BY <2>2, <2>3, <2>4
<1>9. f[j] = 0
  BY <1>3, <1>5, <1>6, NoClusters
<1>10. PICK s \in Nat : s = files[j].size
  BY <1>2, <1>3
<1>11. PICK c \in Nat : c = ClustersOf(s) /\ s <= c * 2
  BY ClustersArith
<1>12. g[j] = c
  BY <1>3, <1>4, <1>7, <1>10, <1>11
<1>13. PICK F : Sums(f, len, F) /\ Clusters(on_ram) = F[len]
  <2>1. \A n \in 1 .. len : f[n] = ClustersOf(on_ram[n])
    BY <1>6
  <2> QED BY <1>1, <2>1, ClustersSum
<1>14. PICK G : Sums(g, len, G) /\ Clusters(all) = G[len]
  <2>1. \A n \in 1 .. len : g[n] = ClustersOf(all[n])
    BY <1>7
  <2> QED BY <1>1, <2>1, ClustersSum
<1>15. F[len] \in Nat /\ G[len] \in Nat /\ F[len] + c <= G[len]
  BY <1>3, <1>8, <1>9, <1>12, <1>13, <1>14, SumsApart
<1>16. G[len] <= RamClusters /\ RamClusters \in Nat
  BY <1>1, <1>4, <1>14, RepartSizes DEF ReallyFits
<1>17. PICK free \in Nat : free = RamFree /\ c <= free
  <2>1. PICK a \in Nat, b \in Nat : a = F[len] /\ b = RamClusters
    BY <1>15, <1>16
  <2>2. a + c <= b
    BY <1>15, <1>16, <2>1
  <2>3. b - a \in Nat /\ c <= b - a
    BY <2>2
  <2> QED BY <1>13, <2>1, <2>3 DEF RamFree
<1>18. PICK r \in Nat : r = free * 2 /\ s <= r
  BY <1>11, <1>17
<1>19. PICK m : m = Min({s, r})
  OBVIOUS
<1>20. m = s
  <2>1. \E x \in {s, r} : \A y \in {s, r} : x <= y
    BY <1>18
  <2>2. m \in {s, r} /\ \A y \in {s, r} : m <= y
    BY <1>19, <2>1 DEF Min
  <2> QED BY <1>18, <2>2
<1> QED BY <1>10, <1>17, <1>18, <1>19, <1>20 DEF Kept, Cluster

\* The constants of a step.
LEMMA RepartSame ==
  ASSUME UNCHANGED <<files, backup_possible>>
  PROVE  Promised' = Promised /\ ReallyFits' = ReallyFits
BY DEF Promised, ReallyFits, Clusters

LEMMA RepartInitOK == RepartInit => RepartInv
<1> SUFFICES ASSUME RepartInit PROVE RepartInv
  OBVIOUS
<1>1. repart.st = "window" /\ repart.todo = {} /\ DOMAIN repart = {"st", "todo", "total", "tries"}
  BY DEF RepartInit, Repart
<1>2. RepartTypes
  BY <1>1 DEF RepartInit, RepartTypes, RepartStates, BeforeFormat
<1>3. WhereFilesAre
  BY <1>1 DEF RepartInit, WhereFilesAre, BeforeFormat, AfterFormat, CardAsWas, Whole, HasOnly
<1> QED BY <1>2, <1>3 DEF RepartInv

LEMMA CheckSizesOK == RepartInv /\ CheckSizes => RepartInv'
<1> SUFFICES ASSUME RepartInv, CheckSizes PROVE RepartInv'
  OBVIOUS
<1>1. repart.st = "window" /\ repart' = Repart("warned", {}, 0) /\ UNCHANGED <<files, on_card, on_ram, card_table, hit>>
  BY DEF CheckSizes
<1>2. repart'.st = "warned" /\ repart'.todo = {} /\ DOMAIN repart' = {"st", "todo", "total", "tries"}
  BY <1>1 DEF Repart
<1>3. RepartTypes'
  BY <1>1, <1>2 DEF RepartInv, RepartTypes, RepartStates, BeforeFormat
<1>4. WhereFilesAre'
  BY <1>1, <1>2 DEF RepartInv, WhereFilesAre, BeforeFormat, AfterFormat, CardAsWas, Whole, HasOnly
<1> QED BY <1>3, <1>4 DEF RepartInv

\* A step that leaves the drives alone keeps the files where they are.
LEMMA RepartMoves ==
  ASSUME RepartInv, UNCHANGED <<files, backup_possible, on_card, on_ram, hit>>,
         DOMAIN repart' = {"st", "todo", "total", "tries"},
         repart'.st \in RepartStates, repart'.todo \in SUBSET Promised,
         repart'.st \in BeforeFormat => repart.st \in BeforeFormat /\ card_table' = card_table,
         repart'.st \notin {"window", "warned", "done", "restored_only"},
         ReallyFits =>
           /\ repart'.st = "backup" => HasOnly(on_ram, Promised \ repart'.todo)
           /\ repart'.st \in AfterFormat => HasOnly(on_ram, Promised)
           /\ repart'.st = "restore" => \A n \in (Promised \ hit) \ repart'.todo : Whole(on_card, n)
  PROVE  RepartInv'
<1>1. Promised' = Promised /\ ReallyFits' = ReallyFits
  BY RepartSame
<1>2. RepartTypes'
  BY <1>1 DEF RepartInv, RepartTypes
<1>3. \A n : Whole(on_card, n)' <=> Whole(on_card, n)
  BY DEF Whole
<1>4. \A S : HasOnly(on_ram, S)' <=> HasOnly(on_ram, S)
  BY DEF HasOnly
<1>5. repart'.st \in BeforeFormat => CardAsWas'
  BY DEF RepartInv, WhereFilesAre, CardAsWas, Whole
<1>6. ASSUME ReallyFits
      PROVE  /\ repart'.st = "backup" => HasOnly(on_ram, Promised \ repart.todo)'
             /\ repart'.st \in AfterFormat => HasOnly(on_ram, Promised)'
             /\ repart'.st = "restore" => \A n \in (Promised \ hit) \ repart'.todo : Whole(on_card, n)'
  BY <1>1, <1>6 DEF HasOnly, Whole
<1> QED BY <1>1, <1>2, <1>5, <1>6 DEF RepartInv, WhereFilesAre

LEMMA StartOK == RepartInv /\ StartPartitioning => RepartInv'
<1> SUFFICES ASSUME RepartInv, StartPartitioning PROVE RepartInv'
  OBVIOUS
<1>1. repart.st = "warned" /\ UNCHANGED <<files, backup_possible, on_card, on_ram, card_table, hit>>
  BY DEF StartPartitioning
<1>2. /\ repart'.st \in {"backup", "no_ramdisk"} /\ DOMAIN repart' = {"st", "todo", "total", "tries"}
      /\ repart'.todo \in SUBSET Promised
      /\ repart'.st = "backup" => repart'.todo = Listed(on_card)
  BY DEF StartPartitioning, Repart, Listed
<1>3. HasOnly(on_ram, {}) /\ CardAsWas
  BY <1>1 DEF RepartInv, WhereFilesAre, BeforeFormat
<1>4. ASSUME repart'.st = "backup" PROVE HasOnly(on_ram, Promised \ repart'.todo)
  <2>1. \A n \in Promised : n \in Listed(on_card)
    <3> SUFFICES ASSUME NEW n \in Promised PROVE on_card[n] # Gone
      BY DEF Listed
    <3>1. n \in 1 .. Len(files)
      BY DEF Promised
    <3>2. on_card[n] = files[n].size /\ files[n].size \in Nat
      BY <1>3, <3>1, FilesOK DEF CardAsWas, Whole, RepartInv, RepartTypes
    <3> QED BY <3>2 DEF Gone
  <2> QED BY <1>2, <1>3, <1>4, <2>1 DEF HasOnly
<1>5. /\ repart'.st \in RepartStates /\ repart.st \in BeforeFormat
      /\ repart'.st \notin {"window", "warned", "done", "restored_only", "restore"}
      /\ repart'.st \notin AfterFormat
  BY <1>1, <1>2 DEF RepartStates, BeforeFormat, AfterFormat
<1> QED BY <1>1, <1>2, <1>4, <1>5, RepartMoves

\* What a copy leaves to do.
LEMMA AfterCopyOK ==
  ASSUME RepartInv, NEW n, NEW size, repart.st \in {"backup", "restore"}, repart' = AfterCopy(n, size)
  PROVE  /\ DOMAIN repart' = {"st", "todo", "total", "tries"}
         /\ repart'.todo = repart.todo \ {n}
         /\ repart.st = "backup" => repart'.st \in {"backup", "backup_failed"}
         /\ repart.st = "restore" => repart'.st \in {"restore", "restore_failed"}
BY DEF AfterCopy, Failed, RepartInv, RepartTypes

\* A copy that nothing happened to is whole.
LEMMA CopiedOK ==
  ASSUME NEW n, NEW size, NEW copy, CopyLeaves(n, size, copy)
  PROVE  hit \subseteq hit' /\ copy \in {size, Gone} /\ (n \notin hit' => copy = size)
BY DEF CopyLeaves

LEMMA BackupFileOK == RepartInv /\ BackupFile => RepartInv'
<1> SUFFICES ASSUME RepartInv, BackupFile PROVE RepartInv'
  OBVIOUS
<1>1. PICK j : j = NextFile(repart.todo)
  OBVIOUS
<1>2. PICK copy :
        /\ repart.st = "backup" /\ repart.todo # {} /\ CopyLeaves(j, Kept(on_card[j]), copy)
        /\ on_ram' = [on_ram EXCEPT ![j] = copy]
        /\ repart' = AfterCopy(j, on_card[j])
        /\ UNCHANGED <<files, backup_possible, on_card, card_table>>
  BY <1>1 DEF BackupFile
<1>3. Len(files) \in Nat /\ Promised \subseteq 1 .. Len(files)
  BY FilesOK DEF RepartInv, RepartTypes, Promised
<1>4. j \in repart.todo /\ j \in Promised /\ j \in 1 .. Len(files)
  <2>1. repart.todo \in SUBSET (1 .. Len(files)) /\ repart.todo \subseteq Promised
    BY <1>3 DEF RepartInv, RepartTypes
  <2> QED BY <1>1, <1>2, <1>3, <2>1, NextFileOK
<1>5. /\ DOMAIN repart' = {"st", "todo", "total", "tries"} /\ repart'.todo = repart.todo \ {j}
      /\ repart'.st \in {"backup", "backup_failed"}
  BY <1>2, AfterCopyOK
<1>6. Promised' = Promised /\ ReallyFits' = ReallyFits
  BY <1>2, RepartSame
<1>7. RepartTypes'
  BY <1>2, <1>5, <1>6 DEF RepartInv, RepartTypes, RepartStates, BeforeFormat
<1>8. CardAsWas'
  BY <1>2 DEF RepartInv, WhereFilesAre, CardAsWas, BeforeFormat, Whole
<1>9. ASSUME ReallyFits PROVE HasOnly(on_ram, Promised \ repart.todo)'
  <2>1. on_card[j] = files[j].size
    BY <1>2, <1>4 DEF RepartInv, WhereFilesAre, CardAsWas, BeforeFormat, Whole
  <2>2. Kept(on_card[j]) = files[j].size
    BY <1>2, <1>4, <1>9, <2>1, RoomForNext
  <2>3. HasOnly(on_ram, Promised \ repart.todo)
    BY <1>2, <1>9 DEF RepartInv, WhereFilesAre
  <2>5. hit \subseteq hit' /\ copy \in {files[j].size, Gone} /\ (j \notin hit' => copy = files[j].size)
    BY <1>2, <2>2, CopiedOK
  <2>4. ASSUME NEW n \in 1 .. Len(files)
        PROVE  /\ n \notin Promised \ repart'.todo => on_ram'[n] = Gone
               /\ n \in Promised \ repart'.todo => on_ram'[n] \in {files[n].size, Gone}
               /\ n \in (Promised \ repart'.todo) \ hit' => on_ram'[n] = files[n].size
    <3>1. n \in DOMAIN on_ram
      BY DEF RepartInv, RepartTypes
    <3>2. CASE n = j
      <4>1. on_ram'[n] = copy /\ n \in Promised \ repart'.todo
        BY <1>2, <1>4, <1>5, <3>1, <3>2
      <4> QED BY <2>5, <3>2, <4>1
    <3>3. CASE n # j
      <4>1. on_ram'[n] = on_ram[n] /\ (n \in repart'.todo <=> n \in repart.todo)
        BY <1>2, <1>5, <3>1, <3>3
      <4>2. /\ n \notin Promised \ repart.todo => on_ram[n] = Gone
            /\ n \in Promised \ repart.todo => on_ram[n] \in {files[n].size, Gone}
            /\ n \in (Promised \ repart.todo) \ hit => on_ram[n] = files[n].size
        BY <2>3 DEF HasOnly
      <4> QED BY <2>5, <4>1, <4>2
    <3> QED BY <3>2, <3>3
  <2> QED BY <1>2, <1>6, <2>4 DEF HasOnly
<1>10. WhereFilesAre'
  BY <1>5, <1>6, <1>8, <1>9 DEF WhereFilesAre, BeforeFormat, AfterFormat
<1> QED BY <1>7, <1>10 DEF RepartInv

LEMMA CopyFailsOK == RepartInv /\ CopyFails => RepartInv'
<1> SUFFICES ASSUME RepartInv, CopyFails PROVE RepartInv'
  OBVIOUS
<1>1. /\ repart.st \in {"backup", "restore"} /\ repart' = [repart EXCEPT !.st = Failed[repart.st]]
      /\ UNCHANGED <<files, backup_possible, on_card, on_ram, card_table, hit>>
  BY DEF CopyFails
<1>2. /\ DOMAIN repart' = {"st", "todo", "total", "tries"} /\ repart'.todo = repart.todo
      /\ repart.st = "backup" => repart'.st = "backup_failed"
      /\ repart.st = "restore" => repart'.st = "restore_failed"
  BY <1>1 DEF Failed, RepartInv, RepartTypes
<1>3. repart'.todo \in SUBSET Promised
  BY <1>2 DEF RepartInv, RepartTypes
<1>4. CASE repart.st = "backup"
  <2>1. repart'.st \in RepartStates /\ repart.st \in BeforeFormat /\ repart'.st = "backup_failed" /\ repart'.st \notin AfterFormat
    BY <1>2, <1>4 DEF RepartStates, BeforeFormat, AfterFormat
  <2> QED BY <1>1, <1>2, <1>3, <2>1, RepartMoves
<1>5. CASE repart.st = "restore"
  <2>1. repart'.st \in RepartStates /\ repart'.st \notin BeforeFormat /\ repart'.st = "restore_failed"
    BY <1>2, <1>5 DEF RepartStates, BeforeFormat, AfterFormat
  <2>2. ReallyFits => HasOnly(on_ram, Promised)
    BY <1>5 DEF RepartInv, WhereFilesAre, AfterFormat
  <2> QED BY <1>1, <1>2, <1>3, <2>1, <2>2, RepartMoves
<1> QED BY <1>1, <1>4, <1>5

\* Everything that was backed up, and not hit, is restored.
LEMMA AllListed ==
  ASSUME files \in Contents, HasOnly(on_ram, Promised)
  PROVE  (Promised \ hit) \ Listed(on_ram) = {}
<1> SUFFICES ASSUME NEW n \in Promised \ hit PROVE n \in Listed(on_ram)
  OBVIOUS
<1>1. n \in 1 .. Len(files)
  BY DEF Promised
<1>2. on_ram[n] = files[n].size /\ files[n].size \in Nat
  BY <1>1, FilesOK DEF HasOnly
<1> QED BY <1>2 DEF Listed, Gone

LEMMA FormatOK == RepartInv /\ Format => RepartInv'
<1> SUFFICES ASSUME RepartInv, Format PROVE RepartInv'
  OBVIOUS
<1>1. /\ repart.st = "backup" /\ repart.todo = {} /\ UNCHANGED <<files, backup_possible, on_ram, hit>>
      /\ on_card' = [n \in DOMAIN on_card |-> Gone]
  BY DEF Format, BackedUp
<1>2. /\ repart'.st \in {"restore", "mkfs"} /\ DOMAIN repart' = {"st", "todo", "total", "tries"}
      /\ repart'.todo \in SUBSET Promised
      /\ repart'.st = "restore" => repart'.todo = Listed(on_ram)
  BY DEF Format, Repart, Listed
<1>3. Promised' = Promised /\ ReallyFits' = ReallyFits
  BY <1>1, RepartSame
<1>4. RepartTypes'
  BY <1>1, <1>2, <1>3 DEF RepartInv, RepartTypes, RepartStates, BeforeFormat, AfterFormat
<1>5. ASSUME ReallyFits PROVE HasOnly(on_ram, Promised) /\ (Promised \ hit) \ Listed(on_ram) = {}
  <2>1. HasOnly(on_ram, Promised)
    BY <1>1, <1>5 DEF RepartInv, WhereFilesAre, HasOnly
  <2> QED BY <2>1, AllListed DEF RepartInv, RepartTypes
<1>6. ReallyFits => HasOnly(on_ram, Promised)'
  BY <1>1, <1>3, <1>5 DEF HasOnly
<1>7. ReallyFits /\ repart'.st = "restore" => (Promised \ hit)' \ repart'.todo = {}
  BY <1>1, <1>2, <1>3, <1>5
<1>8. WhereFilesAre'
  BY <1>2, <1>3, <1>6, <1>7 DEF WhereFilesAre, BeforeFormat, AfterFormat
<1> QED BY <1>4, <1>8 DEF RepartInv

\* Restoring starts from the RAM disk, at first and after a failure.
LEMMA RestoreStarts ==
  ASSUME RepartInv, UNCHANGED <<files, backup_possible, on_card, on_ram, hit>>, repart.st \in AfterFormat,
         NEW tries, \/ repart' = Repart("restore", Listed(on_ram), tries)
                    \/ repart' = Repart("mkfs", {}, tries)
                    \/ repart' = Repart("not_restored", {}, tries)
  PROVE  RepartInv'
<1>1. /\ repart'.st \in {"restore", "mkfs", "not_restored"} /\ DOMAIN repart' = {"st", "todo", "total", "tries"}
      /\ repart'.todo \in SUBSET Promised
      /\ repart'.st = "restore" => repart'.todo = Listed(on_ram)
  BY DEF Repart, Listed
<1>2. ReallyFits => HasOnly(on_ram, Promised) /\ (Promised \ hit) \ Listed(on_ram) = {}
  BY AllListed DEF RepartInv, RepartTypes, WhereFilesAre
<1>3. /\ repart'.st \in RepartStates /\ repart'.st \notin BeforeFormat
      /\ repart'.st \notin {"window", "warned", "done", "restored_only", "backup"}
  BY <1>1 DEF RepartStates, BeforeFormat, AfterFormat
<1>4. ReallyFits /\ repart'.st = "restore" => (Promised \ hit) \ repart'.todo = {}
  BY <1>1, <1>2
<1> QED BY <1>1, <1>2, <1>3, <1>4, RepartMoves

LEMMA FormatAgainOK == RepartInv /\ FormatAgain => RepartInv'
<1> SUFFICES ASSUME RepartInv, FormatAgain PROVE RepartInv'
  OBVIOUS
<1>1. repart.st \in AfterFormat /\ UNCHANGED <<files, backup_possible, on_card, on_ram, hit>>
  BY DEF FormatAgain, AfterFormat
<1>2. \/ repart' = Repart("restore", Listed(on_ram), 0)
      \/ repart' = Repart("mkfs", {}, repart.tries + 1)
  BY DEF FormatAgain
<1>3. PICK t : t = repart.tries + 1
  OBVIOUS
<1> QED BY <1>1, <1>2, <1>3, RestoreStarts

LEMMA ReinsertedOK == RepartInv /\ Reinserted => RepartInv'
<1> SUFFICES ASSUME RepartInv, Reinserted PROVE RepartInv'
  OBVIOUS
<1>1. repart.st \in AfterFormat /\ UNCHANGED <<files, backup_possible, on_card, on_ram, hit>>
  BY DEF Reinserted, AfterFormat
<1>2. repart' = Repart("restore", Listed(on_ram), 0)
  BY DEF Reinserted
<1> QED BY <1>1, <1>2, RestoreStarts

LEMMA RestoreAgainOK == RepartInv /\ RestoreAgain => RepartInv'
<1> SUFFICES ASSUME RepartInv, RestoreAgain PROVE RepartInv'
  OBVIOUS
<1>1. repart.st \in AfterFormat /\ UNCHANGED <<files, backup_possible, on_card, on_ram, hit>>
  BY DEF RestoreAgain, AfterFormat
<1>2. PICK t : t = repart.tries + 1
  OBVIOUS
<1>3. repart' = Repart("restore", Listed(on_ram), t) \/ repart' = Repart("not_restored", {}, 0)
  BY <1>2 DEF RestoreAgain
<1> QED BY <1>1, <1>3, RestoreStarts

LEMMA RestoreFileOK == RepartInv /\ RestoreFile => RepartInv'
<1> SUFFICES ASSUME RepartInv, RestoreFile PROVE RepartInv'
  OBVIOUS
<1>1. PICK j : j = NextFile(repart.todo)
  OBVIOUS
<1>2. PICK copy :
        /\ repart.st = "restore" /\ repart.todo # {} /\ CopyLeaves(j, on_ram[j], copy)
        /\ on_card' = [on_card EXCEPT ![j] = copy]
        /\ repart' = AfterCopy(j, on_ram[j])
        /\ UNCHANGED <<files, backup_possible, on_ram, card_table>>
  BY <1>1 DEF RestoreFile
<1>9. hit \subseteq hit' /\ (j \notin hit' => copy = on_ram[j])
  BY <1>2, CopiedOK
<1>3. /\ DOMAIN repart' = {"st", "todo", "total", "tries"} /\ repart'.todo = repart.todo \ {j}
      /\ repart'.st \in {"restore", "restore_failed"}
  BY <1>2, AfterCopyOK
<1>4. Promised' = Promised /\ ReallyFits' = ReallyFits
  BY <1>2, RepartSame
<1>5. RepartTypes'
  BY <1>2, <1>3, <1>4 DEF RepartInv, RepartTypes, RepartStates, AfterFormat
<1>6. ReallyFits => HasOnly(on_ram, Promised)'
  <2>1. ReallyFits => HasOnly(on_ram, Promised)
    BY <1>2 DEF RepartInv, WhereFilesAre, AfterFormat
  <2> QED BY <1>2, <1>4, <1>9, <2>1 DEF HasOnly
<1>7. ASSUME ReallyFits, NEW n \in Promised, n \notin hit', n \notin repart'.todo PROVE Whole(on_card, n)'
  <2>1. n \in 1 .. Len(files) /\ n \in DOMAIN on_card
    BY DEF Promised, RepartInv, RepartTypes
  <2>2. CASE n = j
    <3>1. on_ram[n] = files[n].size
      BY <1>2, <1>7, <1>9, <2>1 DEF RepartInv, WhereFilesAre, AfterFormat, HasOnly
    <3> QED BY <1>2, <1>7, <1>9, <2>1, <2>2, <3>1 DEF Whole
  <2>3. CASE n # j
    <3>1. Whole(on_card, n)
      BY <1>2, <1>3, <1>7, <1>9, <2>3 DEF RepartInv, WhereFilesAre
    <3> QED BY <1>2, <2>1, <2>3, <3>1 DEF Whole
  <2> QED BY <2>2, <2>3
<1>8. WhereFilesAre'
  BY <1>3, <1>4, <1>6, <1>7 DEF WhereFilesAre, BeforeFormat, AfterFormat
<1> QED BY <1>5, <1>8 DEF RepartInv

LEMMA RepartFinishOK == RepartInv /\ RepartFinish => RepartInv'
<1> SUFFICES ASSUME RepartInv, RepartFinish PROVE RepartInv'
  OBVIOUS
<1>1. /\ repart.st = "restore" /\ repart.todo = {} /\ UNCHANGED <<files, backup_possible, on_card, hit>>
      /\ DOMAIN on_ram' = DOMAIN on_ram
  BY DEF RepartFinish, Restored
<1>2. /\ repart'.st \in {"done", "restored_only"} /\ DOMAIN repart' = {"st", "todo", "total", "tries"}
      /\ repart'.todo = {} /\ (repart'.st = "done" => card_table' = "new")
  BY DEF RepartFinish, Repart
<1>3. Promised' = Promised /\ ReallyFits' = ReallyFits
  BY <1>1, RepartSame
<1>4. RepartTypes'
  BY <1>1, <1>2, <1>3 DEF RepartInv, RepartTypes, RepartStates
<1>5. ReallyFits => \A n \in (Promised \ hit)' : Whole(on_card, n)'
  BY <1>1, <1>3 DEF RepartInv, WhereFilesAre, Whole
<1>6. WhereFilesAre'
  BY <1>2, <1>3, <1>5 DEF WhereFilesAre, BeforeFormat, AfterFormat
<1> QED BY <1>4, <1>6 DEF RepartInv

LEMMA RepartStutter == RepartInv /\ UNCHANGED repartVars => RepartInv'
<1> SUFFICES ASSUME RepartInv, UNCHANGED repartVars PROVE RepartInv'
  OBVIOUS
<1>1. UNCHANGED <<files, backup_possible, on_card, on_ram, card_table, hit, repart>>
  BY DEF repartVars
<1>2. Promised' = Promised /\ ReallyFits' = ReallyFits
  BY <1>1, RepartSame
<1> QED BY <1>1, <1>2 DEF RepartInv, RepartTypes, WhereFilesAre, CardAsWas, HasOnly, Whole

LEMMA RepartStepOK == RepartInv /\ [RepartNext]_repartVars => RepartInv'
BY CheckSizesOK, StartOK, BackupFileOK, CopyFailsOK, FormatOK, FormatAgainOK, ReinsertedOK, RestoreFileOK,
   RestoreAgainOK, RepartFinishOK, RepartStutter DEF RepartNext

LEMMA RepartAlwaysInv == RepartSpec => []RepartInv
BY RepartInitOK, RepartStepOK, PTL DEF RepartSpec

\* Whatever files there are: those that were promised to be kept, when their
\* clusters fit the RAM disk, are never without a whole copy, through any
\* failures of reading directories, formatting, mounting and restoring, but for
\* the files of which the code ignores a failed open, read or write.
THEOREM FilesAlwaysSomewhere == RepartSpec => []FilesSomewhere
<1>1. RepartInv => FilesSomewhere
  <2> SUFFICES ASSUME RepartInv, ReallyFits, NEW n \in Promised \ hit PROVE Whole(on_card, n) \/ Whole(on_ram, n)
    BY DEF FilesSomewhere
  <2>1. n \in 1 .. Len(files)
    BY DEF Promised
  <2>2. CASE repart.st \in BeforeFormat
    BY <2>1, <2>2 DEF RepartInv, WhereFilesAre, CardAsWas
  <2>3. CASE repart.st \in AfterFormat
    BY <2>1, <2>3 DEF RepartInv, WhereFilesAre, HasOnly, Whole
  <2>4. CASE repart.st \in {"done", "restored_only"}
    BY <2>4 DEF RepartInv, WhereFilesAre
  <2> QED BY <2>2, <2>3, <2>4 DEF RepartInv, RepartTypes, RepartStates
<1> QED BY <1>1, RepartAlwaysInv, PTL

\* What the manager reports is so: an error of the backup leaves the card as it
\* was, "Done!" means new tables, and the files are back when their clusters fit
\* and no failure of their copies was ignored, whether or not the card could be
\* mounted again.
THEOREM ReportAlwaysTrue == RepartSpec => []ReportIsTrue
<1>1. RepartInv => ReportIsTrue
  BY DEF RepartInv, WhereFilesAre, CardAsWas, BeforeFormat, ReportIsTrue
<1> QED BY <1>1, RepartAlwaysInv, PTL

----------------------------------------------------------------------------
(* PartLayout: lists of partitions and the tables made of them.            *)

----------------------------------------------------------------------------
(* PartLayout: lists of partitions.                                        *)

PartNames == {"hos_data", "USER", "l4t", "boot", "recovery", "dtb", "misc", "cache", "super", "vendor",
              "APP", "LNX", "SOS", "DTB", "MDA", "CAC", "MSC", "userdata", "emummc", "emummc2", "protective"}
SizedParts == [name : PartNames, size : Nat]
TableParts == [name : PartNames, start : Nat, size : Nat]

\* The sum of the sizes of a list.
Sum(list) == SizeOf(list)[Len(list)]

LEMMA SizedIs ==
  ASSUME NEW list \in Seq(SizedParts)
  PROVE  \A n \in 1 .. Len(list) : list[n] \in SizedParts /\ list[n].size \in Nat /\ list[n].name \in PartNames
<1>1. \A n \in 1 .. Len(list) : list[n] \in SizedParts
  OBVIOUS
<1> QED BY <1>1 DEF SizedParts

LEMMA SizeOfSums ==
  ASSUME NEW list, Len(list) \in Nat
  PROVE  LET g == SizeOf(list) IN
         g = [n \in 0 .. Len(list) |-> IF n = 0 THEN 0 ELSE g[n - 1] + list[n].size]
<1> DEFINE S(g) == g = [n \in 0 .. Len(list) |-> IF n = 0 THEN 0 ELSE g[n - 1] + list[n].size]
<1>1. PICK p : p = [n \in 1 .. Len(list) |-> list[n].size]
  OBVIOUS
<1>2. PICK g : Sums(p, Len(list), g)
  BY SumsExist
<1>3. S(g)
  <2>1. g = [n \in 0 .. Len(list) |-> IF n = 0 THEN 0 ELSE g[n - 1] + p[n]]
    BY <1>2 DEF Sums
  <2>2. \A n \in 0 .. Len(list) : n # 0 => p[n] = list[n].size
    BY <1>1
  <2> QED BY <2>1, <2>2
<1>4. PICK h : h = CHOOSE x : S(x)
  OBVIOUS
<1>5. S(h)
  <2> HIDE DEF S
  <2> QED BY <1>3, <1>4
<1>6. SizeOf(list) = h
  BY <1>4, Zenon DEF SizeOf
<1> QED BY <1>5, <1>6

\* Each partition of a list adds its size.
LEMMA SizeOfOK ==
  ASSUME NEW list \in Seq(SizedParts)
  PROVE  /\ SizeOf(list)[0] = 0
         /\ \A n \in 1 .. Len(list) : SizeOf(list)[n] = SizeOf(list)[n - 1] + list[n].size
         /\ \A n \in 0 .. Len(list) : SizeOf(list)[n] \in Nat
         /\ \A n \in 0 .. Len(list) : \A m \in 0 .. n : SizeOf(list)[m] <= SizeOf(list)[n]
<1>1a. PICK len \in Nat : len = Len(list)
  OBVIOUS
<1>1. PICK g : len = Len(list) /\ g = SizeOf(list)
  BY <1>1a
<1>2. g = [n \in 0 .. len |-> IF n = 0 THEN 0 ELSE g[n - 1] + list[n].size]
  BY <1>1, SizeOfSums
<1>3. PICK p : p = [n \in 1 .. len |-> list[n].size]
  OBVIOUS
<1>4. \A n \in 1 .. len : p[n] = list[n].size /\ p[n] \in Nat
  BY <1>1, <1>3, SizedIs
<1>5. Sums(p, len, g)
  <2>1. \A n \in 0 .. len : n # 0 => p[n] = list[n].size
    BY <1>4
  <2> QED BY <1>2, <2>1 DEF Sums
<1>6. /\ g[0] = 0
      /\ \A n \in 1 .. len : g[n] = g[n - 1] + p[n]
      /\ \A n \in 0 .. len : g[n] \in Nat
      /\ \A n \in 0 .. len : \A m \in 0 .. n : g[m] <= g[n]
  BY <1>4, <1>5, SumsGrow
<1> QED BY <1>1, <1>4, <1>6

\* s adds up p, and g does from i on.
Adds(s, p, len) ==
    /\ s[0] = 0 /\ \A n \in 0 .. len : s[n] \in Nat
    /\ \A n \in 1 .. len : p[n] \in Nat /\ s[n] = s[n - 1] + p[n]
AddsFrom(g, i, p, len) == \A n \in 1 .. len : g[i + n] = g[i + n - 1] + p[n]

\* Two sums with the same summands differ by what they start from.
LEMMA SameSums ==
  ASSUME NEW len \in Nat, NEW i \in Nat, NEW c \in Nat, NEW p, NEW g, NEW s,
         g[i] = c, Adds(s, p, len), AddsFrom(g, i, p, len)
  PROVE  \A n \in 0 .. len : g[i + n] = c + s[n]
<1> USE DEF Adds, AddsFrom
<1> DEFINE B == {n \in 0 .. len : g[i + n] # c + s[n]}
<1>1. SUFFICES ASSUME B # {} PROVE FALSE
  OBVIOUS
<1>2. PICK n \in B : \A m \in B : n <= m
  <2>1. B \in SUBSET Nat
    OBVIOUS
  <2> HIDE DEF B
  <2> QED BY <1>1, <2>1, LeastExists
<1>3. n # 0
  <2>1. i + 0 = i /\ c + 0 = c
    OBVIOUS
  <2> QED BY <2>1
<1>4. n \in 1 .. len /\ n - 1 \in 0 .. len /\ ~(n <= n - 1)
  BY <1>3
<1>5. g[i + (n - 1)] = c + s[n - 1]
  BY <1>2, <1>4
<1>6. i + n - 1 = i + (n - 1)
  BY <1>4
<1>7. PICK x \in Nat, y \in Nat : x = s[n - 1] /\ y = p[n]
  BY <1>4
<1>8. g[i + n] = (c + x) + y /\ s[n] = x + y
  BY <1>4, <1>5, <1>6, <1>7
<1>9. (c + x) + y = c + (x + y)
  OBVIOUS
<1> QED BY <1>8, <1>9

\* The sizes of two lists one after the other.
LEMMA SizeOfBoth ==
  ASSUME NEW a \in Seq(SizedParts), NEW b \in Seq(SizedParts)
  PROVE  /\ \A n \in 0 .. Len(a) : SizeOf(a \o b)[n] = SizeOf(a)[n]
         /\ \A n \in 0 .. Len(b) : SizeOf(a \o b)[Len(a) + n] = Sum(a) + SizeOf(b)[n]
         /\ Sum(a \o b) = Sum(a) + Sum(b)
         /\ Sum(a) \in Nat /\ Sum(b) \in Nat
<1>1. PICK la \in Nat, lb \in Nat : la = Len(a) /\ lb = Len(b)
  OBVIOUS
<1>2. PICK c : c = a \o b
  OBVIOUS
<1>3. /\ c \in Seq(SizedParts) /\ Len(c) = la + lb
      /\ \A n \in 1 .. la : c[n] = a[n]
      /\ \A n \in 1 .. lb : c[la + n] = b[n]
  BY <1>1, <1>2
<1>4. PICK g, s, t, p, q :
        /\ g = SizeOf(c) /\ s = SizeOf(a) /\ t = SizeOf(b)
        /\ p = [n \in 1 .. la |-> a[n].size] /\ q = [n \in 1 .. lb |-> b[n].size]
  OBVIOUS
<1>5. /\ \A n \in 1 .. la : p[n] \in Nat /\ p[n] = a[n].size
      /\ \A n \in 1 .. lb : q[n] \in Nat /\ q[n] = b[n].size
  <2>1. /\ \A n \in 1 .. la : a[n].size \in Nat
        /\ \A n \in 1 .. lb : b[n].size \in Nat
    BY <1>1, SizedIs
  <2> QED BY <1>4, <2>1
<1>6. /\ s[0] = 0 /\ \A n \in 1 .. la : s[n] = s[n - 1] + p[n]
      /\ \A n \in 0 .. la : s[n] \in Nat
  BY <1>1, <1>4, <1>5, SizeOfOK
<1>7. /\ t[0] = 0 /\ \A n \in 1 .. lb : t[n] = t[n - 1] + q[n]
      /\ \A n \in 0 .. lb : t[n] \in Nat
  BY <1>1, <1>4, <1>5, SizeOfOK
<1>8. g[0] = 0 /\ \A n \in 1 .. la + lb : g[n] = g[n - 1] + c[n].size
  BY <1>3, <1>4, SizeOfOK
<1>9. \A n \in 0 .. la : g[n] = s[n]
  <2>1. AddsFrom(g, 0, p, la)
    <3> SUFFICES ASSUME NEW n \in 1 .. la PROVE g[0 + n] = g[0 + n - 1] + p[n]
      BY DEF AddsFrom
    <3>1. n \in 1 .. la + lb /\ 0 + n = n
      OBVIOUS
    <3>2. c[n].size = p[n]
      BY <1>3, <1>5
    <3> QED BY <1>8, <3>1, <3>2
  <2>2. \A n \in 0 .. la : g[0 + n] = 0 + s[n]
    <3>1. Adds(s, p, la)
      BY <1>5, <1>6 DEF Adds
    <3>2. 0 \in Nat /\ g[0] = 0
      BY <1>8
    <3> QED BY <2>1, <3>1, <3>2, SameSums
  <2>3. \A n \in 0 .. la : 0 + n = n /\ 0 + s[n] = s[n]
    BY <1>6
  <2> QED BY <2>2, <2>3
<1>10. PICK k \in Nat : k = s[la]
  BY <1>6
<1>11. \A n \in 0 .. lb : g[la + n] = k + t[n]
  <2>1. g[la] = k
    BY <1>9, <1>10
  <2>2. AddsFrom(g, la, q, lb)
    <3> SUFFICES ASSUME NEW n \in 1 .. lb PROVE g[la + n] = g[la + n - 1] + q[n]
      BY DEF AddsFrom
    <3>1. la + n \in 1 .. la + lb
      OBVIOUS
    <3>2. c[la + n].size = q[n]
      BY <1>3, <1>5
    <3> QED BY <1>8, <3>1, <3>2
  <2>3. Adds(t, q, lb)
    BY <1>5, <1>7 DEF Adds
  <2> QED BY <2>1, <2>2, <2>3, SameSums
<1>12. Sum(a) = k /\ Sum(b) = t[lb] /\ Sum(a \o b) = g[la + lb]
  BY <1>1, <1>2, <1>3, <1>4, <1>10 DEF Sum
<1>13. g[la + lb] = k + t[lb] /\ t[lb] \in Nat
  BY <1>7, <1>11
<1> QED BY <1>1, <1>2, <1>4, <1>9, <1>11, <1>12, <1>13

\* The partitions of s follow each other between a and b.
Laid(s, a, b) ==
    /\ s \in Seq(TableParts)
    /\ \A n \in 1 .. Len(s) : s[n].size > 0 /\ a <= s[n].start /\ s[n].start + s[n].size <= b
    /\ \A m, n \in 1 .. Len(s) : m < n => s[m].start + s[m].size <= s[n].start

LEMMA TableIs ==
  ASSUME NEW s \in Seq(TableParts)
  PROVE  \A n \in 1 .. Len(s) : s[n] \in TableParts /\ s[n].size \in Nat /\ s[n].start \in Nat
<1>1. \A n \in 1 .. Len(s) : s[n] \in TableParts
  OBVIOUS
<1> QED BY <1>1 DEF TableParts

LEMMA LaidNone == ASSUME NEW a, NEW b PROVE Laid(<<>>, a, b)
BY DEF Laid

LEMMA LaidOne ==
  ASSUME NEW name \in PartNames, NEW start \in Nat, NEW size \in Nat \ {0}
  PROVE  Laid(<<Entry(name, start, size)>>, start, start + size)
<1>1. PICK e : e = Entry(name, start, size)
  OBVIOUS
<1>2. e \in TableParts /\ e.start = start /\ e.size = size
  BY <1>1 DEF TableParts, Entry
<1>3. PICK s : s = <<e>>
  OBVIOUS
<1>4. s \in Seq(TableParts) /\ Len(s) = 1 /\ s[1] = e
  BY <1>2, <1>3
<1>5. Laid(s, start, start + size)
  BY <1>2, <1>4 DEF Laid
<1> QED BY <1>1, <1>3, <1>5

\* Partitions up to b, and partitions from b on.
LEMMA LaidBoth ==
  ASSUME NEW a \in Nat, NEW b \in Nat, NEW c \in Nat, a <= b, b <= c,
         NEW s, NEW t, Laid(s, a, b), Laid(t, b, c)
  PROVE  Laid(s \o t, a, c)
<1>0. s \in Seq(TableParts) /\ t \in Seq(TableParts)
  BY DEF Laid
<1>1a. PICK ls \in Nat, lt \in Nat : ls = Len(s) /\ lt = Len(t)
  BY <1>0
<1>1. PICK u : ls = Len(s) /\ lt = Len(t) /\ u = s \o t
  BY <1>1a
<1>2. /\ u \in Seq(TableParts) /\ Len(u) = ls + lt
      /\ \A n \in 1 .. ls : u[n] = s[n]
      /\ \A n \in ls + 1 .. ls + lt : n - ls \in 1 .. lt /\ u[n] = t[n - ls]
  <2>1. u \in Seq(TableParts) /\ Len(u) = ls + lt /\ \A n \in 1 .. ls : u[n] = s[n]
    BY <1>0, <1>1
  <2>2. ASSUME NEW n \in ls + 1 .. ls + lt PROVE n - ls \in 1 .. lt /\ u[n] = t[n - ls]
    BY <1>0, <1>1
  <2> QED BY <2>1, <2>2
<1>3. \A n \in 1 .. ls : /\ u[n].size \in Nat /\ u[n].start \in Nat /\ u[n].size > 0
                         /\ a <= u[n].start /\ u[n].start + u[n].size <= b
  BY <1>1, <1>2, TableIs DEF Laid
<1>4. \A n \in ls + 1 .. ls + lt : /\ u[n].size \in Nat /\ u[n].start \in Nat /\ u[n].size > 0
                                   /\ b <= u[n].start /\ u[n].start + u[n].size <= c
  BY <1>1, <1>2, TableIs DEF Laid
<1>5. ASSUME NEW n \in 1 .. ls + lt
      PROVE  u[n].size > 0 /\ a <= u[n].start /\ u[n].start + u[n].size <= c
  <2>1. CASE n \in 1 .. ls
    <3>1. PICK x \in Nat, y \in Nat : x = u[n].start /\ y = u[n].size
      BY <1>3, <2>1
    <3>2. y > 0 /\ a <= x /\ x + y <= b
      BY <1>3, <2>1, <3>1
    <3>3. x + y <= c
      BY <3>2
    <3> QED BY <3>1, <3>2, <3>3
  <2>2. CASE n \in ls + 1 .. ls + lt
    <3>1. PICK x \in Nat, y \in Nat : x = u[n].start /\ y = u[n].size
      BY <1>4, <2>2
    <3>2. y > 0 /\ b <= x /\ x + y <= c
      BY <1>4, <2>2, <3>1
    <3>3. a <= x
      BY <3>2
    <3> QED BY <3>1, <3>2, <3>3
  <2> QED BY <2>1, <2>2
<1>6. ASSUME NEW m \in 1 .. ls + lt, NEW n \in 1 .. ls + lt, m < n
      PROVE  u[m].start + u[m].size <= u[n].start
  <2>1. CASE n \in 1 .. ls
    <3>1. m \in 1 .. ls
      BY <1>6, <2>1
    <3>2. s[m].start + s[m].size <= s[n].start
      BY <1>1, <1>6, <2>1, <3>1 DEF Laid
    <3> QED BY <1>2, <2>1, <3>1, <3>2
  <2>2. CASE m \in 1 .. ls /\ n \in ls + 1 .. ls + lt
    <3>1. PICK x \in Nat, y \in Nat, z \in Nat : x = u[m].start /\ y = u[m].size /\ z = u[n].start
      BY <1>3, <1>4, <2>2
    <3>2. x + y <= b /\ b <= z
      BY <1>3, <1>4, <2>2, <3>1
    <3>3. x + y <= z
      BY <3>2
    <3> QED BY <3>1, <3>3
  <2>3. CASE m \in ls + 1 .. ls + lt
    <3>1. n \in ls + 1 .. ls + lt /\ m - ls \in 1 .. lt /\ n - ls \in 1 .. lt /\ m - ls < n - ls
      BY <1>6, <2>3
    <3>2. t[m - ls].start + t[m - ls].size <= t[n - ls].start
      BY <1>1, <3>1 DEF Laid
    <3> QED BY <1>2, <2>3, <3>1, <3>2
  <2> QED BY <1>6, <2>1, <2>2, <2>3
<1>7. Laid(u, a, c)
  BY <1>2, <1>5, <1>6 DEF Laid
<1> QED BY <1>1, <1>7

LEMMA LaidInOrder ==
  ASSUME NEW a \in Nat, NEW b \in Nat, NEW last \in Nat, b <= last, NEW s, Laid(s, a, b)
  PROVE  InOrder(s, last)
<1>1. ASSUME NEW n \in 1 .. Len(s) PROVE s[n].size > 0 /\ s[n].start + s[n].size <= last
  <2>1. PICK x \in Nat, y \in Nat : x = s[n].start /\ y = s[n].size
    BY TableIs DEF Laid
  <2>2. y > 0 /\ x + y <= b
    BY <2>1 DEF Laid
  <2>3. x + y <= last
    BY <2>2
  <2> QED BY <2>1, <2>2, <2>3
<1>2. \A m, n \in 1 .. Len(s) : m < n => s[m].start + s[m].size <= s[n].start
  BY DEF Laid
<1> QED BY <1>1, <1>2 DEF InOrder

\* Lists without empty partitions.
Positive(list) == list \in Seq(SizedParts) /\ \A n \in 1 .. Len(list) : list[n].size > 0

LEMMA ChainEntries ==
  ASSUME NEW start \in Nat, NEW list \in Seq(SizedParts)
  PROVE  /\ Chain(start, list) \in Seq(TableParts) /\ Len(Chain(start, list)) = Len(list)
         /\ \A n \in 1 .. Len(list) :
              Chain(start, list)[n] = Entry(list[n].name, start + SizeOf(list)[n - 1], list[n].size)
<1>1a. PICK len \in Nat : len = Len(list)
  OBVIOUS
<1>1. PICK c, g : len = Len(list) /\ c = Chain(start, list) /\ g = SizeOf(list)
  BY <1>1a
<1>2. c = [n \in 1 .. len |-> Entry(list[n].name, start + g[n - 1], list[n].size)]
  BY <1>1 DEF Chain
<1>3. ASSUME NEW n \in 1 .. len PROVE Entry(list[n].name, start + g[n - 1], list[n].size) \in TableParts
  <2>1. PICK x \in Nat : x = g[n - 1]
    BY <1>1, SizeOfOK
  <2>2. start + x \in Nat /\ list[n].name \in PartNames /\ list[n].size \in Nat
    BY <1>1, SizedIs
  <2> QED BY <2>1, <2>2 DEF Entry, TableParts
<1>4. c \in Seq(TableParts) /\ Len(c) = len
  BY <1>2, <1>3
<1>5. \A n \in 1 .. len : c[n] = Entry(list[n].name, start + g[n - 1], list[n].size)
  BY <1>2
<1> QED BY <1>1, <1>4, <1>5

\* A chain of partitions is laid out from its start over the sum of its sizes.
LEMMA ChainLaid ==
  ASSUME NEW start \in Nat, NEW list, Positive(list)
  PROVE  Laid(Chain(start, list), start, start + Sum(list))
<1>0. list \in Seq(SizedParts)
  BY DEF Positive
<1>1a. PICK len \in Nat : len = Len(list)
  BY <1>0
<1>1. PICK c, g : len = Len(list) /\ c = Chain(start, list) /\ g = SizeOf(list)
  BY <1>1a
<1>2. c \in Seq(TableParts) /\ Len(c) = len
  BY <1>0, <1>1, ChainEntries
<1>3. /\ \A n \in 1 .. len : g[n] = g[n - 1] + list[n].size
      /\ \A n \in 0 .. len : g[n] \in Nat
      /\ \A n \in 0 .. len : \A m \in 0 .. n : g[m] <= g[n]
  BY <1>0, <1>1, SizeOfOK
<1>4. ASSUME NEW n \in 1 .. len
      PROVE  /\ g[n - 1] \in Nat /\ g[n] \in Nat /\ c[n].start = start + g[n - 1] /\ c[n].size > 0
             /\ c[n].start + c[n].size = start + g[n]
  <2>1. n - 1 \in 0 .. len /\ n \in 0 .. len
    OBVIOUS
  <2>2. PICK x \in Nat, y \in Nat, z \in Nat : x = g[n - 1] /\ y = list[n].size /\ z = g[n]
    BY <1>0, <1>1, <1>3, <2>1, SizedIs
  <2>3. c[n] = Entry(list[n].name, start + x, y) /\ y > 0
    BY <1>0, <1>1, <2>2, ChainEntries DEF Positive
  <2>4. c[n].start = start + x /\ c[n].size = y
    BY <2>3 DEF Entry
  <2>5. z = x + y
    BY <1>3, <2>2
  <2>6. (start + x) + y = start + z
    BY <2>5
  <2> QED BY <2>2, <2>3, <2>4, <2>6
<1>5. PICK k \in Nat : k = g[len] /\ k = Sum(list)
  BY <1>1, <1>3 DEF Sum
<1>6. ASSUME NEW n \in 1 .. len
      PROVE  c[n].size > 0 /\ start <= c[n].start /\ c[n].start + c[n].size <= start + k
  <2>1. PICK x \in Nat, z \in Nat : x = g[n - 1] /\ z = g[n]
    BY <1>4
  <2>2. n \in 0 .. len /\ len \in 0 .. len
    OBVIOUS
  <2>3. z <= k
    BY <1>3, <1>5, <2>1, <2>2
  <2>4. start <= start + x /\ start + z <= start + k
    BY <2>3
  <2> QED BY <1>4, <2>1, <2>4
<1>7. ASSUME NEW m \in 1 .. len, NEW n \in 1 .. len, m < n
      PROVE  c[m].start + c[m].size <= c[n].start
  <2>1. PICK x \in Nat, z \in Nat : x = g[m] /\ z = g[n - 1]
    BY <1>4
  <2>2. m \in 0 .. n - 1 /\ n - 1 \in 0 .. len
    BY <1>7
  <2>3. x <= z
    BY <1>3, <2>1, <2>2
  <2>4. start + x <= start + z
    BY <2>3
  <2> QED BY <1>4, <2>1, <2>4
<1>8. Laid(c, start, start + k)
  BY <1>2, <1>6, <1>7 DEF Laid
<1> QED BY <1>1, <1>5, <1>8

\* A list after another is chained where the other ends.
Joined(a, b, c, k) ==
    a \in Seq(SizedParts) /\ b \in Seq(SizedParts) /\ c = a \o b /\ k \in Nat /\ k = Sum(a)

ChainJoined(start, a, end, b, c) == Chain(start, c) = Chain(start, a) \o Chain(end, b)

LEMMA ChainBoth ==
  ASSUME NEW start \in Nat, NEW a, NEW b, NEW c, NEW k, Joined(a, b, c, k), NEW end, end = start + k
  PROVE  ChainJoined(start, a, end, b, c)
<1>0. a \in Seq(SizedParts) /\ b \in Seq(SizedParts) /\ c = a \o b /\ k \in Nat /\ k = Sum(a)
  BY DEF Joined
<1>1. PICK la \in Nat, lb \in Nat : la = Len(a) /\ lb = Len(b)
  BY <1>0
<1>2. /\ c \in Seq(SizedParts) /\ Len(c) = la + lb
      /\ \A n \in 1 .. la : c[n] = a[n]
      /\ \A n \in 1 .. lb : c[la + n] = b[n]
  BY <1>0, <1>1
<1>4. PICK g, s, t : g = SizeOf(c) /\ s = SizeOf(a) /\ t = SizeOf(b)
  OBVIOUS
<1>5. /\ \A n \in 0 .. la : g[n] = s[n]
      /\ \A n \in 0 .. lb : g[la + n] = k + t[n]
      /\ \A n \in 0 .. lb : t[n] \in Nat
  BY <1>0, <1>1, <1>4, SizeOfBoth, SizeOfOK
<1>6. PICK u, v, w : u = Chain(start, c) /\ v = Chain(start, a) /\ w = Chain(start + k, b)
  OBVIOUS
<1>7. start + k \in Nat
  BY <1>0
<1>8. /\ u \in Seq(TableParts) /\ Len(u) = la + lb
      /\ \A n \in 1 .. la + lb : u[n] = Entry(c[n].name, start + g[n - 1], c[n].size)
  BY <1>2, <1>4, <1>6, ChainEntries
<1>9. /\ v \in Seq(TableParts) /\ Len(v) = la
      /\ \A n \in 1 .. la : v[n] = Entry(a[n].name, start + s[n - 1], a[n].size)
  BY <1>0, <1>1, <1>4, <1>6, ChainEntries
<1>10. /\ w \in Seq(TableParts) /\ Len(w) = lb
       /\ \A n \in 1 .. lb : w[n] = Entry(b[n].name, (start + k) + t[n - 1], b[n].size)
  BY <1>0, <1>1, <1>4, <1>6, <1>7, ChainEntries
<1>11. PICK x : x = v \o w
  OBVIOUS
<1>12. x \in Seq(TableParts) /\ Len(x) = la + lb
       /\ \A n \in 1 .. la + lb : x[n] = IF n <= la THEN v[n] ELSE w[n - la]
  <2>1. PICK S : S = TableParts
    OBVIOUS
  <2>2. v \in Seq(S) /\ w \in Seq(S)
    BY <1>9, <1>10, <2>1
  <2>3. /\ x \in Seq(S) /\ Len(x) = Len(v) + Len(w)
        /\ \A n \in 1 .. Len(v) + Len(w) : x[n] = IF n <= Len(v) THEN v[n] ELSE w[n - Len(v)]
    BY <1>11, <2>2, ConcatProperties
  <2> QED BY <1>9, <1>10, <2>1, <2>3
<1>13. ASSUME NEW n \in 1 .. la + lb PROVE u[n] = x[n]
  <2>1. CASE n <= la
    <3>1. n \in 1 .. la /\ n - 1 \in 0 .. la
      BY <2>1
    <3>2. x[n] = v[n]
      BY <1>12, <2>1
    <3> QED BY <1>2, <1>5, <1>8, <1>9, <3>1, <3>2
  <2>2. CASE ~(n <= la)
    <3>1. PICK m \in 1 .. lb : n = la + m
      <4>1. n - la \in 1 .. lb /\ n = la + (n - la)
        BY <2>2
      <4> QED BY <4>1
    <3>2. n - 1 = la + (m - 1) /\ m - 1 \in 0 .. lb /\ n - la = m
      BY <3>1
    <3>3. PICK y \in Nat : y = t[m - 1]
      BY <1>5, <3>2
    <3>4. g[n - 1] = k + y
      BY <1>5, <3>2, <3>3
    <3>5. u[n] = Entry(b[m].name, start + (k + y), b[m].size)
      BY <1>2, <1>8, <3>1, <3>4
    <3>6. x[n] = w[m]
      BY <1>12, <2>2, <3>2
    <3>7. w[m] = Entry(b[m].name, (start + k) + y, b[m].size)
      BY <1>10, <3>3
    <3>8. start + (k + y) = (start + k) + y
      BY <1>0
    <3> QED BY <3>5, <3>6, <3>7, <3>8
  <2> QED BY <2>1, <2>2
<1>14. u = x
  BY <1>8, <1>12, <1>13, SeqEqual
<1> QED BY <1>6, <1>11, <1>14 DEF ChainJoined

LEMMA ChainNone ==
  ASSUME NEW start \in Nat
  PROVE  /\ Chain(start, <<>>) = <<>> /\ Sum(<<>>) = 0
         /\ <<>> \in Seq(SizedParts) /\ Positive(<<>>)
<1>1. PICK l : l = <<>>
  OBVIOUS
<1>2. l \in Seq(SizedParts) /\ Len(l) = 0
  BY <1>1
<1>3. Chain(start, l) \in Seq(TableParts) /\ Len(Chain(start, l)) = 0
  BY <1>2, ChainEntries
<1>4. SizeOf(l)[0] = 0
  BY <1>2, SizeOfOK
<1>5. Sum(l) = 0
  BY <1>2, <1>4 DEF Sum
<1>6. Positive(l)
  BY <1>2 DEF Positive
<1> QED BY <1>1, <1>2, <1>3, <1>5, <1>6

LEMMA SeqOne == ASSUME NEW S, NEW x \in S PROVE <<x>> \in Seq(S) /\ Len(<<x>>) = 1 /\ <<x>>[1] = x
OBVIOUS

LEMMA ChainOne ==
  ASSUME NEW start \in Nat, NEW name \in PartNames, NEW size \in Nat \ {0}
  PROVE  /\ <<Sized(name, size)>> \in Seq(SizedParts) /\ Positive(<<Sized(name, size)>>)
         /\ Sum(<<Sized(name, size)>>) = size
         /\ Chain(start, <<Sized(name, size)>>) = <<Entry(name, start, size)>>
<1>1. PICK e, l : e = Sized(name, size) /\ l = <<e>>
  OBVIOUS
<1>2. e \in SizedParts /\ e.name = name /\ e.size = size
  BY <1>1 DEF Sized, SizedParts
<1>3. l \in Seq(SizedParts) /\ Len(l) = 1 /\ l[1] = e
  BY <1>1, <1>2, SeqOne
<1>4. PICK g : g = SizeOf(l)
  OBVIOUS
<1>5. g[0] = 0 /\ \A n \in 1 .. 1 : g[n] = g[n - 1] + l[n].size
  BY <1>3, <1>4, SizeOfOK
<1>6. g[1] = size
  <2>1. 1 \in 1 .. 1 /\ 1 - 1 = 0
    OBVIOUS
  <2>2. g[1] = 0 + size
    BY <1>2, <1>3, <1>5, <2>1
  <2> QED BY <2>2
<1>7. Sum(l) = size
  BY <1>3, <1>4, <1>6 DEF Sum
<1>8. Positive(l)
  BY <1>2, <1>3 DEF Positive
<1>9. PICK c : c = Chain(start, l)
  OBVIOUS
<1>10. /\ c \in Seq(TableParts) /\ Len(c) = 1
       /\ \A n \in 1 .. 1 : c[n] = Entry(l[n].name, start + g[n - 1], l[n].size)
  BY <1>3, <1>4, <1>9, ChainEntries
<1>11. c[1] = Entry(name, start, size)
  <2>1. 1 \in 1 .. 1 /\ 1 - 1 = 0 /\ start + 0 = start
    OBVIOUS
  <2> QED BY <1>2, <1>3, <1>5, <1>10, <2>1
<1>12. PICK x, d : x = Entry(name, start, size) /\ d = <<x>>
  OBVIOUS
<1>13. x \in TableParts
  BY <1>12 DEF Entry, TableParts
<1>14. d \in Seq(TableParts) /\ Len(d) = 1 /\ d[1] = x
  BY <1>12, <1>13, SeqOne
<1>15. c = d
  BY <1>10, <1>11, <1>12, <1>14, SeqEqual
<1> QED BY <1>1, <1>3, <1>7, <1>8, <1>9, <1>12, <1>15

LEMMA PositiveBoth ==
  ASSUME NEW a, NEW b, Positive(a), Positive(b)
  PROVE  Positive(a \o b)
<1>1. a \in Seq(SizedParts) /\ b \in Seq(SizedParts)
  BY DEF Positive
<1>2a. PICK la \in Nat, lb \in Nat : la = Len(a) /\ lb = Len(b)
  BY <1>1
<1>2. PICK c : la = Len(a) /\ lb = Len(b) /\ c = a \o b
  BY <1>2a
<1>3. /\ c \in Seq(SizedParts) /\ Len(c) = la + lb
      /\ \A n \in 1 .. la + lb : c[n] = IF n <= la THEN a[n] ELSE b[n - la]
  BY <1>1, <1>2, ConcatProperties
<1>4. ASSUME NEW n \in 1 .. la + lb PROVE c[n].size > 0
  <2>1. CASE n <= la
    <3>1. n \in 1 .. la
      BY <2>1
    <3> QED BY <1>2, <1>3, <2>1, <3>1 DEF Positive
  <2>2. CASE ~(n <= la)
    <3>1. n - la \in 1 .. lb
      BY <2>2
    <3> QED BY <1>2, <1>3, <2>2, <3>1 DEF Positive
  <2> QED BY <2>1, <2>2
<1> QED BY <1>2, <1>3, <1>4 DEF Positive

\* The partitions that start on a border do.
Bordered == {"hos_data", "l4t", "boot", "vendor", "userdata", "emummc", "emummc2"}
Border(x) == x % AU_ALIGN = 0
OnBorders(s) == \A n \in 1 .. Len(s) : s[n].name \in Bordered => Border(s[n].start)

LEMMA BorderSum ==
  ASSUME NEW x \in Nat, NEW y \in Nat, Border(x), Border(y)
  PROVE  Border(x + y) /\ (y <= x => Border(x - y))
BY DEF Border, AU_ALIGN

LEMMA BorderTimes == ASSUME NEW k \in Nat PROVE Border(16 * k)
BY DEF Border, AU_ALIGN

LEMMA BothAre ==
  ASSUME NEW S, NEW s \in Seq(S), NEW t \in Seq(S)
  PROVE  /\ s \o t \in Seq(S)
         /\ \A n \in 1 .. Len(s \o t) :
              \/ \E i \in 1 .. Len(s) : (s \o t)[n] = s[i]
              \/ \E i \in 1 .. Len(t) : (s \o t)[n] = t[i]
         /\ ToSet(s \o t) = ToSet(s) \cup ToSet(t)
<1>1. PICK ls \in Nat, lt \in Nat : ls = Len(s) /\ lt = Len(t)
  OBVIOUS
<1>2. PICK u : u = s \o t
  OBVIOUS
<1>3. /\ u \in Seq(S) /\ Len(u) = ls + lt
      /\ \A n \in 1 .. ls + lt : u[n] = IF n <= ls THEN s[n] ELSE t[n - ls]
  BY <1>1, <1>2, ConcatProperties
<1>4. ASSUME NEW n \in 1 .. ls + lt
      PROVE  (\E i \in 1 .. ls : u[n] = s[i]) \/ \E i \in 1 .. lt : u[n] = t[i]
  <2>1. CASE n <= ls
    <3>1. n \in 1 .. ls /\ u[n] = s[n]
      BY <1>3, <2>1
    <3> QED BY <3>1
  <2>2. CASE ~(n <= ls)
    <3>1. n - ls \in 1 .. lt /\ u[n] = t[n - ls]
      BY <1>3, <2>2
    <3> QED BY <3>1
  <2> QED BY <2>1, <2>2
<1>5. ASSUME NEW i \in 1 .. ls PROVE \E n \in 1 .. ls + lt : s[i] = u[n]
  <2>1. i \in 1 .. ls + lt /\ i <= ls
    OBVIOUS
  <2> QED BY <1>3, <2>1
<1>6. ASSUME NEW i \in 1 .. lt PROVE \E n \in 1 .. ls + lt : t[i] = u[n]
  <2>1. PICK n \in 1 .. ls + lt : n = ls + i /\ ~(n <= ls) /\ n - ls = i
    <3>1. ls + i \in 1 .. ls + lt /\ ~(ls + i <= ls) /\ (ls + i) - ls = i
      OBVIOUS
    <3> QED BY <3>1
  <2> QED BY <1>3, <2>1
<1>7. DOMAIN s = 1 .. ls /\ DOMAIN t = 1 .. lt /\ DOMAIN u = 1 .. ls + lt
  BY <1>1, <1>3
<1>8. ToSet(u) = {u[i] : i \in 1 .. ls + lt} /\ ToSet(s) = {s[i] : i \in 1 .. ls}
      /\ ToSet(t) = {t[i] : i \in 1 .. lt}
  BY <1>7 DEF ToSet
<1>9. ToSet(u) = ToSet(s) \cup ToSet(t)
  BY <1>4, <1>5, <1>6, <1>8
<1> QED BY <1>1, <1>2, <1>3, <1>4, <1>9

LEMMA BordersBoth ==
  ASSUME NEW s \in Seq(TableParts), NEW t \in Seq(TableParts), OnBorders(s), OnBorders(t)
  PROVE  OnBorders(s \o t)
BY BothAre DEF OnBorders

LEMMA BordersNone == OnBorders(<<>>)
BY DEF OnBorders

LEMMA BordersOne ==
  ASSUME NEW name \in PartNames, NEW start \in Nat, NEW size \in Nat, name \in Bordered => Border(start)
  PROVE  OnBorders(<<Entry(name, start, size)>>) /\ <<Entry(name, start, size)>> \in Seq(TableParts)
<1>1. PICK e : e = Entry(name, start, size)
  OBVIOUS
<1>2. e \in TableParts /\ e.name = name /\ e.start = start
  BY <1>1 DEF Entry, TableParts
<1>3. <<e>> \in Seq(TableParts) /\ Len(<<e>>) = 1 /\ <<e>>[1] = e
  BY <1>2, SeqOne
<1>4. OnBorders(<<e>>)
  BY <1>2, <1>3 DEF OnBorders
<1> QED BY <1>1, <1>3, <1>4

LEMMA LaidWider ==
  ASSUME NEW a \in Nat, NEW b \in Nat, NEW c \in Nat, b <= c, NEW s, Laid(s, a, b)
  PROVE  Laid(s, a, c)
<1>1. ASSUME NEW n \in 1 .. Len(s) PROVE s[n].start + s[n].size <= c
  <2>1. PICK x \in Nat, y \in Nat : x = s[n].start /\ y = s[n].size
    BY TableIs DEF Laid
  <2>2. x + y <= b
    BY <2>1 DEF Laid
  <2>3. x + y <= c
    BY <2>2
  <2> QED BY <2>1, <2>3
<1> QED BY <1>1 DEF Laid

\* An entry that is no partition may follow.
LEMMA InOrderThen ==
  ASSUME NEW s \in Seq(TableParts), NEW last \in Nat, InOrder(s, last),
         NEW e \in TableParts, ~Partition(e)
  PROVE  InOrder(s \o <<e>>, last)
<1>1. PICK ls \in Nat : ls = Len(s)
  OBVIOUS
<1>2. PICK t : t = <<e>>
  OBVIOUS
<1>3. t \in Seq(TableParts) /\ Len(t) = 1 /\ t[1] = e
  BY <1>2, SeqOne
<1>4. PICK u : u = s \o t
  OBVIOUS
<1>5. Len(u) = ls + 1 /\ \A n \in 1 .. ls + 1 : u[n] = IF n <= ls THEN s[n] ELSE t[n - ls]
  <2>1. PICK S : S = TableParts
    OBVIOUS
  <2>2. s \in Seq(S) /\ t \in Seq(S)
    BY <1>3, <2>1
  <2>3. /\ Len(u) = Len(s) + Len(t)
        /\ \A n \in 1 .. Len(s) + Len(t) : u[n] = IF n <= Len(s) THEN s[n] ELSE t[n - Len(s)]
    BY <1>4, <2>2, ConcatProperties
  <2> QED BY <1>1, <1>3, <2>3
<1>6. u[ls + 1] = e
  <2>1. ls + 1 \in 1 .. ls + 1 /\ ~(ls + 1 <= ls) /\ (ls + 1) - ls = 1
    OBVIOUS
  <2> QED BY <1>3, <1>5, <2>1
<1>7. \A n \in 1 .. ls + 1 : Partition(u[n]) => n \in 1 .. ls /\ u[n] = s[n]
  <2> SUFFICES ASSUME NEW n \in 1 .. ls + 1, Partition(u[n]) PROVE n \in 1 .. ls /\ u[n] = s[n]
    OBVIOUS
  <2>1. n # ls + 1
    BY <1>6
  <2>2. n \in 1 .. ls /\ n <= ls
    BY <2>1
  <2> QED BY <1>5, <2>2
<1>8. InOrder(u, last)
  BY <1>1, <1>5, <1>7 DEF InOrder
<1> QED BY <1>2, <1>4, <1>8

----------------------------------------------------------------------------
(* PartLayout: the lists of the tables.                                    *)

LEMMA SeqSix ==
  ASSUME NEW S, NEW a \in S, NEW b \in S, NEW c \in S, NEW d \in S, NEW e \in S, NEW f \in S,
         NEW s, s = <<a, b, c, d, e, f>>
  PROVE  /\ s \in Seq(S) /\ Len(s) = 6
         /\ s[1] = a /\ s[2] = b /\ s[3] = c /\ s[4] = d /\ s[5] = e /\ s[6] = f
OBVIOUS

LEMMA SeqEight ==
  ASSUME NEW S, NEW a \in S, NEW b \in S, NEW c \in S, NEW d \in S, NEW e \in S, NEW f \in S,
         NEW g \in S, NEW h \in S, NEW s, s = <<a, b, c, d, e, f, g, h>>
  PROVE  /\ s \in Seq(S) /\ Len(s) = 8
         /\ s[1] = a /\ s[2] = b /\ s[3] = c /\ s[4] = d /\ s[5] = e /\ s[6] = f
         /\ s[7] = g /\ s[8] = h
OBVIOUS

LEMMA SystemOf ==
  ASSUME NEW list,
         list = <<Sized("boot", 64), Sized("recovery", 64), Sized("dtb", 1), Sized("misc", 3),
         Sized("cache", 60), Sized("super", 5952)>>
  PROVE  /\ list \in Seq(SizedParts) /\ Len(list) = 6
         /\ list[1].size = 64 /\ list[2].size = 64 /\ list[3].size = 1
         /\ list[4].size = 3 /\ list[5].size = 60 /\ list[6].size = 5952
         /\ \A n \in 2 .. 6 : list[n].name \notin Bordered
<1>1. PICK a, b, c, d, e, f :
        /\ a = [name |-> "boot", size |-> 64]
        /\ b = [name |-> "recovery", size |-> 64]
        /\ c = [name |-> "dtb", size |-> 1]
        /\ d = [name |-> "misc", size |-> 3]
        /\ e = [name |-> "cache", size |-> 60]
        /\ f = [name |-> "super", size |-> 5952]
        /\ list = <<a, b, c, d, e, f>>
  BY DEF Sized
<1>2. /\ a \in SizedParts /\ b \in SizedParts /\ c \in SizedParts
      /\ d \in SizedParts /\ e \in SizedParts /\ f \in SizedParts
  BY <1>1 DEF SizedParts, PartNames
<1>3. /\ a.size = 64 /\ b.size = 64 /\ c.size = 1 /\ d.size = 3 /\ e.size = 60 /\ f.size = 5952
      /\ b.name \notin Bordered /\ c.name \notin Bordered
      /\ d.name \notin Bordered /\ e.name \notin Bordered /\ f.name \notin Bordered
  BY <1>1 DEF Bordered
<1>4. /\ list \in Seq(SizedParts) /\ Len(list) = 6
      /\ list[1] = a /\ list[2] = b /\ list[3] = c /\ list[4] = d /\ list[5] = e /\ list[6] = f
  BY <1>1, <1>2, SeqSix
<1>5. \A n \in 2 .. 6 : n = 2 \/ n = 3 \/ n = 4 \/ n = 5 \/ n = 6
  OBVIOUS
<1>6. \A n \in 2 .. 6 : list[n].name \notin Bordered
  BY <1>3, <1>4, <1>5
<1> QED BY <1>3, <1>4, <1>6

LEMMA OldSystemOf ==
  ASSUME NEW list,
         list = <<Sized("vendor", 1024), Sized("APP", 3072), Sized("LNX", 32), Sized("SOS", 64),
         Sized("DTB", 1), Sized("MDA", 16), Sized("CAC", 700), Sized("MSC", 3)>>
  PROVE  /\ list \in Seq(SizedParts) /\ Len(list) = 8
         /\ list[1].size = 1024 /\ list[2].size = 3072 /\ list[3].size = 32 /\ list[4].size = 64
         /\ list[5].size = 1 /\ list[6].size = 16 /\ list[7].size = 700 /\ list[8].size = 3
         /\ \A n \in 2 .. 8 : list[n].name \notin Bordered
<1>0. PICK a, b, c, d :
        /\ a = [name |-> "vendor", size |-> 1024]
        /\ b = [name |-> "APP", size |-> 3072]
        /\ c = [name |-> "LNX", size |-> 32]
        /\ d = [name |-> "SOS", size |-> 64]
  BY DEF Sized
<1>1a. PICK e, f, g, h :
        /\ e = [name |-> "DTB", size |-> 1]
        /\ f = [name |-> "MDA", size |-> 16]
        /\ g = [name |-> "CAC", size |-> 700]
        /\ h = [name |-> "MSC", size |-> 3]
  BY DEF Sized
<1>1. list = <<a, b, c, d, e, f, g, h>>
  BY <1>0, <1>1a DEF Sized
<1>2. /\ a \in SizedParts /\ b \in SizedParts /\ c \in SizedParts /\ d \in SizedParts
      /\ e \in SizedParts /\ f \in SizedParts /\ g \in SizedParts /\ h \in SizedParts
  BY <1>0, <1>1a DEF SizedParts, PartNames
<1>3. /\ a.size = 1024 /\ b.size = 3072 /\ c.size = 32 /\ d.size = 64 /\ e.size = 1 /\ f.size = 16 /\ g.size = 700 /\ h.size = 3
      /\ b.name \notin Bordered /\ c.name \notin Bordered /\ d.name \notin Bordered
      /\ e.name \notin Bordered /\ f.name \notin Bordered /\ g.name \notin Bordered /\ h.name \notin Bordered
  BY <1>0, <1>1a DEF Bordered
<1>4. /\ list \in Seq(SizedParts) /\ Len(list) = 8
      /\ list[1] = a /\ list[2] = b /\ list[3] = c /\ list[4] = d /\ list[5] = e /\ list[6] = f /\ list[7] = g /\ list[8] = h
  BY <1>1, <1>2, SeqEight
<1>5. \A n \in 2 .. 8 : n = 2 \/ n = 3 \/ n = 4 \/ n = 5 \/ n = 6 \/ n = 7 \/ n = 8
  OBVIOUS
<1>6. \A n \in 2 .. 8 : list[n].name \notin Bordered
  BY <1>3, <1>4, <1>5
<1> QED BY <1>3, <1>4, <1>6

\* A list whose first partition only is to start on a border.
LEMMA FirstOnBorder ==
  ASSUME NEW start \in Nat, Border(start), NEW list \in Seq(SizedParts),
         \A n \in 2 .. Len(list) : list[n].name \notin Bordered
  PROVE  OnBorders(Chain(start, list))
<1>1a. PICK len \in Nat : len = Len(list)
  OBVIOUS
<1>1. PICK c, g : len = Len(list) /\ c = Chain(start, list) /\ g = SizeOf(list)
  BY <1>1a
<1>2. Len(c) = len /\ g[0] = 0
      /\ \A n \in 1 .. len : c[n] = Entry(list[n].name, start + g[n - 1], list[n].size)
  BY <1>1, ChainEntries, SizeOfOK
<1>3. ASSUME NEW n \in 1 .. len, c[n].name \in Bordered PROVE Border(c[n].start)
  <2>1. c[n].name = list[n].name /\ c[n].start = start + g[n - 1]
    <3>1. c[n] = Entry(list[n].name, start + g[n - 1], list[n].size)
      BY <1>2, Zenon
    <3> QED BY <3>1 DEF Entry
  <2>2. n = 1
    <3>1. n \notin 2 .. len
      BY <1>1, <1>3, <2>1
    <3> QED BY <3>1
  <2>3. c[n].start = start + 0
    BY <1>2, <2>1, <2>2
  <2> QED BY <2>3
<1>4. OnBorders(c)
  BY <1>2, <1>3 DEF OnBorders
<1> QED BY <1>1, <1>4

AndroidBefore(dynamic) == IF dynamic THEN 6144 ELSE 4912

LEMMA SystemOK ==
  ASSUME NEW dynamic
  PROVE  /\ Positive(AndroidSystem(dynamic)) /\ Sum(AndroidSystem(dynamic)) = AndroidBefore(dynamic)
         /\ \A n \in 2 .. Len(AndroidSystem(dynamic)) : AndroidSystem(dynamic)[n].name \notin Bordered
<1>1. CASE dynamic
  <2>0. AndroidSystem(dynamic) =
            <<Sized("boot", 64), Sized("recovery", 64), Sized("dtb", 1), Sized("misc", 3),
              Sized("cache", 60), Sized("super", 5952)>>
    BY <1>1 DEF AndroidSystem
  <2>1. PICK list : list = AndroidSystem(dynamic)
    OBVIOUS
  <2>2. /\ list \in Seq(SizedParts) /\ Len(list) = 6
        /\ list[1].size = 64 /\ list[2].size = 64 /\ list[3].size = 1
        /\ list[4].size = 3 /\ list[5].size = 60 /\ list[6].size = 5952
        /\ \A n \in 2 .. 6 : list[n].name \notin Bordered
    BY <2>0, <2>1, SystemOf
  <2>3. PICK g : g = SizeOf(list)
    OBVIOUS
  <2>4. g[0] = 0 /\ \A n \in 1 .. 6 : g[n] = g[n - 1] + list[n].size
    <3>1. /\ SizeOf(list)[0] = 0
          /\ \A n \in 1 .. Len(list) : SizeOf(list)[n] = SizeOf(list)[n - 1] + list[n].size
      <4>1. list \in Seq(SizedParts)
        BY <2>2
      <4> QED BY <4>1, SizeOfOK
    <3> QED BY <2>2, <2>3, <3>1
  <2>5. 1 \in 1 .. 6 /\ 2 \in 1 .. 6 /\ 3 \in 1 .. 6 /\ 4 \in 1 .. 6 /\ 5 \in 1 .. 6 /\ 6 \in 1 .. 6
    OBVIOUS
  <2>6. g[6] = 6144
    <3>1. g[1] = 64
      BY <2>2, <2>4, <2>5
    <3>2. g[2] = 128
      BY <2>2, <2>4, <2>5, <3>1
    <3>3. g[3] = 129
      BY <2>2, <2>4, <2>5, <3>2
    <3>4. g[4] = 132
      BY <2>2, <2>4, <2>5, <3>3
    <3>5. g[5] = 192
      BY <2>2, <2>4, <2>5, <3>4
    <3>6. g[6] = 6144
      BY <2>2, <2>4, <2>5, <3>5
    <3> QED BY <3>6
  <2>7. Sum(list) = 6144
    BY <2>2, <2>3, <2>6 DEF Sum
  <2>8. Positive(list)
    <3>1. \A n \in 1 .. 6 : n = 1 \/ n = 2 \/ n = 3 \/ n = 4 \/ n = 5 \/ n = 6
      OBVIOUS
    <3>2. \A n \in 1 .. 6 : list[n].size > 0
      BY <2>2, <3>1
    <3> QED BY <2>2, <3>2 DEF Positive
  <2>9. AndroidBefore(dynamic) = 6144
    BY <1>1 DEF AndroidBefore
  <2>10. \A n \in 2 .. Len(list) : list[n].name \notin Bordered
    BY <2>2
  <2> QED BY <2>1, <2>7, <2>8, <2>9, <2>10
<1>2. CASE ~dynamic
  <2>0. AndroidSystem(dynamic) =
            <<Sized("vendor", 1024), Sized("APP", 3072), Sized("LNX", 32), Sized("SOS", 64),
              Sized("DTB", 1), Sized("MDA", 16), Sized("CAC", 700), Sized("MSC", 3)>>
    BY <1>2 DEF AndroidSystem
  <2>1. PICK list : list = AndroidSystem(dynamic)
    OBVIOUS
  <2>2. /\ list \in Seq(SizedParts) /\ Len(list) = 8
        /\ list[1].size = 1024 /\ list[2].size = 3072 /\ list[3].size = 32 /\ list[4].size = 64
        /\ list[5].size = 1 /\ list[6].size = 16 /\ list[7].size = 700 /\ list[8].size = 3
        /\ \A n \in 2 .. 8 : list[n].name \notin Bordered
    BY <2>0, <2>1, OldSystemOf
  <2>3. PICK g : g = SizeOf(list)
    OBVIOUS
  <2>4. g[0] = 0 /\ \A n \in 1 .. 8 : g[n] = g[n - 1] + list[n].size
    <3>1. /\ SizeOf(list)[0] = 0
          /\ \A n \in 1 .. Len(list) : SizeOf(list)[n] = SizeOf(list)[n - 1] + list[n].size
      <4>1. list \in Seq(SizedParts)
        BY <2>2
      <4> QED BY <4>1, SizeOfOK
    <3> QED BY <2>2, <2>3, <3>1
  <2>5. 1 \in 1 .. 8 /\ 2 \in 1 .. 8 /\ 3 \in 1 .. 8 /\ 4 \in 1 .. 8 /\ 5 \in 1 .. 8 /\ 6 \in 1 .. 8 /\ 7 \in 1 .. 8 /\ 8 \in 1 .. 8
    OBVIOUS
  <2>6. g[8] = 4912
    <3>1. g[1] = 1024
      BY <2>2, <2>4, <2>5
    <3>2. g[2] = 4096
      BY <2>2, <2>4, <2>5, <3>1
    <3>3. g[3] = 4128
      BY <2>2, <2>4, <2>5, <3>2
    <3>4. g[4] = 4192
      BY <2>2, <2>4, <2>5, <3>3
    <3>5. g[5] = 4193
      BY <2>2, <2>4, <2>5, <3>4
    <3>6. g[6] = 4209
      BY <2>2, <2>4, <2>5, <3>5
    <3>7. g[7] = 4909
      BY <2>2, <2>4, <2>5, <3>6
    <3>8. g[8] = 4912
      BY <2>2, <2>4, <2>5, <3>7
    <3> QED BY <3>8
  <2>7. Sum(list) = 4912
    BY <2>2, <2>3, <2>6 DEF Sum
  <2>8. Positive(list)
    <3>1. \A n \in 1 .. 8 : n = 1 \/ n = 2 \/ n = 3 \/ n = 4 \/ n = 5 \/ n = 6 \/ n = 7 \/ n = 8
      OBVIOUS
    <3>2. \A n \in 1 .. 8 : list[n].size > 0
      BY <2>2, <3>1
    <3> QED BY <2>2, <3>2 DEF Positive
  <2>9. AndroidBefore(dynamic) = 4912
    BY <1>2 DEF AndroidBefore
  <2>10. \A n \in 2 .. Len(list) : list[n].name \notin Bordered
    BY <2>2
  <2> QED BY <2>1, <2>7, <2>8, <2>9, <2>10
<1> QED BY <1>1, <1>2

\* What the proofs need to know of a list that is put at a border.
Fits16(list, sum) ==
    /\ Positive(list) /\ Sum(list) = sum
    /\ \A start \in Nat : Border(start) => OnBorders(Chain(start, list))

LEMMA FitsNone == Fits16(<<>>, 0)
BY ChainNone, BordersNone DEF Fits16

LEMMA FitsOne ==
  ASSUME NEW name \in PartNames, NEW size \in Nat \ {0}
  PROVE  Fits16(<<Sized(name, size)>>, size)
<1>1. Positive(<<Sized(name, size)>>) /\ Sum(<<Sized(name, size)>>) = size
  <2>1. 0 \in Nat
    OBVIOUS
  <2> QED BY <2>1, ChainOne
<1>2. ASSUME NEW start \in Nat, Border(start) PROVE OnBorders(Chain(start, <<Sized(name, size)>>))
  <2>1. Chain(start, <<Sized(name, size)>>) = <<Entry(name, start, size)>>
    BY ChainOne
  <2>2. OnBorders(<<Entry(name, start, size)>>)
    BY <1>2, BordersOne
  <2> QED BY <2>1, <2>2
<1> QED BY <1>1, <1>2 DEF Fits16

LEMMA FitsBoth ==
  ASSUME NEW a, NEW b, NEW m \in Nat, NEW n \in Nat, Fits16(a, m), Fits16(b, n), Border(m)
  PROVE  Fits16(a \o b, m + n)
<1>1. a \in Seq(SizedParts) /\ b \in Seq(SizedParts) /\ Sum(a) = m /\ Sum(b) = n
  BY DEF Fits16, Positive
<1>2. Positive(a \o b)
  BY PositiveBoth DEF Fits16
<1>3. Sum(a \o b) = m + n
  BY <1>1, SizeOfBoth
<1>4. ASSUME NEW start \in Nat, Border(start) PROVE OnBorders(Chain(start, a \o b))
  <2>1. Chain(start, a \o b) = Chain(start, a) \o Chain(start + m, b)
    <3>1. PICK c : c = a \o b
      OBVIOUS
    <3>2. Chain(start, c) = Chain(start, a) \o Chain(start + m, b)
      <4>1. Joined(a, b, c, m)
        BY <1>1, <3>1 DEF Joined
      <4>2. PICK end : end = start + m
        OBVIOUS
      <4>3. ChainJoined(start, a, end, b, c)
        BY <4>1, <4>2, ChainBoth
      <4> QED BY <4>2, <4>3 DEF ChainJoined
    <3> QED BY <3>1, <3>2
  <2>2. start + m \in Nat /\ Border(start + m)
    BY <1>4, BorderSum
  <2>3. OnBorders(Chain(start, a)) /\ OnBorders(Chain(start + m, b))
    BY <1>4, <2>2 DEF Fits16
  <2>4. Chain(start, a) \in Seq(TableParts) /\ Chain(start + m, b) \in Seq(TableParts)
    BY <1>1, <2>2, ChainEntries
  <2> QED BY <2>1, <2>3, <2>4, BordersBoth
<1> QED BY <1>2, <1>3, <1>4 DEF Fits16

\* Android takes its size, but for what is reserved.
LEMMA AndroidFits16 ==
  ASSUME NEW dynamic, NEW size \in Nat, size >= 8192, NEW reserve \in 0 .. 1
  PROVE  Fits16(Android(dynamic, size, reserve), size - reserve)
<1>1. PICK m \in Nat : m = AndroidBefore(dynamic) /\ m <= 6144 /\ Border(m)
  BY DEF AndroidBefore, Border, AU_ALIGN
<1>2. PICK n \in Nat \ {0} : n = (size - m) - reserve /\ m + n = size - reserve
  BY <1>1
<1>3. PICK name \in PartNames : name = "userdata"
  BY DEF PartNames
<1>4. PICK sys : sys = AndroidSystem(dynamic)
  OBVIOUS
<1> DEFINE uda == <<Sized(name, n)>>
<1>5. Android(dynamic, size, reserve) = sys \o uda
  <2>1. Android(dynamic, size, reserve) =
          AndroidSystem(dynamic) \o <<Sized(name, (size - AndroidBefore(dynamic)) - reserve)>>
    BY <1>3 DEF Android, AndroidBefore
  <2> QED BY <1>1, <1>2, <1>4, <2>1
<1>6. Fits16(sys, m)
  <2>1. /\ Positive(sys) /\ Sum(sys) = m
        /\ \A k \in 2 .. Len(sys) : sys[k].name \notin Bordered
    BY <1>1, <1>4, SystemOK
  <2>2. sys \in Seq(SizedParts)
    BY <2>1 DEF Positive
  <2> QED BY <2>1, <2>2, FirstOnBorder DEF Fits16
<1>7. Fits16(uda, n)
  BY FitsOne
<1> HIDE DEF uda
<1>8. Fits16(sys \o uda, m + n)
  BY <1>1, <1>6, <1>7, FitsBoth
<1> QED BY <1>2, <1>5, <1>8

LEMMA SeqTwo == ASSUME NEW x, NEW y PROVE <<x>> \o <<y>> = <<x, y>>
<1>1. PICK S : S = {x, y}
  OBVIOUS
<1>2. PICK a, b, c : a = <<x>> /\ b = <<y>> /\ c = <<x, y>>
  OBVIOUS
<1>3. /\ a \in Seq(S) /\ Len(a) = 1 /\ a[1] = x
      /\ b \in Seq(S) /\ Len(b) = 1 /\ b[1] = y
  <2>1. x \in S /\ y \in S
    BY <1>1
  <2> QED BY <1>2, <2>1, SeqOne
<1>4. c \in Seq(S) /\ Len(c) = 2 /\ c[1] = x /\ c[2] = y
  BY <1>1, <1>2
<1>5. PICK d : d = a \o b
  OBVIOUS
<1>6. d \in Seq(S) /\ Len(d) = 2 /\ d[1] = x /\ d[2] = y
  <2>1. /\ d \in Seq(S) /\ Len(d) = Len(a) + Len(b)
        /\ \A i \in 1 .. Len(a) + Len(b) : d[i] = IF i <= Len(a) THEN a[i] ELSE b[i - Len(a)]
    BY <1>3, <1>5, ConcatProperties
  <2>2. Len(d) = 2 /\ 1 \in 1 .. Len(a) + Len(b) /\ 2 \in 1 .. Len(a) + Len(b)
        /\ 1 <= Len(a) /\ ~(2 <= Len(a)) /\ 2 - Len(a) = 1
    BY <1>3, <2>1
  <2> QED BY <1>3, <2>1, <2>2
<1>7. \A n \in 1 .. 2 : n = 1 \/ n = 2
  OBVIOUS
<1>8. c = d
  <2>1. Len(c) = Len(d) /\ \A n \in 1 .. Len(c) : c[n] = d[n]
    BY <1>4, <1>6, <1>7
  <2> QED BY <1>4, <1>6, <2>1, SeqEqual
<1> QED BY <1>2, <1>5, <1>8

\* Two emuMMCs of equal size are multiples of a border.
EmuOK(double, size) ==
    /\ size > 1
    /\ double => \E k \in Nat \ {0} : size = 32 * k

LEMMA EmusFit ==
  ASSUME NEW double \in BOOLEAN, NEW size \in Nat, EmuOK(double, size)
  PROVE  Fits16(Emus(double, size), size - 1)
<1>1. CASE double
  <2>1. PICK k \in Nat \ {0} : size = 32 * k
    BY <1>1 DEF EmuOK
  <2>2. PICK h \in Nat \ {0}, r \in Nat \ {0} : h = 16 * k /\ r = 16 * k - 1 /\ h + r = size - 1
                                             /\ size \div 2 = h /\ size \div 2 - 1 = r
    BY <2>1
  <2>3. Border(h)
    BY <2>2, BorderTimes
  <2>4. PICK p \in PartNames, q \in PartNames : p = "emummc" /\ q = "emummc2"
    BY DEF PartNames
  <2>5. PICK x, y, a, b : x = Sized(p, h) /\ y = Sized(q, r) /\ a = <<x>> /\ b = <<y>>
    OBVIOUS
  <2>5a. Emus(double, size) = a \o b
    <3>1. Emus(double, size) = <<x, y>>
      BY <1>1, <2>2, <2>4, <2>5 DEF Emus, Sized
    <3>2. <<x>> \o <<y>> = <<x, y>>
      BY SeqTwo
    <3> QED BY <2>5, <3>1, <3>2
  <2>6. Fits16(a, h) /\ Fits16(b, r)
    BY <2>5, FitsOne
  <2>7. Fits16(a \o b, h + r)
    BY <2>3, <2>6, FitsBoth
  <2> QED BY <2>2, <2>5a, <2>7
<1>2. CASE ~double
  <2>1. PICK p \in PartNames : p = "emummc"
    BY DEF PartNames
  <2>2. Emus(double, size) = <<Sized(p, size - 1)>>
    BY <1>2, <2>1 DEF Emus, Sized
  <2>3. size - 1 \in Nat \ {0}
    BY DEF EmuOK
  <2> QED BY <2>2, <2>3, FitsOne
<1> QED BY <1>1, <1>2

\* Partitions that follow each other between a and b, on borders where they should.
Good(s, a, b) == Laid(s, a, b) /\ OnBorders(s)

LEMMA GoodIs == ASSUME NEW s, NEW a, NEW b, Good(s, a, b) PROVE s \in Seq(TableParts)
BY DEF Good, Laid

LEMMA GoodNone == ASSUME NEW a, NEW b PROVE Good(<<>>, a, b)
BY LaidNone, BordersNone DEF Good

LEMMA GoodOne ==
  ASSUME NEW name \in PartNames, NEW start \in Nat, Border(start), NEW size \in Nat \ {0}
  PROVE  Good(<<Entry(name, start, size)>>, start, start + size)
<1>1. Laid(<<Entry(name, start, size)>>, start, start + size)
  BY LaidOne
<1>2. OnBorders(<<Entry(name, start, size)>>)
  BY BordersOne
<1> QED BY <1>1, <1>2 DEF Good

LEMMA GoodBoth ==
  ASSUME NEW a \in Nat, NEW b \in Nat, NEW c \in Nat, a <= b, b <= c,
         NEW s, NEW t, Good(s, a, b), Good(t, b, c)
  PROVE  Good(s \o t, a, c)
<1>1. Laid(s \o t, a, c)
  BY LaidBoth DEF Good
<1>2. OnBorders(s \o t)
  BY GoodIs, BordersBoth DEF Good
<1> QED BY <1>1, <1>2 DEF Good

LEMMA GoodWider ==
  ASSUME NEW a \in Nat, NEW b \in Nat, NEW c \in Nat, b <= c, NEW s, Good(s, a, b)
  PROVE  Good(s, a, c)
BY LaidWider DEF Good

LEMMA GoodChain ==
  ASSUME NEW start \in Nat, Border(start), NEW list, NEW sum \in Nat, Fits16(list, sum)
  PROVE  Good(Chain(start, list), start, start + sum)
<1>1. Laid(Chain(start, list), start, start + sum)
  BY ChainLaid DEF Fits16
<1>2. OnBorders(Chain(start, list))
  BY DEF Fits16
<1> QED BY <1>1, <1>2 DEF Good

\* Sizes the sliders can set.
L4tOK(size) == size \in Nat /\ Border(size) /\ (size = 0 \/ size >= 8192)
EmusOK(double, size) == size \in Nat /\ Border(size) /\ (size = 0 \/ EmuOK(double, size))

\* The length of the emuMMCs.
EmuLen(size) == IF size = 0 THEN 0 ELSE size - 1

LEMMA EmuListFits ==
  ASSUME NEW double, NEW size, EmusOK(double, size), NEW list,
         list = Optional(size > 0, Emus(double, size)), double \in BOOLEAN
  PROVE  Fits16(list, EmuLen(size)) /\ EmuLen(size) \in Nat
<1>1. size \in Nat /\ (size = 0 \/ EmuOK(double, size))
  BY DEF EmusOK
<1>2. CASE size = 0
  <2>1. list = <<>> /\ EmuLen(size) = 0
    BY <1>1, <1>2 DEF Optional, EmuLen
  <2> QED BY <2>1, FitsNone
<1>3. CASE size # 0
  <2>1. size > 0 /\ EmuLen(size) = size - 1 /\ size - 1 \in Nat
    BY <1>1, <1>3 DEF EmuLen
  <2>2. list = Emus(double, size)
    BY <2>1 DEF Optional
  <2>3. EmuOK(double, size)
    BY <1>1, <1>3
  <2> QED BY <1>1, <2>1, <2>2, <2>3, EmusFit
<1> QED BY <1>2, <1>3

LEMMA EmuPiece ==
  ASSUME NEW double \in BOOLEAN, NEW size, EmusOK(double, size), NEW start \in Nat, Border(start), NEW s,
         s = Optional(size > 0, Chain(start, Emus(double, size)))
  PROVE  Good(s, start, start + EmuLen(size)) /\ EmuLen(size) \in Nat
<1>1. PICK list : list = Optional(size > 0, Emus(double, size))
  OBVIOUS
<1>2. Fits16(list, EmuLen(size)) /\ EmuLen(size) \in Nat
  BY <1>1, EmuListFits
<1>3. PICK k \in Nat : k = EmuLen(size)
  BY <1>2
<1>4. Good(Chain(start, list), start, start + k)
  BY <1>2, <1>3, GoodChain
<1>5. s = Chain(start, list)
  <2>1. Chain(start, <<>>) = <<>>
    BY ChainNone
  <2> QED BY <1>1, <2>1 DEF Optional
<1> QED BY <1>3, <1>4, <1>5

LEMMA L4tListFits ==
  ASSUME NEW size, L4tOK(size), NEW name \in PartNames, NEW list,
         list = Optional(size > 0, <<Sized(name, size)>>)
  PROVE  Fits16(list, size)
<1>1. size \in Nat
  BY DEF L4tOK
<1>2. CASE size = 0
  <2>1. list = <<>>
    BY <1>1, <1>2 DEF Optional
  <2> QED BY <1>2, <2>1, FitsNone
<1>3. CASE size # 0
  <2>1. size > 0
    BY <1>1, <1>3
  <2>2. list = <<Sized(name, size)>>
    BY <2>1 DEF Optional
  <2> QED BY <1>1, <1>3, <2>2, FitsOne
<1> QED BY <1>2, <1>3

\* Linux, Android and the emuMMCs of a GPT.
LEMMA GptChain ==
  ASSUME NEW start \in Nat, Border(start), NEW l4t, L4tOK(l4t), NEW name \in PartNames,
         NEW and, L4tOK(and), and > 0, NEW double \in BOOLEAN, NEW emu, EmusOK(double, emu), NEW dynamic,
         NEW reserve, reserve = IF emu = 0 THEN 1 ELSE 0,
         NEW l, l = Optional(l4t > 0, <<Sized(name, l4t)>>),
         NEW a, a = Android(dynamic, and, reserve),
         NEW e, e = Optional(emu > 0, Emus(double, emu)),
         NEW c, c = Chain(start, (l \o a) \o e)
  PROVE  /\ Good(c, start, start + ((l4t + and + emu) - 1))
         /\ emu > 0 => ToSet(Chain(start + (l4t + and), Emus(double, emu))) \subseteq ToSet(c)
<1>1. /\ l4t \in Nat /\ and \in Nat /\ emu \in Nat /\ and >= 8192
      /\ Border(l4t) /\ Border(and)
  BY DEF L4tOK, EmusOK
<1>2. Fits16(l, l4t)
  BY L4tListFits
<1>3. reserve \in 0 .. 1 /\ and - reserve \in Nat
  BY <1>1
<1>4. Fits16(a, and - reserve)
  BY <1>1, <1>3, AndroidFits16
<1>5. Fits16(e, EmuLen(emu)) /\ EmuLen(emu) \in Nat
  BY EmuListFits
<1>6. Fits16(l \o a, l4t + (and - reserve))
  BY <1>1, <1>2, <1>3, <1>4, FitsBoth
<1>7. CASE emu = 0
  <2>1. e = <<>>
    BY <1>7 DEF Optional
  <2>2. l \o a \in Seq(SizedParts)
    BY <1>6 DEF Fits16, Positive
  <2>3. (l \o a) \o e = l \o a
    BY <2>1, <2>2, ConcatEmptySeq
  <2>4. PICK k \in Nat : k = l4t + (and - reserve) /\ k = (l4t + and + emu) - 1
    BY <1>1, <1>7
  <2>5. Good(Chain(start, l \o a), start, start + k)
    BY <1>6, <2>4, GoodChain
  <2>6. c = Chain(start, l \o a)
    BY <2>3
  <2>7. ~(emu > 0)
    BY <1>7
  <2> QED BY <2>4, <2>5, <2>6, <2>7
<1>8. CASE emu # 0
  <2>1. reserve = 0 /\ emu > 0 /\ EmuLen(emu) = emu - 1
    BY <1>1, <1>8 DEF EmuLen
  <2>2. PICK m \in Nat, n \in Nat : /\ m = l4t + and /\ m = l4t + (and - reserve)
                                   /\ n = EmuLen(emu) /\ m + n = (l4t + and + emu) - 1
    BY <1>1, <2>1
  <2>3. Border(m)
    BY <1>1, <2>2, BorderSum
  <2>4. Fits16(l \o a, m) /\ Fits16(e, n)
    BY <1>5, <1>6, <2>2
  <2>5. Fits16((l \o a) \o e, m + n)
    BY <2>3, <2>4, FitsBoth
  <2>6. Good(c, start, start + (m + n))
    <3>1. m + n \in Nat
      OBVIOUS
    <3> QED BY <2>5, <3>1, GoodChain
  <2>7. l \o a \in Seq(SizedParts) /\ e \in Seq(SizedParts) /\ Sum(l \o a) = m
    BY <2>4 DEF Fits16, Positive
  <2>8. PICK la : la = l \o a
    OBVIOUS
  <2>9. c = Chain(start, la) \o Chain(start + m, e)
    <3>1. PICK all : all = la \o e
      OBVIOUS
    <3>2. c = Chain(start, all) /\ la \in Seq(SizedParts) /\ e \in Seq(SizedParts) /\ m = Sum(la)
      BY <2>7, <2>8, <3>1
    <3>3. Chain(start, all) = Chain(start, la) \o Chain(start + m, e)
      <4>1. Joined(la, e, all, m)
        BY <3>1, <3>2 DEF Joined
      <4>2. PICK end : end = start + m
        OBVIOUS
      <4>3. ChainJoined(start, la, end, e, all)
        BY <4>1, <4>2, ChainBoth
      <4> QED BY <4>2, <4>3 DEF ChainJoined
    <3> QED BY <3>2, <3>3
  <2>10. Chain(start, la) \in Seq(TableParts) /\ Chain(start + m, e) \in Seq(TableParts)
    <3>1. start + m \in Nat
      OBVIOUS
    <3> QED BY <2>7, <2>8, <3>1, ChainEntries
  <2>11. ToSet(c) = ToSet(Chain(start, la)) \cup ToSet(Chain(start + m, e))
    <3>1. PICK x, y : x = Chain(start, la) /\ y = Chain(start + m, e)
      OBVIOUS
    <3>2. x \in Seq(TableParts) /\ y \in Seq(TableParts)
      BY <2>10, <3>1
    <3>3. ToSet(x \o y) = ToSet(x) \cup ToSet(y)
      BY <3>2, BothAre
    <3> QED BY <2>9, <3>1, <3>3
  <2>12. e = Emus(double, emu)
    BY <2>1 DEF Optional
  <2> QED BY <2>2, <2>6, <2>11, <2>12
<1> QED BY <1>7, <1>8

----------------------------------------------------------------------------
(* PartLayout: the sizes of the sliders, and the tables they give.         *)

SliderSizes == [hos : Nat, emu : Nat, l4t : Nat, and : Nat, double : BOOLEAN, dynamic : BOOLEAN]

\* The sizes fill the device, are multiples of a border, and large enough for
\* what they hold; an eMMC has no emuMMC.
SlidersOK ==
    /\ dev \in Devices /\ info \in SliderSizes
    /\ info.hos + info.emu + info.l4t + info.and + AU_ALIGN = total
    /\ info.hos >= hos_min_size
    /\ L4tOK(info.l4t) /\ L4tOK(info.and) /\ EmusOK(info.double, info.emu)
    /\ dev.emmc => info.emu = 0

\* The tables of the sizes.
TablesOf == IF dev.emmc THEN [mbr |-> <<>>, gpt |-> EmmcGpt] ELSE [mbr |-> SdMbr, gpt |-> SdGpt]

\* The inductive invariant.
LayoutInv == SlidersOK /\ (tables = NoTables \/ tables = TablesOf)

LEMMA ModDown ==
  ASSUME NEW u \in Nat
  PROVE  u % 16 \in 0 .. 15 /\ (u - (u % 16)) % 16 = 0
<1>1. u % 16 \in 0 .. 15
  OBVIOUS
<1>2. PICK r \in 0 .. 15 : r = u % 16
  BY <1>1
<1>3. (u - r) % 16 = 0
  BY <1>2
<1> QED BY <1>1, <1>2, <1>3

LEMMA TotalOK ==
  ASSUME dev \in Devices
  PROVE  /\ dev.size \in Nat /\ total \in Nat /\ alignment \in 0 .. 15 /\ Border(total)
         /\ dev.emmc => total + alignment = dev.size - HOS_USER /\ total >= 12289
         /\ ~dev.emmc => total + alignment = dev.size /\ total >= 2065
<1>1. /\ dev.emmc \in BOOLEAN /\ dev.size \in Nat
      /\ dev.size >= IF dev.emmc THEN 14984 ELSE 2080
  BY LayoutSizes DEF HOS_USER, HOS_FAT_MIN_SIZE, AU_ALIGN
<1>2. PICK size \in Nat : size = dev.size
  BY <1>1
<1>3. PICK u \in Nat : u = Usable
  BY <1>1, <1>2 DEF Usable, HOS_USER
<1>4. /\ dev.emmc => u = size - 2680 /\ u >= 12304
      /\ ~dev.emmc => u = size /\ u >= 2080
  BY <1>1, <1>2, <1>3 DEF Usable, HOS_USER
<1>5. alignment = u % 16 /\ total = u - alignment
  <2>1. Usable % 16 = u % 16
    BY <1>3
  <2>2. alignment = Usable % 16
    BY DEF alignment, AU_ALIGN
  <2>3. total = Usable - alignment
    BY DEF total
  <2> QED BY <1>3, <2>1, <2>2, <2>3
<1>6. PICK r \in 0 .. 15, t \in Nat : r = u % 16 /\ t = u - r /\ Border(t)
  <2>1. PICK r \in 0 .. 15 : r = u % 16 /\ (u - r) % 16 = 0
    BY ModDown
  <2>2. u - r \in Nat
    BY <1>1, <1>4
  <2> QED BY <2>1, <2>2 DEF Border, AU_ALIGN
<1>7. alignment = r /\ total = t
  BY <1>5, <1>6
<1>8. dev.emmc => t + r = size - 2680 /\ t >= 12289
  BY <1>4, <1>6
<1>9. ~dev.emmc => t + r = size /\ t >= 2065
  BY <1>4, <1>6
<1> QED BY <1>2, <1>6, <1>7, <1>8, <1>9 DEF HOS_USER

LEMMA GoodThree ==
  ASSUME NEW a \in Nat, NEW b \in Nat, NEW c \in Nat, NEW d \in Nat, a <= b, b <= c, c <= d,
         NEW s, NEW t, NEW u, Good(s, a, b), Good(t, b, c), Good(u, c, d)
  PROVE  Good((s \o t) \o u, a, d)
<1>1. Good(s \o t, a, c)
  BY GoodBoth
<1>2. PICK v : v = s \o t
  OBVIOUS
<1>3. a <= c /\ Good(v, a, c)
  BY <1>1, <1>2
<1>4. Good(v \o u, a, d)
  BY <1>3, GoodBoth
<1> QED BY <1>2, <1>4

FatLaid(ff, size, hos, l4t, and, emu) ==
    /\ emu + l4t + and = 0 => Good(ff, 16, size)
    /\ emu + l4t + and # 0 => Good(ff, 16, 16 + hos)

PartsLaid(l4t, and, emu, f, es, a, b) ==
    /\ l4t = 0 \/ and # 0 => a = <<>>
    /\ l4t # 0 /\ and = 0 => Good(a, f, f + l4t)
    /\ emu = 0 => b = <<>>
    /\ emu # 0 => Good(b, es, es + (emu - 1))

\* The partitions of the MBR of an SD card: FAT, Linux when there is no Android,
\* the emuMMCs.
LEMMA MbrGood ==
  ASSUME NEW hos \in Nat, NEW l4t \in Nat, NEW and \in Nat, NEW emu \in Nat, NEW size \in Nat,
         hos >= 2048, hos + emu + l4t + and + 16 <= size, and # 0 => and >= 8192,
         NEW f \in Nat, f = 16 + hos, NEW es \in Nat, es = f + l4t + and,
         NEW ff, NEW a, NEW b, FatLaid(ff, size, hos, l4t, and, emu), PartsLaid(l4t, and, emu, f, es, a, b)
  PROVE  \E end \in Nat : end <= (IF and = 0 THEN size ELSE size - 1) /\ Good((ff \o a) \o b, 16, end)
<1>0. /\ emu + l4t + and = 0 => Good(ff, 16, size)
      /\ emu + l4t + and # 0 => Good(ff, 16, f)
      /\ l4t = 0 \/ and # 0 => a = <<>>
      /\ l4t # 0 /\ and = 0 => Good(a, f, f + l4t)
      /\ emu = 0 => b = <<>>
      /\ emu # 0 => Good(b, es, es + (emu - 1))
  BY DEF FatLaid, PartsLaid
<1>1. CASE emu + l4t + and = 0
  <2>1. emu = 0 /\ l4t = 0 /\ and = 0 /\ 16 <= size
    BY <1>1
  <2>2. Good(ff, 16, size) /\ Good(a, size, size) /\ Good(b, size, size)
    BY <1>0, <1>1, <2>1, GoodNone
  <2>3. Good((ff \o a) \o b, 16, size)
    BY <2>1, <2>2, GoodThree
  <2> QED BY <2>1, <2>3
<1>2. CASE emu + l4t + and # 0 /\ emu # 0
  <2>1. PICK end \in Nat : end = es + (emu - 1) /\ es <= end /\ end <= size - 1
    BY <1>2
  <2>2. Good(ff, 16, f) /\ Good(b, es, end)
    BY <1>0, <1>2, <2>1
  <2>3. Good(a, f, es)
    <3>1. CASE l4t = 0 \/ and # 0
      BY <1>0, <3>1, GoodNone
    <3>2. CASE l4t # 0 /\ and = 0
      <4>1. es = f + l4t
        BY <3>2
      <4> QED BY <1>0, <3>2, <4>1
    <3> QED BY <3>1, <3>2
  <2>4. 16 <= f /\ f <= es
    OBVIOUS
  <2>5. Good((ff \o a) \o b, 16, end)
    BY <2>1, <2>2, <2>3, <2>4, GoodThree
  <2>6. end <= IF and = 0 THEN size ELSE size - 1
    BY <2>1
  <2> QED BY <2>5, <2>6
<1>3. CASE emu + l4t + and # 0 /\ emu = 0 /\ and = 0
  <2>1. l4t # 0 /\ es = f + l4t /\ 16 <= f /\ f <= es /\ es <= size
    BY <1>3
  <2>2. Good(ff, 16, f) /\ Good(a, f, es) /\ Good(b, es, es)
    BY <1>0, <1>3, <2>1, GoodNone
  <2>3. Good((ff \o a) \o b, 16, es)
    BY <2>1, <2>2, GoodThree
  <2> QED BY <1>3, <2>1, <2>3
<1>4. CASE emu + l4t + and # 0 /\ emu = 0 /\ and # 0
  <2>1. 16 <= f /\ f <= size - 1
    BY <1>4
  <2>2. Good(ff, 16, f) /\ Good(a, f, f) /\ Good(b, f, f)
    BY <1>0, <1>4, GoodNone
  <2>3. Good((ff \o a) \o b, 16, f)
    BY <2>1, <2>2, GoodThree
  <2> QED BY <1>4, <2>1, <2>3
<1> QED BY <1>1, <1>2, <1>3, <1>4

LEMMA GoodEnds ==
  ASSUME NEW a \in Nat, NEW b \in Nat, NEW last \in Nat, b <= last, NEW s, Good(s, a, b)
  PROVE  InOrder(s, last) /\ OnBorders(s) /\ s \in Seq(TableParts)
BY LaidInOrder, GoodIs DEF Good

\* The entry for the GPT comes last.
LEMMA GoodThen ==
  ASSUME NEW a \in Nat, NEW b \in Nat, NEW last \in Nat, b <= last, NEW s, Good(s, a, b),
         NEW p \in TableParts, ~Partition(p)
  PROVE  InOrder(s \o <<p>>, last) /\ OnBorders(s \o <<p>>)
<1>1. InOrder(s, last) /\ OnBorders(s) /\ s \in Seq(TableParts)
  BY GoodEnds
<1>2. InOrder(s \o <<p>>, last)
  BY <1>1, InOrderThen
<1>3. <<p>> \in Seq(TableParts) /\ Len(<<p>>) = 1 /\ <<p>>[1] = p
  BY SeqOne
<1>4. OnBorders(<<p>>)
  BY <1>3 DEF OnBorders, Partition, Bordered
<1>5. OnBorders(s \o <<p>>)
  BY <1>1, <1>3, <1>4, BordersBoth
<1> QED BY <1>2, <1>5

LEMMA ToSetOne == ASSUME NEW x PROVE ToSet(<<x>>) = {x}
BY DEF ToSet

LEMMA ToSetNone == ToSet(<<>>) = {}
BY DEF ToSet

\* The partitions of an MBR beside a GPT.
LEMMA MbrSet ==
  ASSUME NEW x \in TableParts, NEW b \in Seq(TableParts), NEW p \in TableParts
  PROVE  ToSet(((<<x>> \o <<>>) \o b) \o <<p>>) = {x} \cup ToSet(b) \cup {p}
<1>1. PICK S : S = TableParts
  OBVIOUS
<1>2. PICK u, v : u = <<x>> /\ v = <<p>>
  OBVIOUS
<1>3. u \in Seq(S) /\ v \in Seq(S) /\ b \in Seq(S)
  BY <1>1, <1>2, SeqOne
<1>4. u \o <<>> = u
  BY <1>3, ConcatEmptySeq
<1>5. u \o b \in Seq(S) /\ ToSet(u \o b) = ToSet(u) \cup ToSet(b)
  BY <1>3, BothAre
<1>6. ToSet((u \o b) \o v) = ToSet(u \o b) \cup ToSet(v)
  <2>1. PICK w : w = u \o b
    OBVIOUS
  <2>2. w \in Seq(S)
    BY <1>5, <2>1
  <2>3. ToSet(w \o v) = ToSet(w) \cup ToSet(v)
    BY <1>3, <2>2, BothAre
  <2> QED BY <2>1, <2>3
<1>7. ToSet(u) = {x} /\ ToSet(v) = {p}
  BY <1>2, ToSetOne
<1>8. ToSet(((u \o <<>>) \o b) \o v) = {x} \cup ToSet(b) \cup {p}
  BY <1>4, <1>5, <1>6, <1>7
<1> QED BY <1>2, <1>8

\* The sizes of an SD card.
SdOK(size, hos, l4t, and, emu, double, align) ==
    /\ size \in Nat /\ hos \in Nat /\ align \in Nat /\ double \in BOOLEAN
    /\ hos + emu + l4t + and + 16 + align = size /\ hos >= 2048 /\ Border(hos)
    /\ L4tOK(l4t) /\ L4tOK(and) /\ EmusOK(double, emu)

\* The FAT partition takes what the others leave.
LEMMA FatIs ==
  ASSUME NEW size, NEW hos, NEW l4t, NEW and, NEW emu, NEW double, NEW align,
         SdOK(size, hos, l4t, and, emu, double, align), NEW extra, extra = emu + l4t + and,
         NEW fs, fs = size - (IF extra = 0 THEN 0 ELSE extra + align) - 16,
         NEW name \in PartNames, NEW ff, ff = <<Entry(name, 16, fs)>>
  PROVE  fs \in Nat \ {0} /\ FatLaid(ff, size, hos, l4t, and, emu)
<1>0. /\ size \in Nat /\ hos \in Nat /\ l4t \in Nat /\ and \in Nat /\ emu \in Nat /\ align \in Nat
      /\ hos + emu + l4t + and + 16 + align = size /\ hos >= 2048
  BY DEF SdOK, L4tOK, EmusOK
<1>1. fs \in Nat \ {0}
  <2>1. CASE extra = 0
    BY <1>0, <2>1
  <2>2. CASE extra # 0
    BY <1>0, <2>2
  <2> QED BY <2>1, <2>2
<1>2. Border(16)
  BY DEF Border, AU_ALIGN
<1>3. Good(ff, 16, 16 + fs)
  BY <1>1, <1>2, GoodOne
<1>4. extra = 0 => 16 + fs = size
  BY <1>0, <1>1
<1>5. extra # 0 => 16 + fs = 16 + hos
  BY <1>0
<1> QED BY <1>1, <1>3, <1>4, <1>5 DEF FatLaid

\* The parts of its MBR.
MbrParts(hos, l4t, and, emu, double, a, b) ==
    /\ a = IF l4t > 0 /\ and = 0 THEN <<Entry("l4t", 16 + hos, l4t)>> ELSE <<>>
    /\ b = IF emu > 0 THEN Chain(16 + hos + l4t + and, Emus(double, emu)) ELSE <<>>

LEMMA MbrPartsGood ==
  ASSUME NEW size, NEW hos, NEW l4t, NEW and, NEW emu, NEW double, NEW align,
         SdOK(size, hos, l4t, and, emu, double, align),
         NEW a, NEW b, MbrParts(hos, l4t, and, emu, double, a, b),
         NEW f \in Nat, f = 16 + hos, NEW es \in Nat, es = f + l4t + and
  PROVE  PartsLaid(l4t, and, emu, f, es, a, b)
<1>1. /\ hos \in Nat /\ l4t \in Nat /\ and \in Nat /\ emu \in Nat /\ double \in BOOLEAN
      /\ Border(hos) /\ Border(l4t) /\ Border(and)
  BY DEF SdOK, L4tOK, EmusOK
<1>2. Border(f) /\ Border(es)
  <2>1. Border(16)
    BY DEF Border, AU_ALIGN
  <2>2. Border(f)
    BY <1>1, <2>1, BorderSum
  <2>3. PICK fl \in Nat : fl = f + l4t /\ es = fl + and
    BY <1>1
  <2>4. Border(fl)
    BY <1>1, <2>2, <2>3, BorderSum
  <2>5. Border(es)
    BY <1>1, <2>3, <2>4, BorderSum
  <2> QED BY <2>2, <2>5
<1>3. l4t = 0 \/ and # 0 => a = <<>>
  BY <1>1 DEF MbrParts
<1>4. ASSUME l4t # 0 /\ and = 0 PROVE Good(a, f, f + l4t)
  <2>1. PICK name \in PartNames : name = "l4t"
    BY DEF PartNames
  <2>2. l4t > 0 /\ l4t \in Nat \ {0}
    BY <1>1, <1>4
  <2>3. a = <<Entry(name, f, l4t)>>
    BY <1>4, <2>1, <2>2 DEF MbrParts
  <2>4. Good(<<Entry(name, f, l4t)>>, f, f + l4t)
    BY <1>2, <2>2, GoodOne
  <2> QED BY <2>3, <2>4
<1>5. emu = 0 => b = <<>>
  BY <1>1 DEF MbrParts
<1>6. ASSUME emu # 0 PROVE Good(b, es, es + (emu - 1))
  <2>1. emu > 0 /\ EmuLen(emu) = emu - 1
    BY <1>1, <1>6 DEF EmuLen
  <2>2. b = Chain(es, Emus(double, emu))
    BY <2>1 DEF MbrParts
  <2>3. Optional(emu > 0, Chain(es, Emus(double, emu))) = Chain(es, Emus(double, emu))
    BY <2>1 DEF Optional
  <2>4. EmusOK(double, emu)
    BY DEF SdOK
  <2>5. b = Optional(emu > 0, Chain(es, Emus(double, emu)))
    BY <2>2, <2>3
  <2>6. Good(b, es, es + EmuLen(emu))
    BY <1>1, <1>2, <2>4, <2>5, EmuPiece
  <2> QED BY <2>1, <2>6
<1> QED BY <1>3, <1>4, <1>5, <1>6 DEF PartsLaid

\* The MBR, up to the entry for the GPT.
LEMMA SdMbrGood ==
  ASSUME NEW size, NEW hos, NEW l4t, NEW and, NEW emu, NEW double, NEW align,
         SdOK(size, hos, l4t, and, emu, double, align),
         NEW a, NEW b, MbrParts(hos, l4t, and, emu, double, a, b),
         NEW ff, FatLaid(ff, size, hos, l4t, and, emu)
  PROVE  \E end \in Nat : end <= (IF and = 0 THEN size ELSE size - 1) /\ Good((ff \o a) \o b, 16, end)
<1>1. /\ size \in Nat /\ hos \in Nat /\ l4t \in Nat /\ and \in Nat /\ emu \in Nat
      /\ hos >= 2048 /\ align \in Nat /\ hos + emu + l4t + and + 16 + align = size
      /\ and # 0 => and >= 8192
  BY DEF SdOK, L4tOK, EmusOK
<1>2. hos + emu + l4t + and + 16 <= size
  BY <1>1
<1>3. PICK f \in Nat, es \in Nat : f = 16 + hos /\ es = f + l4t + and
  BY <1>1
<1>4. PartsLaid(l4t, and, emu, f, es, a, b)
  BY <1>3, MbrPartsGood
<1> QED BY <1>1, <1>2, <1>3, <1>4, MbrGood

\* What the tables of a flash promise.
TablesGood(mbr, gpt, size) ==
    /\ mbr \in Seq(TableParts) /\ gpt \in Seq(TableParts)
    /\ InOrder(mbr, size - IF gpt = <<>> THEN 0 ELSE 1) /\ InOrder(gpt, size - 1)
    /\ mbr # <<>> /\ gpt # <<>> => \A e \in ToSet(mbr) : Partition(e) => e \in ToSet(gpt)

LEMMA InOrderNone == ASSUME NEW last PROVE InOrder(<<>>, last) /\ OnBorders(<<>>) /\ <<>> \in Seq(TableParts)
BY DEF InOrder, OnBorders

\* A card without Android has an MBR alone.
LEMMA SdNoAndroid ==
  ASSUME NEW size, NEW hos, NEW l4t, NEW emu, NEW double, NEW align,
         SdOK(size, hos, l4t, 0, emu, double, align),
         NEW a, NEW b, MbrParts(hos, l4t, 0, emu, double, a, b),
         NEW ff, FatLaid(ff, size, hos, l4t, 0, emu)
  PROVE  LET mbr == ((ff \o a) \o b) \o <<>> IN TablesGood(mbr, <<>>, size) /\ OnBorders(mbr)
<1>1. PICK m : m = (ff \o a) \o b
  OBVIOUS
<1>2. PICK end \in Nat : end <= size /\ Good(m, 16, end)
  BY <1>1, SdMbrGood
<1>3. size \in Nat
  BY DEF SdOK
<1>4. InOrder(m, size) /\ OnBorders(m) /\ m \in Seq(TableParts)
  BY <1>2, <1>3, GoodEnds
<1>5. m \o <<>> = m
  BY <1>4, ConcatEmptySeq
<1>6. size - 0 = size
  BY <1>3
<1>7. TablesGood(m, <<>>, size)
  BY <1>4, <1>6, InOrderNone DEF TablesGood
<1> QED BY <1>1, <1>4, <1>5, <1>7

\* A card with Android: the MBR beside the GPT.
AndroidMbr(mbr, fat, a, b, prot) ==
    /\ fat \in TableParts /\ prot \in TableParts /\ ~Partition(prot)
    /\ mbr = ((<<fat>> \o a) \o b) \o <<prot>>

LEMMA SdAndroidMbr ==
  ASSUME NEW size, NEW hos, NEW l4t, NEW and, NEW emu, NEW double, NEW align,
         SdOK(size, hos, l4t, and, emu, double, align), and > 0,
         NEW a, NEW b, MbrParts(hos, l4t, and, emu, double, a, b),
         NEW fat, NEW ff, ff = <<fat>>, FatLaid(ff, size, hos, l4t, and, emu),
         NEW prot, NEW mbr, AndroidMbr(mbr, fat, a, b, prot)
  PROVE  /\ InOrder(mbr, size - 1) /\ OnBorders(mbr) /\ mbr \in Seq(TableParts)
         /\ ToSet(mbr) = {fat} \cup ToSet(b) \cup {prot}
<1>0. /\ fat \in TableParts /\ prot \in TableParts /\ ~Partition(prot)
      /\ mbr = ((<<fat>> \o a) \o b) \o <<prot>>
  BY DEF AndroidMbr
<1>1. PICK m : m = (ff \o a) \o b
  OBVIOUS
<1>2. size \in Nat /\ and \in Nat /\ and # 0 /\ l4t \in Nat /\ emu \in Nat /\ hos \in Nat
      /\ hos + emu + l4t + and + 16 <= size
  BY DEF SdOK, L4tOK, EmusOK
<1>3. PICK end \in Nat : end <= (IF and = 0 THEN size ELSE size - 1) /\ Good(m, 16, end)
  BY <1>1, SdMbrGood
<1>4. size - 1 \in Nat /\ end <= size - 1
  BY <1>2, <1>3
<1>5. InOrder(m \o <<prot>>, size - 1) /\ OnBorders(m \o <<prot>>)
  BY <1>0, <1>3, <1>4, GoodThen
<1>6. PICK f \in Nat, es \in Nat : f = 16 + hos /\ es = f + l4t + and
  BY <1>2
<1>7. PartsLaid(l4t, and, emu, f, es, a, b)
  BY <1>6, MbrPartsGood
<1>8. a = <<>> /\ b \in Seq(TableParts)
  <2>1. a = <<>>
    BY <1>2, <1>7 DEF PartsLaid
  <2>2. CASE emu = 0
    <3>1. b = <<>>
      BY <1>7, <2>2 DEF PartsLaid
    <3> QED BY <2>1, <3>1
  <2>3. CASE emu # 0
    <3>1. Good(b, es, es + (emu - 1))
      BY <1>7, <2>3 DEF PartsLaid
    <3> QED BY <2>1, <3>1, GoodIs
  <2> QED BY <2>2, <2>3
<1>9. ToSet(((<<fat>> \o a) \o b) \o <<prot>>) = {fat} \cup ToSet(b) \cup {prot}
  BY <1>0, <1>8, MbrSet
<1>10. m \o <<prot>> \in Seq(TableParts)
  <2>1. PICK S, v : S = TableParts /\ v = <<prot>>
    OBVIOUS
  <2>2. m \in Seq(S) /\ v \in Seq(S)
    BY <1>0, <1>3, <2>1, GoodIs, SeqOne
  <2>3. m \o v \in Seq(S)
    BY <2>2, ConcatProperties
  <2> QED BY <2>1, <2>3
<1> QED BY <1>0, <1>1, <1>5, <1>9, <1>10

\* Its GPT.
LEMMA SdAndroidGpt ==
  ASSUME NEW size, NEW hos, NEW l4t, NEW and, NEW emu, NEW double, NEW align,
         SdOK(size, hos, l4t, and, emu, double, align), and > 0,
         NEW fat \in TableParts, FatLaid(<<fat>>, size, hos, l4t, and, emu),
         NEW start \in Nat, start = 16 + hos, NEW k \in Nat, k = (l4t + and + emu) - 1,
         NEW c, Good(c, start, start + k)
  PROVE  LET gpt == <<fat>> \o c
         IN  /\ InOrder(gpt, size - 1) /\ OnBorders(gpt) /\ gpt \in Seq(TableParts) /\ gpt # <<>>
             /\ ToSet(gpt) = {fat} \cup ToSet(c)
<1>1. /\ size \in Nat /\ and \in Nat /\ and # 0 /\ l4t \in Nat /\ emu \in Nat /\ hos \in Nat
      /\ hos + emu + l4t + and + 16 <= size
  BY DEF SdOK, L4tOK, EmusOK
<1>2. PICK v : v = <<fat>>
  OBVIOUS
<1>3. Good(v, 16, start)
  <2>1. emu + l4t + and # 0
    BY <1>1
  <2> QED BY <1>2, <2>1 DEF FatLaid
<1>4. PICK end \in Nat : end = start + k
  OBVIOUS
<1>5. 16 <= start /\ start <= end /\ size - 1 \in Nat /\ end <= size - 1
  BY <1>1, <1>4
<1>6. Good(v \o c, 16, end)
  BY <1>3, <1>4, <1>5, GoodBoth
<1>7. InOrder(v \o c, size - 1) /\ OnBorders(v \o c) /\ v \o c \in Seq(TableParts)
  BY <1>5, <1>6, GoodEnds
<1>8. PICK S : S = TableParts
  OBVIOUS
<1>9. v \in Seq(S) /\ c \in Seq(S) /\ Len(v) = 1
  BY <1>2, <1>8, GoodIs, SeqOne
<1>10. ToSet(v \o c) = ToSet(v) \cup ToSet(c)
  BY <1>9, BothAre
<1>11. ToSet(v) = {fat}
  BY <1>2, ToSetOne
<1>12. v \o c # <<>>
  <2>1. PICK n \in Nat : n = Len(c)
    BY <1>9
  <2>2. Len(v \o c) = Len(v) + Len(c)
    BY <1>9, ConcatProperties
  <2>3. Len(v \o c) = 1 + n /\ 1 + n # 0
    BY <1>9, <2>1, <2>2
  <2> QED BY <2>3
<1> QED BY <1>2, <1>7, <1>10, <1>11, <1>12

\* The sizes of the sliders, as constants.
LEMMA SdSizes ==
  ASSUME SlidersOK, ~dev.emmc
  PROVE  SdOK(dev.size, info.hos, info.l4t, info.and, info.emu, info.double, alignment)
<1>1. /\ info.hos \in Nat /\ info.emu \in Nat /\ info.l4t \in Nat /\ info.and \in Nat
      /\ info.double \in BOOLEAN
  BY DEF SlidersOK, SliderSizes
<1>2. PICK hos \in Nat, l4t \in Nat, and \in Nat, emu \in Nat, double \in BOOLEAN :
        hos = info.hos /\ l4t = info.l4t /\ and = info.and /\ emu = info.emu /\ double = info.double
  BY <1>1
<1>3. dev \in Devices
  BY DEF SlidersOK
<1>4. PICK size \in Nat, align \in Nat, t \in Nat :
        /\ size = dev.size /\ align = alignment /\ t = total /\ t + align = size /\ Border(t)
  BY <1>3, TotalOK
<1>5. hos + emu + l4t + and + 16 = t /\ hos >= 2048
  BY <1>2, <1>4 DEF SlidersOK, AU_ALIGN, hos_min_size, HOS_FAT_MIN_SIZE
<1>6. L4tOK(l4t) /\ L4tOK(and) /\ EmusOK(double, emu)
  BY <1>2 DEF SlidersOK
<1>7. Border(hos)
  <2>1. Border(l4t) /\ Border(and) /\ Border(emu) /\ Border(16)
    BY <1>6 DEF L4tOK, EmusOK, Border, AU_ALIGN
  <2>2. PICK x \in Nat : x = emu + l4t /\ Border(x)
    BY <2>1, BorderSum
  <2>3. PICK y \in Nat : y = x + and /\ Border(y)
    BY <2>1, <2>2, BorderSum
  <2>4. PICK z \in Nat : z = y + 16 /\ Border(z)
    BY <2>1, <2>3, BorderSum
  <2>5. z <= t /\ hos = t - z
    BY <1>5, <2>2, <2>3, <2>4
  <2> QED BY <1>4, <2>4, <2>5, BorderSum
<1>8. SdOK(size, hos, l4t, and, emu, double, align)
  BY <1>4, <1>5, <1>6, <1>7 DEF SdOK
<1> QED BY <1>2, <1>4, <1>8

\* The tables of an SD card.
LEMMA SdTables ==
  ASSUME SlidersOK, ~dev.emmc
  PROVE  TablesGood(SdMbr, SdGpt, dev.size) /\ OnBorders(SdMbr) /\ OnBorders(SdGpt)
<1>1. PICK size, hos, l4t, and, emu, align, double :
        /\ size = dev.size /\ hos = info.hos /\ l4t = info.l4t /\ and = info.and /\ emu = info.emu
        /\ align = alignment /\ double = info.double
        /\ SdOK(size, hos, l4t, and, emu, double, align)
  BY SdSizes
<1> /\ size \in Nat /\ hos \in Nat /\ l4t \in Nat /\ and \in Nat /\ emu \in Nat /\ align \in Nat
    /\ double \in BOOLEAN
  BY <1>1 DEF SdOK, L4tOK, EmusOK
<1>2. PICK p \in PartNames, q \in PartNames, r \in PartNames : p = "hos_data" /\ q = "protective" /\ r = "l4t"
  BY DEF PartNames
<1>3a. PICK extra \in Nat : extra = emu + l4t + and
  OBVIOUS
<1>3. PICK fs : extra = emu + l4t + and
                             /\ fs = size - (IF extra = 0 THEN 0 ELSE extra + align) - 16
  BY <1>3a
<1>4. FatPart = Entry(p, 16, fs)
  BY <1>1, <1>2, <1>3 DEF FatPart, Reserved, Extra, AU_ALIGN
<1>5. fs \in Nat \ {0} /\ FatLaid(<<Entry(p, 16, fs)>>, size, hos, l4t, and, emu)
  <2>1. SdOK(size, hos, l4t, and, emu, double, align)
    BY <1>1
  <2>2. PICK ff : ff = <<Entry(p, 16, fs)>>
    OBVIOUS
  <2>3. fs \in Nat \ {0} /\ FatLaid(ff, size, hos, l4t, and, emu)
    BY <1>3, <2>1, <2>2, FatIs
  <2> QED BY <2>2, <2>3
<1>6. PICK fat \in TableParts : fat = Entry(p, 16, fs)
  BY <1>5 DEF TableParts, Entry
<1>7. FatLaid(<<fat>>, size, hos, l4t, and, emu)
  BY <1>5, <1>6
<1>8. PICK a, b : /\ a = IF l4t > 0 /\ and = 0 THEN <<Entry(r, 16 + hos, l4t)>> ELSE <<>>
                  /\ b = IF emu > 0 THEN Chain(16 + hos + l4t + and, Emus(double, emu)) ELSE <<>>
  OBVIOUS
<1>9. MbrParts(hos, l4t, and, emu, double, a, b)
  BY <1>2, <1>8 DEF MbrParts
<1>10. PICK prot \in TableParts : prot = Entry(q, 0, size)
  BY DEF TableParts, Entry
<1>11. ~Partition(prot)
  BY <1>2, <1>10 DEF Partition, Entry
<1>12. PICK d : d = IF and > 0 THEN <<prot>> ELSE <<>>
  OBVIOUS
<1>13. SdMbr = ((<<fat>> \o a) \o b) \o d
  <2>1. FatPart = fat
    BY <1>4, <1>6
  <2>2. Optional(info.l4t > 0 /\ info.and = 0, <<Entry("l4t", AU_ALIGN + info.hos, info.l4t)>>) = a
    BY <1>1, <1>2, <1>8 DEF Optional, AU_ALIGN
  <2>3. Optional(info.emu > 0, Chain(EmuStart, Emus(info.double, info.emu))) = b
    BY <1>1, <1>8 DEF Optional, AU_ALIGN, EmuStart
  <2>4. Optional(info.and > 0, <<Entry("protective", 0, dev.size)>>) = d
    BY <1>1, <1>2, <1>10, <1>12 DEF Optional
  <2> QED BY <2>1, <2>2, <2>3, <2>4 DEF SdMbr
<1>14. CASE and = 0
  <2>1. d = <<>> /\ SdGpt = <<>>
    BY <1>1, <1>12, <1>14 DEF SdGpt, Optional
  <2>2. PICK m : m = ((<<fat>> \o a) \o b) \o <<>>
    OBVIOUS
  <2>3. TablesGood(m, <<>>, size) /\ OnBorders(m)
    <3>1. SdOK(size, hos, l4t, 0, emu, double, align) /\ MbrParts(hos, l4t, 0, emu, double, a, b)
      BY <1>1, <1>9, <1>14
    <3>2. FatLaid(<<fat>>, size, hos, l4t, 0, emu)
      BY <1>7, <1>14
    <3> QED BY <2>2, <3>1, <3>2, SdNoAndroid
  <2> QED BY <1>1, <1>13, <2>1, <2>2, <2>3, BordersNone
<1>15. CASE and # 0
  <2>0. and > 0 /\ d = <<prot>>
    BY <1>12, <1>15
  <2>a. SdOK(size, hos, l4t, and, emu, double, align)
    BY <1>1
  <2>1. PICK m : m = ((<<fat>> \o a) \o b) \o <<prot>>
    OBVIOUS
  <2>2. /\ InOrder(m, size - 1) /\ OnBorders(m) /\ m \in Seq(TableParts)
        /\ ToSet(m) = {fat} \cup ToSet(b) \cup {prot}
    <3>1. AndroidMbr(m, fat, a, b, prot)
      BY <1>11, <2>1 DEF AndroidMbr
    <3>2. PICK ff : ff = <<fat>>
      OBVIOUS
    <3>3. FatLaid(ff, size, hos, l4t, and, emu)
      BY <1>7, <3>2
    <3> QED BY <1>9, <2>0, <2>a, <3>1, <3>2, <3>3, SdAndroidMbr
  <2>3. PICK start \in Nat, k \in Nat, reserve \in 0 .. 1 :
          /\ start = 16 + hos /\ k = (l4t + and + emu) - 1
          /\ reserve = IF emu = 0 THEN 1 ELSE 0
    <3>1. 16 + hos \in Nat /\ (l4t + and + emu) - 1 \in Nat
      BY <2>0
    <3>2. (IF emu = 0 THEN 1 ELSE 0) \in 0 .. 1
      OBVIOUS
    <3> QED BY <3>1, <3>2
  <2>4. PICK l, an, e : /\ l = Optional(l4t > 0, <<Sized(r, l4t)>>)
                        /\ an = Android(info.dynamic, and, reserve)
                        /\ e = Optional(emu > 0, Emus(double, emu))
    OBVIOUS
  <2>5. PICK c : c = Chain(start, (l \o an) \o e)
    OBVIOUS
  <2>6. L4tOK(l4t) /\ L4tOK(and) /\ EmusOK(double, emu) /\ Border(hos)
    BY <1>1 DEF SdOK
  <2>7. Border(start)
    <3>1. Border(16)
      BY DEF Border, AU_ALIGN
    <3> QED BY <2>3, <2>6, <3>1, BorderSum
  <2>8. PICK dynamic : dynamic = info.dynamic
    OBVIOUS
  <2>9. /\ Good(c, start, start + ((l4t + and + emu) - 1))
        /\ emu > 0 => ToSet(Chain(start + (l4t + and), Emus(double, emu))) \subseteq ToSet(c)
    <3>1. an = Android(dynamic, and, reserve)
      BY <2>4, <2>8
    <3> QED BY <2>0, <2>3, <2>4, <2>5, <2>6, <2>7, <3>1, GptChain
  <2> DEFINE gpt == <<fat>> \o c
  <2>10. PICK g : g = gpt
    OBVIOUS
  <2>11. /\ InOrder(g, size - 1) /\ OnBorders(g) /\ g \in Seq(TableParts) /\ g # <<>>
         /\ ToSet(g) = {fat} \cup ToSet(c)
    <3>1. Good(c, start, start + k)
      BY <2>3, <2>9
    <3>2. start = 16 + hos /\ k = (l4t + and + emu) - 1
      BY <2>3
    <3>3. /\ InOrder(gpt, size - 1) /\ OnBorders(gpt) /\ gpt \in Seq(TableParts) /\ gpt # <<>>
          /\ ToSet(gpt) = {fat} \cup ToSet(c)
      BY <1>7, <2>0, <2>a, <3>1, <3>2, SdAndroidGpt
    <3> QED BY <2>10, <3>3
  <2>12. SdGpt = g
    <3>1. FatPart = fat /\ AU_ALIGN + info.hos = start
      BY <1>1, <1>4, <1>6, <2>3 DEF AU_ALIGN
    <3>2. Optional(info.l4t > 0, <<Sized("l4t", info.l4t)>>) = l
      BY <1>1, <1>2, <2>4
    <3>3. Android(info.dynamic, info.and, IF info.emu = 0 THEN 1 ELSE 0) = an
      BY <1>1, <2>3, <2>4
    <3>4. Optional(info.emu > 0, Emus(info.double, info.emu)) = e
      BY <1>1, <2>4
    <3>5. info.and > 0
      BY <1>1, <2>0
    <3> QED BY <2>5, <2>10, <3>1, <3>2, <3>3, <3>4, <3>5 DEF SdGpt, Optional
  <2>13. ToSet(b) \subseteq ToSet(c)
    <3>1. CASE emu = 0
      <4>1. b = <<>>
        BY <1>8, <3>1
      <4> QED BY <4>1, ToSetNone
    <3>2. CASE emu # 0
      <4>1. emu > 0 /\ 16 + hos + l4t + and = start + (l4t + and)
        BY <2>3, <3>2
      <4>2. b = Chain(start + (l4t + and), Emus(double, emu))
        BY <1>8, <4>1
      <4> QED BY <2>9, <4>1, <4>2
    <3> QED BY <3>1, <3>2
  <2>14. \A e1 \in ToSet(m) : Partition(e1) => e1 \in ToSet(g)
    BY <1>11, <2>2, <2>11, <2>13
  <2>15. TablesGood(m, g, size)
    BY <2>2, <2>11, <2>14 DEF TablesGood
  <2> QED BY <1>1, <1>13, <2>0, <2>1, <2>2, <2>11, <2>12, <2>15
<1> QED BY <1>14, <1>15

\* A list of partitions, none empty, with the sum of their sizes.
Fills(list, sum) == Positive(list) /\ Sum(list) = sum

LEMMA FillsNone == Fills(<<>>, 0)
BY ChainNone DEF Fills

LEMMA FillsOne ==
  ASSUME NEW name \in PartNames, NEW size \in Nat \ {0} PROVE Fills(<<Sized(name, size)>>, size)
<1>1. 0 \in Nat
  OBVIOUS
<1> QED BY <1>1, ChainOne DEF Fills

LEMMA FillsBoth ==
  ASSUME NEW a, NEW b, NEW m \in Nat, NEW n \in Nat, Fills(a, m), Fills(b, n)
  PROVE  Fills(a \o b, m + n)
<1>1. a \in Seq(SizedParts) /\ b \in Seq(SizedParts) /\ Sum(a) = m /\ Sum(b) = n
  BY DEF Fills, Positive
<1>2. Sum(a \o b) = m + n
  BY <1>1, SizeOfBoth
<1>3. Positive(a \o b)
  BY PositiveBoth DEF Fills
<1> QED BY <1>2, <1>3 DEF Fills

\* From USER on: what is left of an eMMC, Linux, Android.
LEMMA EmmcFills ==
  ASSUME NEW user \in Nat \ {0}, NEW l4t, NEW and, L4tOK(l4t), L4tOK(and), NEW dynamic,
         NEW p \in PartNames, NEW q \in PartNames, NEW u, u = <<Sized(p, user)>>,
         NEW l, l = IF l4t > 0 THEN <<Sized(q, l4t - (IF and = 0 THEN 1 ELSE 0))>> ELSE <<>>,
         NEW a, a = IF and > 0 THEN Android(dynamic, and, 1) ELSE <<>>,
         NEW sum, sum = user + (IF l4t + and = 0 THEN 0 ELSE l4t + and - 1)
  PROVE  sum \in Nat /\ Fills((u \o l) \o a, sum)
<1>1. l4t \in Nat /\ and \in Nat /\ (l4t = 0 \/ l4t >= 8192) /\ (and = 0 \/ and >= 8192)
  BY DEF L4tOK
<1>2. Fills(u, user)
  BY FillsOne
<1>3. PICK k \in Nat : k = IF l4t > 0 THEN l4t - (IF and = 0 THEN 1 ELSE 0) ELSE 0
  BY <1>1
<1>4. Fills(l, k)
  <2>1. CASE l4t > 0
    <3>1. k \in Nat \ {0} /\ l = <<Sized(q, k)>>
      BY <1>1, <1>3, <2>1
    <3> QED BY <3>1, FillsOne
  <2>2. CASE ~(l4t > 0)
    <3>1. l = <<>> /\ k = 0
      BY <1>3, <2>2
    <3> QED BY <3>1, FillsNone
  <2> QED BY <2>1, <2>2
<1>5. PICK j \in Nat : j = IF and > 0 THEN and - 1 ELSE 0
  BY <1>1
<1>6. Fills(a, j)
  <2>1. CASE and > 0
    <3>1. PICK one \in 0 .. 1 : one = 1
      OBVIOUS
    <3>2. a = Android(dynamic, and, one) /\ and >= 8192 /\ j = and - one
      BY <1>1, <1>5, <2>1, <3>1
    <3>3. Fits16(Android(dynamic, and, one), and - one)
      BY <1>1, <3>2, AndroidFits16
    <3> QED BY <3>2, <3>3 DEF Fits16, Fills
  <2>2. CASE ~(and > 0)
    <3>1. a = <<>> /\ j = 0
      BY <1>5, <2>2
    <3> QED BY <3>1, FillsNone
  <2> QED BY <2>1, <2>2
<1>7a. PICK n \in Nat : n = user + k
  OBVIOUS
<1>7. PICK s : n = user + k /\ s = u \o l
  BY <1>7a
<1>8. Fills(s, n)
  BY <1>2, <1>4, <1>7, FillsBoth
<1>9. Fills(s \o a, n + j)
  BY <1>6, <1>8, FillsBoth
<1>10. sum = n + j /\ sum \in Nat
  <2>1. CASE and > 0
    BY <1>1, <1>3, <1>5, <1>7, <2>1
  <2>2. CASE ~(and > 0)
    BY <1>1, <1>3, <1>5, <1>7, <2>2
  <2> QED BY <2>1, <2>2
<1> QED BY <1>7, <1>9, <1>10

\* The table of an eMMC.
LEMMA EmmcTables ==
  ASSUME SlidersOK, dev.emmc
  PROVE  TablesGood(<<>>, EmmcGpt, dev.size)
<1>1. PICK size \in Nat, hos \in Nat, l4t \in Nat, and \in Nat, t \in Nat, align \in Nat :
        /\ size = dev.size /\ hos = info.hos /\ l4t = info.l4t /\ and = info.and /\ info.emu = 0
        /\ t = total /\ align = alignment /\ t + align = size - 2680 /\ hos + l4t + and + 16 = t
        /\ t >= 12289
  <2>1. dev \in Devices /\ info \in SliderSizes /\ info.emu = 0
    BY DEF SlidersOK
  <2>2. info.hos \in Nat /\ info.l4t \in Nat /\ info.and \in Nat
    BY <2>1 DEF SliderSizes
  <2>3. PICK hos \in Nat, l4t \in Nat, and \in Nat : hos = info.hos /\ l4t = info.l4t /\ and = info.and
    BY <2>2
  <2>4. PICK size \in Nat, t \in Nat, align \in Nat :
          size = dev.size /\ t = total /\ align = alignment /\ t + align = size - 2680 /\ t >= 12289
    BY <2>1, TotalOK DEF HOS_USER
  <2>5. hos + 0 + l4t + and + 16 = t
    BY <2>1, <2>3, <2>4 DEF SlidersOK, AU_ALIGN
  <2>6. hos + l4t + and + 16 = t
    BY <2>5
  <2> QED BY <2>1, <2>3, <2>4, <2>6
<1>2. L4tOK(l4t) /\ L4tOK(and)
  BY <1>1 DEF SlidersOK
<1>3. PICK extra \in Nat : extra = l4t + and
  OBVIOUS
<1>4. PICK resv \in Nat : resv = IF extra = 0 THEN 1 ELSE extra + align
  OBVIOUS
<1>5. PICK user \in Nat \ {0} : user = size - 2680 - resv
  <2>1. CASE extra = 0
    BY <1>1, <1>4, <2>1
  <2>2. CASE extra # 0
    BY <1>1, <1>3, <1>4, <2>2
  <2> QED BY <2>1, <2>2
<1>6. PICK p \in PartNames, q \in PartNames : p = "USER" /\ q = "l4t"
  BY DEF PartNames
<1>7. PICK dynamic : dynamic = info.dynamic
  OBVIOUS
<1>8. PICK u, l, a, sum :
        /\ u = <<Sized(p, user)>>
        /\ l = IF l4t > 0 THEN <<Sized(q, l4t - (IF and = 0 THEN 1 ELSE 0))>> ELSE <<>>
        /\ a = IF and > 0 THEN Android(dynamic, and, 1) ELSE <<>>
        /\ sum = user + (IF l4t + and = 0 THEN 0 ELSE l4t + and - 1)
  OBVIOUS
<1>9. sum \in Nat /\ Fills((u \o l) \o a, sum)
  BY <1>2, <1>8, EmmcFills
<1>10. 2680 + sum <= size - 1 /\ size - 1 \in Nat
  <2>0. sum = user + (IF extra = 0 THEN 0 ELSE extra - 1)
    BY <1>3, <1>8
  <2>1. CASE extra = 0
    <3>1. sum = user /\ user = size - 2680 - 1
      BY <1>4, <1>5, <2>0, <2>1
    <3> QED BY <3>1
  <2>2. CASE extra # 0
    <3>1. sum = user + (extra - 1) /\ user = size - 2680 - (extra + align)
      BY <1>4, <1>5, <2>0, <2>2
    <3> QED BY <1>1, <1>3, <3>1
  <2> QED BY <2>1, <2>2
<1>11. PICK end \in Nat : end = 2680 + sum
  BY <1>9
<1>12. PICK list, c : list = (u \o l) \o a /\ c = Chain(2680, list)
  <2>1. PICK list : list = (u \o l) \o a
    OBVIOUS
  <2>2. PICK c : c = Chain(2680, list)
    OBVIOUS
  <2> QED BY <2>1, <2>2
<1>13. Laid(c, 2680, end)
  <2>1. Positive(list) /\ Sum(list) = sum /\ 2680 \in Nat
    BY <1>9, <1>12 DEF Fills
  <2>2. Laid(Chain(2680, list), 2680, 2680 + Sum(list))
    BY <2>1, ChainLaid
  <2> QED BY <1>12, <1>11, <2>1, <2>2
<1>14. InOrder(c, size - 1)
  BY <1>10, <1>11, <1>13, LaidInOrder
<1>15. c \in Seq(TableParts)
  BY <1>13 DEF Laid
<1>16. EmmcGpt = c
  <2>1. Sized("USER", dev.size - HOS_USER - EmmcReserved) = Sized(p, user)
    BY <1>1, <1>3, <1>6, <1>4, <1>5 DEF EmmcReserved, Extra, HOS_USER
  <2>2. Optional(info.l4t > 0, <<Sized("l4t", info.l4t - IF info.and = 0 THEN 1 ELSE 0)>>) = l
    BY <1>1, <1>6, <1>8 DEF Optional
  <2>3. Optional(info.and > 0, Android(info.dynamic, info.and, 1)) = a
    BY <1>1, <1>7, <1>8 DEF Optional
  <2>4. u = <<Sized(p, user)>>
    BY <1>8
  <2> QED BY <1>12, <2>1, <2>2, <2>3, <2>4 DEF EmmcGpt, HOS_USER
<1> QED BY <1>1, <1>14, <1>15, <1>16, InOrderNone DEF TablesGood

LEMMA SetBorders ==
  ASSUME NEW s \in Seq(TableParts), OnBorders(s)
  PROVE  \A e \in ToSet(s) : e.name \in Bordered => Border(e.start)
<1>1. ASSUME NEW e \in ToSet(s) PROVE \E n \in 1 .. Len(s) : e = s[n]
  BY DEF ToSet
<1> QED BY <1>1 DEF OnBorders

\* The invariant is what the property asks for.
LEMMA TablesAre ==
  ASSUME LayoutInv
  PROVE  TablesSound
<1>1. SlidersOK
  BY DEF LayoutInv
<1>2. dev \in Devices /\ dev.emmc \in BOOLEAN /\ info \in SliderSizes
  BY <1>1, LayoutSizes DEF SlidersOK
<1>3. SizesAddUp
  BY <1>1, <1>2 DEF SizesAddUp, SlidersOK, SliderSizes
<1>4. PICK m, g : m = tables.mbr /\ g = tables.gpt
  OBVIOUS
<1>5. TablesGood(m, g, dev.size) /\ (~dev.emmc => OnBorders(m) /\ OnBorders(g))
  <2>1. CASE tables = NoTables
    <3>1. m = <<>> /\ g = <<>>
      BY <1>4, <2>1 DEF NoTables
    <3>2. TablesGood(<<>>, <<>>, dev.size) /\ OnBorders(<<>>)
      BY InOrderNone DEF TablesGood
    <3> QED BY <3>1, <3>2
  <2>2. CASE tables = TablesOf /\ dev.emmc
    <3>1. m = <<>> /\ g = EmmcGpt
      BY <1>4, <2>2 DEF TablesOf
    <3> QED BY <1>1, <2>2, <3>1, EmmcTables
  <2>3. CASE tables = TablesOf /\ ~dev.emmc
    <3>1. m = SdMbr /\ g = SdGpt
      BY <1>4, <2>3 DEF TablesOf
    <3> QED BY <1>1, <2>3, <3>1, SdTables
  <2> QED BY <2>1, <2>2, <2>3 DEF LayoutInv
<1>6. TablesFit
  BY <1>4, <1>5 DEF TablesFit, TablesGood
<1>7. TablesAgree
  BY <1>4, <1>5 DEF TablesAgree, TablesGood
<1>8. TablesAligned
  <2>1. SUFFICES ASSUME ~dev.emmc, NEW e \in ToSet(m) \cup ToSet(g), e.name \in Bordered
                 PROVE  e.start % AU_ALIGN = 0
    BY <1>4 DEF TablesAligned, Bordered
  <2>2. m \in Seq(TableParts) /\ g \in Seq(TableParts) /\ OnBorders(m) /\ OnBorders(g)
    BY <1>5, <2>1 DEF TablesGood
  <2>3. Border(e.start)
    BY <2>1, <2>2, SetBorders
  <2> QED BY <2>3 DEF Border
<1> QED BY <1>3, <1>6, <1>7, <1>8 DEF TablesSound

\* Before anything is moved.
LEMMA LayoutStarts == ASSUME LayoutInit PROVE LayoutInv
<1>1. dev \in Devices /\ dev.emmc \in BOOLEAN
  BY LayoutSizes DEF LayoutInit
<1>2. PICK t \in Nat : t = total /\ (dev.emmc => t >= 12289) /\ (~dev.emmc => t >= 2065)
  BY <1>1, TotalOK
<1>3. PICK hos \in Nat : hos = t - 16 /\ hos + 0 + 0 + 0 + 16 = t
  BY <1>1, <1>2
<1>4. info = [hos |-> hos, emu |-> 0, l4t |-> 0, and |-> 0, double |-> FALSE, dynamic |-> FALSE]
  BY <1>2, <1>3 DEF LayoutInit, AU_ALIGN
<1>5. info \in SliderSizes
  BY <1>4 DEF SliderSizes
<1>6. info.hos + info.emu + info.l4t + info.and + AU_ALIGN = total
  BY <1>2, <1>3, <1>4 DEF AU_ALIGN
<1>7. info.hos >= hos_min_size
  <2>1. CASE dev.emmc
    <3>1. t >= 12289 /\ hos >= 1024
      BY <1>2, <1>3, <2>1
    <3> QED BY <1>4, <2>1, <3>1 DEF hos_min_size, HOS_USER_MIN_SIZE
  <2>2. CASE ~dev.emmc
    <3>1. t >= 2065 /\ hos >= 2048
      BY <1>2, <1>3, <2>2
    <3> QED BY <1>4, <2>2, <3>1 DEF hos_min_size, HOS_FAT_MIN_SIZE
  <2> QED BY <2>1, <2>2
<1>8. L4tOK(info.l4t) /\ L4tOK(info.and) /\ EmusOK(info.double, info.emu)
  <2>1. Border(0)
    BY DEF Border, AU_ALIGN
  <2> QED BY <1>4, <2>1 DEF L4tOK, EmusOK
<1>9. tables = NoTables
  BY DEF LayoutInit
<1> QED BY <1>1, <1>4, <1>5, <1>6, <1>7, <1>8, <1>9 DEF LayoutInv, SlidersOK

\* The sizes an action sets.
LEMMA NewSizes ==
  ASSUME SlidersOK, dev' = dev, NEW hos \in Int, NEW emu \in Nat, NEW l4t \in Nat, NEW and \in Nat,
         NEW double \in BOOLEAN, NEW dynamic \in BOOLEAN,
         info' = [hos |-> hos, emu |-> emu, l4t |-> l4t, and |-> and, double |-> double, dynamic |-> dynamic],
         hos + emu + l4t + and + 16 = total, hos >= hos_min_size,
         L4tOK(l4t), L4tOK(and), EmusOK(double, emu), dev.emmc => emu = 0
  PROVE  SlidersOK'
<1>1. total' = total /\ hos_min_size' = hos_min_size
  BY DEF total, Usable, alignment, hos_min_size
<1>2. hos \in Nat
  BY DEF hos_min_size, HOS_USER_MIN_SIZE, HOS_FAT_MIN_SIZE
<1>3. dev' \in Devices
  BY DEF SlidersOK
<1>4. info' \in SliderSizes
  BY <1>2 DEF SliderSizes
<1>5. /\ info'.hos = hos /\ info'.emu = emu /\ info'.l4t = l4t /\ info'.and = and /\ info'.double = double
  OBVIOUS
<1>6. L4tOK(info.l4t)' /\ L4tOK(info.and)' /\ EmusOK(info.double, info.emu)'
  BY <1>5 DEF L4tOK, EmusOK
<1>7. (dev.emmc => info.emu = 0)'
  BY <1>5
<1>8. (info.hos + info.emu + info.l4t + info.and + AU_ALIGN)' = total'
  BY <1>1, <1>5 DEF AU_ALIGN
<1>9. info'.hos >= hos_min_size'
  BY <1>1, <1>5
<1> QED BY <1>3, <1>4, <1>6, <1>7, <1>8, <1>9 DEF SlidersOK

\* What the sliders start from.
LEMMA OldSizes ==
  ASSUME SlidersOK
  PROVE  \E hos, emu, l4t, and, t \in Nat : \E double, dynamic \in BOOLEAN :
           /\ info = [hos |-> hos, emu |-> emu, l4t |-> l4t, and |-> and, double |-> double, dynamic |-> dynamic]
           /\ t = total /\ Border(t) /\ hos + emu + l4t + and + 16 = t
           /\ L4tOK(l4t) /\ L4tOK(and) /\ EmusOK(double, emu) /\ (dev.emmc => emu = 0)
<1>1. PICK hos \in Nat, emu \in Nat, l4t \in Nat, and \in Nat, double \in BOOLEAN, dynamic \in BOOLEAN :
        info = [hos |-> hos, emu |-> emu, l4t |-> l4t, and |-> and, double |-> double, dynamic |-> dynamic]
  BY DEF SlidersOK, SliderSizes
<1>2. dev \in Devices
  BY DEF SlidersOK
<1>3. PICK t \in Nat : t = total /\ Border(t)
  BY <1>2, TotalOK
<1>4. hos + emu + l4t + and + 16 = t
  BY <1>1, <1>3 DEF SlidersOK, AU_ALIGN
<1>5. L4tOK(l4t) /\ L4tOK(and) /\ EmusOK(double, emu) /\ (dev.emmc => emu = 0)
  BY <1>1 DEF SlidersOK
<1> QED BY <1>1, <1>3, <1>4, <1>5

\* What is left, but for 2 GiB, is a multiple of a border.
LEMMA RestOK ==
  ASSUME NEW t \in Nat, Border(t), NEW x \in Nat, NEW y \in Nat, Border(x), Border(y),
         NEW rest, rest = t - 16 - (x + y) - 2048, ~(rest < 8192)
  PROVE  rest \in Nat /\ L4tOK(rest) /\ 2048 + rest + x + y + 16 = t
<1>1. rest \in Nat /\ rest >= 8192 /\ 2048 + rest + x + y + 16 = t
  OBVIOUS
<1>2. PICK s \in Nat : s = x + y /\ Border(s)
  BY BorderSum
<1>3. PICK u \in Nat : u = s + 2064 /\ Border(u)
  <2>1. Border(2064)
    BY DEF Border, AU_ALIGN
  <2> QED BY <1>2, <2>1, BorderSum
<1>4. u <= t /\ rest = t - u
  BY <1>1, <1>2, <1>3
<1>5. Border(rest)
  <2>1. Border(t - u)
    BY <1>3, <1>4, BorderSum
  <2> QED BY <1>4, <2>1
<1> QED BY <1>1, <1>5 DEF L4tOK

LEMMA GigsOK == ASSUME NEW n \in Nat, n >= 8 PROVE n * 1024 \in Nat /\ L4tOK(n * 1024)
<1>1. PICK k \in Nat : k = 64 * n /\ n * 1024 = 16 * k
  OBVIOUS
<1>2. Border(16 * k)
  BY BorderTimes
<1> QED BY <1>1, <1>2 DEF L4tOK

LEMMA SmallOK == L4tOK(0) /\ L4tOK(8192) /\ L4tOK(10240)
BY DEF L4tOK, Border, AU_ALIGN

LEMMA L4tSizeOK ==
  ASSUME NEW pos \in Nat, NEW size,
         size = CASE pos < 4 -> 0 [] pos < 8 -> 8192 [] OTHER -> pos * 1024
  PROVE  size \in Nat /\ L4tOK(size)
<1>1. CASE pos < 4
  BY <1>1, SmallOK
<1>2. CASE ~(pos < 4) /\ pos < 8
  BY <1>2, SmallOK
<1>3. CASE ~(pos < 4) /\ ~(pos < 8)
  <2>1. size = pos * 1024 /\ pos >= 8
    BY <1>3
  <2> QED BY <2>1, GigsOK
<1> QED BY <1>1, <1>2, <1>3

LEMMA AndSizeOK ==
  ASSUME NEW pos \in Nat, NEW user,
         user = CASE pos < 2 -> 0 [] pos < 4 -> 4096 [] OTHER -> pos * 1024,
         NEW size, size = IF user = 0 THEN 0 ELSE user + 6144
  PROVE  size \in Nat /\ L4tOK(size)
<1>1. CASE pos < 2
  BY <1>1, SmallOK
<1>2. CASE ~(pos < 2) /\ pos < 4
  BY <1>2, SmallOK
<1>3. CASE ~(pos < 2) /\ ~(pos < 4)
  <2>1. PICK n \in Nat : n = pos + 6 /\ n >= 8
    BY <1>3
  <2>2. user = pos * 1024
    BY <1>3
  <2>3. user # 0 /\ user + 6144 = n * 1024
    BY <1>3, <2>1, <2>2
  <2>4. size = n * 1024
    BY <2>3
  <2> QED BY <2>1, <2>4, GigsOK
<1> QED BY <1>1, <1>2, <1>3

\* The Linux slider.
LEMMA L4tSlides ==
  ASSUME SlidersOK, NEW pos \in Nat, _action_slider_l4t(pos)
  PROVE  SlidersOK' /\ dev' = dev
<1>0. dev' = dev
  BY DEF _action_slider_l4t, Move
<1>1. PICK hos \in Nat, emu \in Nat, l4t \in Nat, and \in Nat, t \in Nat, double \in BOOLEAN, dynamic \in BOOLEAN :
           /\ info = [hos |-> hos, emu |-> emu, l4t |-> l4t, and |-> and, double |-> double, dynamic |-> dynamic]
           /\ t = total /\ Border(t) /\ hos + emu + l4t + and + 16 = t
           /\ L4tOK(l4t) /\ L4tOK(and) /\ EmusOK(double, emu) /\ (dev.emmc => emu = 0)
  BY OldSizes
<1>2. PICK size \in Nat : size = (CASE pos < 4 -> 0 [] pos < 8 -> 8192 [] OTHER -> pos * 1024) /\ L4tOK(size)
  BY L4tSizeOK
<1>3. PICK left \in Int, rest \in Int : left = t - 16 - emu - size - and /\ rest = t - 16 - (emu + and) - 2048
  OBVIOUS
<1>4. left = HosSize(info.emu, size, info.and) /\ rest = Rest(info.emu + info.and)
  BY <1>1, <1>3 DEF HosSize, Rest, AU_ALIGN
<1>5. info' = IF left > hos_min_size THEN [info EXCEPT !.l4t = size, !.hos = left]
                   ELSE IF rest < 8192 THEN info
                   ELSE [info EXCEPT !.l4t = rest, !.hos = 2048]
  BY <1>2, <1>4 DEF _action_slider_l4t
<1>6. hos_min_size \in {1024, 2048}
  BY DEF hos_min_size, HOS_USER_MIN_SIZE, HOS_FAT_MIN_SIZE
<1>7. CASE left > hos_min_size
  <2>1. info' = [hos |-> left, emu |-> emu, l4t |-> size, and |-> and, double |-> double, dynamic |-> dynamic]
    <3>1. info' = [info EXCEPT !.l4t = size, !.hos = left]
      BY <1>5, <1>7
    <3> QED BY <1>1, <3>1
  <2>2. left + emu + size + and + 16 = t /\ left >= hos_min_size
    BY <1>3, <1>6, <1>7
  <2> QED BY <1>0, <1>1, <1>2, <2>1, <2>2, NewSizes
<1>8. CASE ~(left > hos_min_size) /\ rest < 8192
  <2>1. info' = info
    BY <1>5, <1>8
  <2>2. SlidersOK'
    BY <1>0, <2>1 DEF SlidersOK, total, Usable, alignment, hos_min_size
  <2> QED BY <1>0, <2>2
<1>9. CASE ~(left > hos_min_size) /\ ~(rest < 8192)
  <2>1. Border(emu) /\ Border(and)
    BY <1>1 DEF L4tOK, EmusOK
  <2>2. rest \in Nat /\ L4tOK(rest) /\ 2048 + rest + emu + and + 16 = t
    BY <1>1, <1>3, <1>9, <2>1, RestOK
  <2>0. PICK two \in Int : two = 2048
    OBVIOUS
  <2>3. info' = [hos |-> two, emu |-> emu, l4t |-> rest, and |-> and, double |-> double, dynamic |-> dynamic]
    <3>1. info' = [info EXCEPT !.l4t = rest, !.hos = two]
      BY <1>5, <1>9, <2>0
    <3> QED BY <1>1, <3>1
  <2>4. two + emu + rest + and + 16 = t /\ two >= hos_min_size
    BY <1>6, <2>0, <2>2
  <2>5. /\ two + emu + rest + and + 16 = total /\ two >= hos_min_size
        /\ L4tOK(rest) /\ L4tOK(and) /\ EmusOK(double, emu) /\ (dev.emmc => emu = 0)
    BY <1>1, <2>2, <2>4
  <2> QED BY <1>0, <2>2, <2>3, <2>5, NewSizes
<1> QED BY <1>7, <1>8, <1>9

\* The Android slider.
LEMMA AndSlides ==
  ASSUME SlidersOK, NEW pos \in Nat, _action_slider_and(pos)
  PROVE  SlidersOK' /\ dev' = dev
<1>0. dev' = dev
  BY DEF _action_slider_and, Move
<1>1. PICK hos \in Nat, emu \in Nat, l4t \in Nat, and \in Nat, t \in Nat, double \in BOOLEAN, dynamic \in BOOLEAN :
           /\ info = [hos |-> hos, emu |-> emu, l4t |-> l4t, and |-> and, double |-> double, dynamic |-> dynamic]
           /\ t = total /\ Border(t) /\ hos + emu + l4t + and + 16 = t
           /\ L4tOK(l4t) /\ L4tOK(and) /\ EmusOK(double, emu) /\ (dev.emmc => emu = 0)
  BY OldSizes
<1>2. PICK user, size :
        /\ user = CASE pos < 2 -> 0 [] pos < 4 -> 4096 [] OTHER -> pos * 1024
        /\ size = IF user = 0 THEN 0 ELSE user + 6144
  OBVIOUS
<1>3. size \in Nat /\ L4tOK(size)
  BY <1>2, AndSizeOK
<1>4. PICK left \in Int, rest \in Int : left = t - 16 - emu - l4t - size /\ rest = t - 16 - (emu + l4t) - 2048
  BY <1>3
<1>5. left = HosSize(info.emu, info.l4t, size) /\ rest = Rest(info.emu + info.l4t)
  BY <1>1, <1>4 DEF HosSize, Rest, AU_ALIGN
<1>6. info' = IF left > hos_min_size THEN [info EXCEPT !.and = size, !.hos = left]
                   ELSE IF rest < 8192 THEN info
                   ELSE [info EXCEPT !.and = rest, !.hos = 2048]
  BY <1>2, <1>5 DEF _action_slider_and, AND_SYS_SIZE
<1>7. hos_min_size \in {1024, 2048}
  BY DEF hos_min_size, HOS_USER_MIN_SIZE, HOS_FAT_MIN_SIZE
<1>8. CASE left > hos_min_size
  <2>1. info' = [hos |-> left, emu |-> emu, l4t |-> l4t, and |-> size, double |-> double, dynamic |-> dynamic]
    <3>1. info' = [info EXCEPT !.and = size, !.hos = left]
      BY <1>6, <1>8
    <3> QED BY <1>1, <3>1
  <2>2. left + emu + l4t + size + 16 = t /\ left >= hos_min_size
    BY <1>3, <1>4, <1>7, <1>8
  <2> QED BY <1>0, <1>1, <1>3, <2>1, <2>2, NewSizes
<1>9. CASE ~(left > hos_min_size) /\ rest < 8192
  <2>1. info' = info
    BY <1>6, <1>9
  <2>2. SlidersOK'
    BY <1>0, <2>1 DEF SlidersOK, total, Usable, alignment, hos_min_size
  <2> QED BY <1>0, <2>2
<1>10. CASE ~(left > hos_min_size) /\ ~(rest < 8192)
  <2>1. Border(emu) /\ Border(l4t)
    BY <1>1 DEF L4tOK, EmusOK
  <2>2. rest \in Nat /\ L4tOK(rest) /\ 2048 + rest + emu + l4t + 16 = t
    BY <1>1, <1>4, <1>10, <2>1, RestOK
  <2>0. PICK two \in Int : two = 2048
    OBVIOUS
  <2>3. info' = [hos |-> two, emu |-> emu, l4t |-> l4t, and |-> rest, double |-> double, dynamic |-> dynamic]
    <3>1. info' = [info EXCEPT !.and = rest, !.hos = two]
      BY <1>6, <1>10, <2>0
    <3> QED BY <1>1, <3>1
  <2>4. two + emu + l4t + rest + 16 = t /\ two >= hos_min_size
    BY <1>7, <2>0, <2>2
  <2>5. /\ two + emu + l4t + rest + 16 = total /\ two >= hos_min_size
        /\ L4tOK(l4t) /\ L4tOK(rest) /\ EmusOK(double, emu) /\ (dev.emmc => emu = 0)
    BY <1>1, <2>2, <2>4
  <2> QED BY <1>0, <2>2, <2>3, <2>5, NewSizes
<1> QED BY <1>8, <1>9, <1>10

\* Two emuMMCs share a multiple of 32 MiB, one has a multiple of 16.
LEMMA EmuSizeOK ==
  ASSUME SlidersOK, NEW v \in Nat, NEW size, size = EmuSize(v), NEW double, double = (v >= 23)
  PROVE  size \in Nat /\ EmusOK(double, size)
<1>1. double \in BOOLEAN
  OBVIOUS
<1>2. PICK full \in Nat, m \in Nat \ {0} : full = max_emmc_size /\ full = 16 * m
  <2>1. max_emmc_size = 29856 \/ max_emmc_size = 59680
    BY DEF max_emmc_size, EMU_32GB_FULL, EMU_64GB_FULL
  <2>2. 29856 = 16 * 1866 /\ 59680 = 16 * 3730
    OBVIOUS
  <2> QED BY <2>1, <2>2
<1>3. \/ v = 0 /\ size = 0
      \/ v = 22 /\ size = full
      \/ v = 44 /\ size = 2 * full
      \/ v >= 23 /\ size = 2 * ((v - 22 + 3) * 1024 + 32)
      \/ v < 23 /\ size = (v + 3) * 1024 + 32
  BY <1>2 DEF EmuSize, EMU_SLIDER_1X_FULL, EMU_SLIDER_2X_FULL, EMU_SLIDER_2X_MIN, Gigs,
     EMU_SLIDER_OFFSET, EMU_RSVD
<1>4. \/ size = 0
      \/ ~double /\ \E k \in Nat \ {0} : size = 16 * k
      \/ \E k \in Nat \ {0} : size = 32 * k
  <2>1. CASE v = 0 /\ size = 0
    BY <2>1
  <2>2. CASE v = 22 /\ size = full
    <3>1. ~(v >= 23)
      BY <2>2
    <3>2. ~double /\ size = 16 * m
      BY <1>2, <2>2, <3>1
    <3> QED BY <3>2
  <2>3. CASE v = 44 /\ size = 2 * full
    <3>1. size = 32 * m
      BY <1>2, <2>3
    <3> QED BY <3>1
  <2>4. CASE v >= 23 /\ size = 2 * ((v - 22 + 3) * 1024 + 32)
    <3>1. PICK k \in Nat \ {0} : k = 64 * (v - 19) + 2
      BY <2>4
    <3>2. size = 32 * k
      BY <2>4, <3>1
    <3> QED BY <3>2
  <2>5. CASE v < 23 /\ size = (v + 3) * 1024 + 32
    <3>1. PICK k \in Nat \ {0} : k = 64 * (v + 3) + 2
      OBVIOUS
    <3>2. size = 16 * k
      BY <2>5, <3>1
    <3>3. ~(v >= 23)
      BY <2>5
    <3> QED BY <3>2, <3>3
  <2> QED BY <1>3, <2>1, <2>2, <2>3, <2>4, <2>5
<1>5. CASE size = 0
  <2>1. Border(0)
    BY DEF Border, AU_ALIGN
  <2> QED BY <1>5, <2>1 DEF EmusOK
<1>6. CASE ~double /\ \E k \in Nat \ {0} : size = 16 * k
  <2>1. PICK k \in Nat \ {0} : size = 16 * k
    BY <1>6
  <2>2. size \in Nat /\ size > 1 /\ Border(size)
    BY <2>1, BorderTimes
  <2> QED BY <1>6, <2>2 DEF EmusOK, EmuOK
<1>7. CASE \E k \in Nat \ {0} : size = 32 * k
  <2>1. PICK k \in Nat \ {0} : size = 32 * k
    BY <1>7
  <2>2. PICK j \in Nat : j = 2 * k /\ size = 16 * j
    BY <2>1
  <2>3. size \in Nat /\ size > 1
    BY <2>1
  <2>4. Border(size)
    BY <2>2, BorderTimes
  <2> QED BY <1>7, <2>3, <2>4 DEF EmusOK, EmuOK
<1> QED BY <1>4, <1>5, <1>6, <1>7

\* The emuMMC slider.
LEMMA EmuSlides ==
  ASSUME SlidersOK, NEW pos \in Nat, _action_slider_emu(pos)
  PROVE  SlidersOK' /\ dev' = dev
<1>0. dev' = dev /\ ~dev.emmc
  BY DEF _action_slider_emu, Move
<1>1. PICK hos \in Nat, emu \in Nat, l4t \in Nat, and \in Nat, t \in Nat, double \in BOOLEAN, dynamic \in BOOLEAN :
           /\ info = [hos |-> hos, emu |-> emu, l4t |-> l4t, and |-> and, double |-> double, dynamic |-> dynamic]
           /\ t = total /\ Border(t) /\ hos + emu + l4t + and + 16 = t
           /\ L4tOK(l4t) /\ L4tOK(and) /\ EmusOK(double, emu) /\ (dev.emmc => emu = 0)
  BY OldSizes
<1>2. PICK v \in Nat : v = SlideVal(pos)
  BY DEF SlideVal, EMU_SLIDER_1X_FULL, EMU_SLIDER_2X_FULL
<1>3. PICK size, two : size = EmuSize(v) /\ two = (v >= 23)
  OBVIOUS
<1>4. size \in Nat /\ EmusOK(two, size) /\ two \in BOOLEAN
  BY <1>3, EmuSizeOK
<1>5. PICK left \in Int : left = t - 16 - size - l4t - and
  BY <1>4
<1>6. left = HosSize(EmuSize(SlideVal(pos)), info.l4t, info.and)
  BY <1>1, <1>2, <1>3, <1>5 DEF HosSize, AU_ALIGN
<1>7. info' = IF emmc_size # 0 /\ left > hos_min_size
                THEN [info EXCEPT !.emu = size, !.hos = left, !.double = two]
                ELSE info
  BY <1>2, <1>3, <1>6 DEF _action_slider_emu, EMU_SLIDER_2X_MIN
<1>8. hos_min_size \in {1024, 2048}
  BY DEF hos_min_size, HOS_USER_MIN_SIZE, HOS_FAT_MIN_SIZE
<1>9. CASE emmc_size # 0 /\ left > hos_min_size
  <2>1. info' = [hos |-> left, emu |-> size, l4t |-> l4t, and |-> and, double |-> two, dynamic |-> dynamic]
    <3>1. info' = [info EXCEPT !.emu = size, !.hos = left, !.double = two]
      BY <1>7, <1>9
    <3> QED BY <1>1, <3>1
  <2>2. left + size + l4t + and + 16 = t /\ left >= hos_min_size
    BY <1>4, <1>5, <1>8, <1>9
  <2> QED BY <1>0, <1>1, <1>4, <2>1, <2>2, NewSizes
<1>10. CASE ~(emmc_size # 0 /\ left > hos_min_size)
  <2>1. info' = info
    BY <1>7, <1>10
  <2>2. SlidersOK'
    BY <1>0, <2>1 DEF SlidersOK, total, Usable, alignment, hos_min_size
  <2> QED BY <1>0, <2>2
<1> QED BY <1>9, <1>10

\* The flash.
LEMMA FlashKeeps ==
  ASSUME SlidersOK, FlashTables
  PROVE  SlidersOK' /\ tables' = TablesOf'
<1>1. dev' = dev
  BY DEF FlashTables
<1>2. tables' = TablesOf'
  BY <1>1 DEF FlashTables, TablesOf
<1>3. CASE UNCHANGED info
  <2>1. SlidersOK'
    BY <1>1, <1>3 DEF SlidersOK, total, Usable, alignment, hos_min_size
  <2> QED BY <1>2, <2>1
<1>4. CASE \E d \in BOOLEAN : info' = [info EXCEPT !.dynamic = d]
  <2>1. PICK hos \in Nat, emu \in Nat, l4t \in Nat, and \in Nat, t \in Nat, double \in BOOLEAN, dynamic \in BOOLEAN :
           /\ info = [hos |-> hos, emu |-> emu, l4t |-> l4t, and |-> and, double |-> double, dynamic |-> dynamic]
           /\ t = total /\ Border(t) /\ hos + emu + l4t + and + 16 = t
           /\ L4tOK(l4t) /\ L4tOK(and) /\ EmusOK(double, emu) /\ (dev.emmc => emu = 0)
    BY OldSizes
  <2>2. PICK d \in BOOLEAN : info' = [info EXCEPT !.dynamic = d]
    BY <1>4
  <2>3. info' = [hos |-> hos, emu |-> emu, l4t |-> l4t, and |-> and, double |-> double, dynamic |-> d]
    BY <2>1, <2>2
  <2>4. /\ hos + emu + l4t + and + 16 = total /\ hos >= hos_min_size
        /\ L4tOK(l4t) /\ L4tOK(and) /\ EmusOK(double, emu) /\ (dev.emmc => emu = 0)
    BY <2>1 DEF SlidersOK
  <2>5. SlidersOK'
    BY <1>1, <2>3, <2>4, NewSizes
  <2> QED BY <1>2, <2>5
<1> QED BY <1>3, <1>4 DEF FlashTables

LEMMA LayoutSteps ==
  ASSUME LayoutInv, [LayoutNext]_layoutVars
  PROVE  LayoutInv'
<1>0. SlidersOK
  BY DEF LayoutInv
<1>1. ASSUME NEW v \in EmuMoves, tables = NoTables, _action_slider_emu(v) PROVE LayoutInv'
  <2>1. v \in Nat
    BY LayoutSizes DEF EMU_SLIDER_2X_FULL
  <2>2. SlidersOK'
    BY <1>0, <1>1, <2>1, EmuSlides
  <2>3. tables' = NoTables'
    BY <1>1 DEF _action_slider_emu, Move, NoTables
  <2> QED BY <2>2, <2>3 DEF LayoutInv
<1>2. ASSUME NEW v \in L4tMoves, tables = NoTables, _action_slider_l4t(v) PROVE LayoutInv'
  <2>1. v \in Nat
    BY LayoutSizes
  <2>2. SlidersOK'
    BY <1>0, <1>2, <2>1, L4tSlides
  <2>3. tables' = NoTables'
    BY <1>2 DEF _action_slider_l4t, Move, NoTables
  <2> QED BY <2>2, <2>3 DEF LayoutInv
<1>3. ASSUME NEW v \in AndMoves, tables = NoTables, _action_slider_and(v) PROVE LayoutInv'
  <2>1. v \in Nat
    BY LayoutSizes
  <2>2. SlidersOK'
    BY <1>0, <1>3, <2>1, AndSlides
  <2>3. tables' = NoTables'
    BY <1>3 DEF _action_slider_and, Move, NoTables
  <2> QED BY <2>2, <2>3 DEF LayoutInv
<1>4. CASE FlashTables
  BY <1>0, <1>4, FlashKeeps DEF LayoutInv
<1>5. CASE UNCHANGED layoutVars
  <2>1. dev' = dev /\ info' = info /\ tables' = tables
    BY <1>5 DEF layoutVars
  <2>2. SlidersOK'
    BY <1>0, <2>1 DEF SlidersOK, total, Usable, alignment, hos_min_size
  <2>3. NoTables' = NoTables /\ TablesOf' = TablesOf
    BY <2>1 DEF NoTables, TablesOf, EmmcGpt, EmmcReserved, Extra, SdMbr, SdGpt, FatPart, Reserved,
       EmuStart, alignment, Usable
  <2> QED BY <2>1, <2>2, <2>3 DEF LayoutInv
<1> QED BY <1>1, <1>2, <1>3, <1>4, <1>5 DEF LayoutNext

\* On any SD card of 2080 MiB or more and any eMMC of 14984 MiB or more, after any moves of
\* the sliders (_action_slider_emu, _action_slider_l4t, _action_slider_and): the sizes fill
\* the device, and the tables that _emmc_prepare_and_flash_mbr_gpt and
\* _sd_prepare_and_flash_mbr_gpt write have partitions in order that end inside it, MBR and
\* GPT agree, and on the SD card what follows the FAT partition starts on a border of 16 MiB.
THEOREM TablesAlwaysSound == LayoutSpec => []TablesSound
<1>1. LayoutInit => LayoutInv
  BY LayoutStarts
<1>2. LayoutInv /\ [LayoutNext]_layoutVars => LayoutInv'
  BY LayoutSteps
<1>3. LayoutInv => TablesSound
  BY TablesAre
<1> QED BY <1>1, <1>2, <1>3, PTL DEF LayoutSpec

=============================================================================
