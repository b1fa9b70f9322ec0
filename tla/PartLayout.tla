----------------------------- MODULE PartLayout -----------------------------
(***************************************************************************)
(* The partition manager of Nyx (gui_tools_partition_manager.c), first     *)
(* part: the sliders that size the partitions and the tables that are      *)
(* flashed for them, on the SD card (MBR, and a GPT next to it when there  *)
(* is Android) and on the eMMC (GPT).                                      *)
(*                                                                         *)
(* Abstractions.  Sizes are in MiB (0x800 sectors).  GUIDs, checksums and  *)
(* the copies of the GPT are left out: they are computed from the entries. *)
(* Where a slider is drawn is left out, what it sets is not.               *)
(***************************************************************************)
EXTENDS Integers, Sequences, SequencesExt

CONSTANTS
    Devices,     \* [emmc, size, aula]: which manager, the size of its device, the console
    EmmcSizes,   \* the sizes of the eMMC, 0 when there is none
    EmuMoves, L4tMoves, AndMoves,  \* the positions a slider is moved to
    MaxMoves     \* bound: moves of the sliders

AU_ALIGN == 16
HOS_USER == 2680             \* HOS_USER_SECTOR
HOS_FAT_MIN_SIZE == 2048
HOS_USER_MIN_SIZE == 1024
EMU_SLIDER_1X_FULL == 22
EMU_SLIDER_2X_MIN == 23
EMU_SLIDER_2X_FULL == 44
EMU_SLIDER_OFFSET == 3
EMU_RSVD == 32
EMU_32GB_FULL == 29856
EMU_64GB_FULL == 59680
AND_SYS_SIZE == 6144

\* Smaller devices are left out: the unsigned sizes of the sliders wrap on cards
\* below 2 GiB and 16 MiB, and on eMMCs below 15 GB, which are not built.
ASSUME LayoutSizes ==
    /\ \A d \in Devices :
         /\ d.emmc \in BOOLEAN /\ d.aula \in BOOLEAN /\ d.size \in Nat
         /\ d.size >= IF d.emmc THEN HOS_USER + 12304 ELSE HOS_FAT_MIN_SIZE + 2 * AU_ALIGN
    /\ EmmcSizes \subseteq Nat /\ MaxMoves \in Nat
    /\ EmuMoves \subseteq 0 .. EMU_SLIDER_2X_FULL /\ L4tMoves \subseteq Nat /\ AndMoves \subseteq Nat

VARIABLES
    dev,        \* the device of part_info.storage
    emmc_size,  \* part_info.emmc_size_mb
    info,       \* part_info: hos, emu, l4t, and, double, dynamic
    tables,     \* what has been flashed: [mbr, gpt]
    moves

layoutVars == <<dev, emmc_size, info, tables, moves>>

Usable == IF dev.emmc THEN dev.size - HOS_USER ELSE dev.size

\* "Align down total size to ensure alignment of all partitions after HOS one."
alignment_None == 0
alignment == Usable % AU_ALIGN

total == Usable - alignment
max_emmc_size == IF dev.aula THEN EMU_64GB_FULL ELSE EMU_32GB_FULL
hos_min_size == IF dev.emmc THEN HOS_USER_MIN_SIZE ELSE HOS_FAT_MIN_SIZE

NoTables == [mbr |-> <<>>, gpt |-> <<>>]

\* create_window_partition_manager.
LayoutInit ==
    /\ dev \in Devices /\ emmc_size \in EmmcSizes
    /\ info = [hos |-> total - AU_ALIGN, emu |-> 0, l4t |-> 0, and |-> 0,
               double |-> FALSE, dynamic |-> FALSE]
    /\ tables = NoTables /\ moves = 0

----------------------------------------------------------------------------
(* The sliders.                                                            *)

Move == moves < MaxMoves /\ moves' = moves + 1 /\ UNCHANGED <<dev, emmc_size, tables>>

\* What is left for the first partition.
HosSize(emu, l4t, and) == total - AU_ALIGN - emu - l4t - and

\* An eMMC larger than the official ones: the FULL positions are passed over.
SlideVal(v) ==
    CASE emmc_size <= max_emmc_size -> v
      [] v = EMU_SLIDER_1X_FULL -> IF info.double THEN v - 1 ELSE v + 1
      [] v = EMU_SLIDER_2X_FULL -> v - 1
      [] OTHER -> v

Gigs(n) == (n + EMU_SLIDER_OFFSET) * 1024 + EMU_RSVD

EmuSize(v) ==
    CASE v = 0 -> 0
      [] v = EMU_SLIDER_1X_FULL -> max_emmc_size
      [] v = EMU_SLIDER_2X_FULL -> 2 * max_emmc_size
      [] v >= EMU_SLIDER_2X_MIN -> 2 * Gigs(v - EMU_SLIDER_1X_FULL)
      [] OTHER -> Gigs(v)

_action_slider_emu(pos) ==
    LET v == SlideVal(pos)
        hos == HosSize(EmuSize(v), info.l4t, info.and)
    IN  /\ ~dev.emmc /\ Move
        /\ info' = IF emmc_size # 0 /\ hos > hos_min_size
                     THEN [info EXCEPT !.emu = EmuSize(v), !.hos = hos, !.double = v >= EMU_SLIDER_2X_MIN]
                     ELSE info

\* The range of the Linux slider, in GiB; Android's ends AND_SYS_SIZE before it.
SliderRange == (total - AU_ALIGN - 2048) \div 1024

\* A slider that goes too far takes what is left, but for 2 GiB; if that is too
\* little it stays where it was.
Rest_NoGap(others) == total - others - 2048
Rest(others) == total - AU_ALIGN - others - 2048

_action_slider_l4t(pos) ==
    LET size == CASE pos < 4 -> 0 [] pos < 8 -> 8192 [] OTHER -> pos * 1024
        hos == HosSize(info.emu, size, info.and)
        rest == Rest(info.emu + info.and)
    IN  /\ pos <= SliderRange /\ Move
        /\ info' = IF hos > hos_min_size THEN [info EXCEPT !.l4t = size, !.hos = hos]
                   ELSE IF rest < 8192 THEN info
                   ELSE [info EXCEPT !.l4t = rest, !.hos = 2048]

_action_slider_and(pos) ==
    LET user == CASE pos < 2 -> 0 [] pos < 4 -> 4096 [] OTHER -> pos * 1024
        size == IF user = 0 THEN 0 ELSE user + AND_SYS_SIZE
        hos == HosSize(info.emu, info.l4t, size)
        rest == Rest(info.emu + info.l4t)
    IN  /\ pos <= SliderRange - AND_SYS_SIZE \div 1024 /\ Move
        /\ info' = IF hos > hos_min_size THEN [info EXCEPT !.and = size, !.hos = hos]
                   ELSE IF rest < 8192 THEN info
                   ELSE [info EXCEPT !.and = rest, !.hos = 2048]

----------------------------------------------------------------------------
(* The tables.                                                             *)

Entry(name, start, size) == [name |-> name, start |-> start, size |-> size]
Sized(name, size) == [name |-> name, size |-> size]

\* The size of the first n.
SizeOf(list) ==
    LET sum[n \in 0 .. Len(list)] == IF n = 0 THEN 0 ELSE sum[n - 1] + list[n].size IN sum

\* _create_gpt_partition after _create_gpt_partition: each starts at
\* curr_part_lba, where the one before it ended.
Chain(start, list) ==
    [n \in 1 .. Len(list) |-> Entry(list[n].name, start + SizeOf(list)[n - 1], list[n].size)]

AndroidSystem(dynamic) ==
    IF dynamic
      THEN <<Sized("boot", 64), Sized("recovery", 64), Sized("dtb", 1), Sized("misc", 3),
             Sized("cache", 60), Sized("super", 5952)>>
      ELSE <<Sized("vendor", 1024), Sized("APP", 3072), Sized("LNX", 32), Sized("SOS", 64),
             Sized("DTB", 1), Sized("MDA", 16), Sized("CAC", 700), Sized("MSC", 3)>>

\* uda_size subtracts the other partitions, and 1 MiB when it is the last one.
Android(dynamic, size, reserve) ==
    AndroidSystem(dynamic) \o
    <<Sized("userdata", size - (IF dynamic THEN 6144 ELSE 4912) - reserve)>>

\* The emuMMC partitions; the last MiB is reserved.
Emus_NoReserve(double, size) ==
    IF double THEN <<Sized("emummc", size \div 2), Sized("emummc2", size \div 2)>>
              ELSE <<Sized("emummc", size)>>

Emus(double, size) ==
    IF double THEN <<Sized("emummc", size \div 2), Sized("emummc2", size \div 2 - 1)>>
              ELSE <<Sized("emummc", size - 1)>>

Optional(there, list) == IF there THEN list ELSE <<>>

\* f_mkfs: the FAT partition takes what is not reserved.
Extra == info.emu + info.l4t + info.and

Reserved == IF Extra = 0 THEN 0 ELSE Extra + alignment

FatPart == Entry("hos_data", AU_ALIGN, dev.size - Reserved - AU_ALIGN)

EmuStart_NoAndroid == AU_ALIGN + info.hos + info.l4t
EmuStart == AU_ALIGN + info.hos + info.l4t + info.and

\* _sd_prepare_and_flash_mbr_gpt.
SdMbr ==
    <<FatPart>>
    \o Optional(info.l4t > 0 /\ info.and = 0, <<Entry("l4t", AU_ALIGN + info.hos, info.l4t)>>)
    \o Optional(info.emu > 0, Chain(EmuStart, Emus(info.double, info.emu)))
    \o Optional(info.and > 0, <<Entry("protective", 0, dev.size)>>)

SdGpt ==
    Optional(info.and > 0,
        <<FatPart>> \o
        Chain(AU_ALIGN + info.hos,
              Optional(info.l4t > 0, <<Sized("l4t", info.l4t)>>)
              \o Android(info.dynamic, info.and, IF info.emu = 0 THEN 1 ELSE 0)
              \o Optional(info.emu > 0, Emus(info.double, info.emu))))

\* _emmc_prepare_and_flash_mbr_gpt: from USER on.
EmmcReserved == IF Extra = 0 THEN 1 ELSE Extra + alignment

EmmcGpt ==
    Chain(HOS_USER,
        <<Sized("USER", dev.size - HOS_USER - EmmcReserved)>>
        \o Optional(info.l4t > 0, <<Sized("l4t", info.l4t - IF info.and = 0 THEN 1 ELSE 0)>>)
        \o Optional(info.and > 0, Android(info.dynamic, info.and, 1)))

\* The partitioning goes through; the scheme is chosen when there is Android.
FlashTables ==
    /\ tables = NoTables /\ UNCHANGED <<dev, emmc_size, moves>>
    /\ \/ info.and = 0 /\ UNCHANGED info
       \/ info.and > 0 /\ \E d \in BOOLEAN : info' = [info EXCEPT !.dynamic = d]
    /\ tables' = IF dev.emmc THEN [mbr |-> <<>>, gpt |-> EmmcGpt'] ELSE [mbr |-> SdMbr', gpt |-> SdGpt']

LayoutNext ==
    \/ \E v \in EmuMoves : tables = NoTables /\ _action_slider_emu(v)
    \/ \E v \in L4tMoves : tables = NoTables /\ _action_slider_l4t(v)
    \/ \E v \in AndMoves : tables = NoTables /\ _action_slider_and(v)
    \/ FlashTables

LayoutSpec == LayoutInit /\ [][LayoutNext]_layoutVars

----------------------------------------------------------------------------
(* Properties.                                                             *)

\* After any sequence of slider moves, accepted, clipped or refused, the sizes
\* fill the device and leave the first partition its minimum.
SizesAddUp ==
    /\ info.hos + info.emu + info.l4t + info.and + AU_ALIGN = total
    /\ info.hos >= hos_min_size
    /\ info.emu \in Nat /\ info.l4t \in Nat /\ info.and \in Nat

\* The entry of an MBR that stands for the GPT is no partition.
Partition(e) == e.name # "protective"

InOrder(list, last) ==
    /\ \A n \in 1 .. Len(list) : Partition(list[n]) =>
         list[n].size > 0 /\ list[n].start + list[n].size <= last
    /\ \A m, n \in 1 .. Len(list) : Partition(list[m]) /\ Partition(list[n]) /\ m < n =>
         list[m].start + list[m].size <= list[n].start

\* The partitions of a flashed table follow each other without overlapping, none
\* is empty, and they end on the device, before the last MiB when a GPT and its
\* copy there (last_use_lba) are written.
TablesFit ==
    /\ InOrder(tables.mbr, dev.size - IF tables.gpt = <<>> THEN 0 ELSE 1)
    /\ InOrder(tables.gpt, dev.size - 1)

\* An MBR and a GPT computed apart describe the same partitions: the FAT and the
\* emuMMCs of a hybrid card are where both say.
TablesAgree ==
    tables.mbr # <<>> /\ tables.gpt # <<>> =>
        \A e \in ToSet(tables.mbr) : Partition(e) => e \in ToSet(tables.gpt)

\* "Align down total size to ensure alignment of all partitions after HOS one":
\* on the SD card Linux, Android, its userdata and the emuMMCs start on a border
\* of 16 MiB, whatever the size of the card.
TablesAligned ==
    ~dev.emmc => \A e \in ToSet(tables.mbr) \cup ToSet(tables.gpt) :
        e.name \in {"hos_data", "l4t", "boot", "vendor", "userdata", "emummc", "emummc2"} =>
            e.start % AU_ALIGN = 0

\* Whatever moves of the sliders led to them, the sizes fill the device, and the
\* tables a flash writes are sound and agree with each other.
TablesSound == SizesAddUp /\ TablesFit /\ TablesAgree /\ TablesAligned

=============================================================================
