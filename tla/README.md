# Verification of hekate

TLA+ models of the boot loader hekate and of its graphical companion Nyx, the
TLC configurations that check them on small instances, and proofs checked by
TLAPS. `PROJECT.json` lists components, runs, mutants, the map from definitions
to source lines, hazards, findings and theorems.

## 1. The system and its parts

hekate is a bare-metal program. One thread of control runs on the BPMP, without
an operating system; what is concurrent is the hardware, the user, who pulls
cards and presses buttons at any moment, and the power supply. State survives a
restart on the SD card, in the eMMC and in a few scratch registers.

| Part (source) | State | Operations | What makes it correct |
|---|---|---|---|
| eMMC BIS driver (`bdk/storage/nx_emmc_bis.c`) | partition, cluster cache with lookup table and dirty count, saved tweak | init, read, write, flush, end | reads return what was last written; modified clusters reach the medium; table, entries and medium agree |
| SD and eMMC front ends (`sd.c`, `emmc.c`, generic part of `sdmmc.c`) | speed mode, init and mount flags, selected hardware partition | initialise, mount, end, select partition, transfer with retry and recovery | a transfer comes from one card and one partition; flags describe the card in the slot; every call returns |
| Card bring-up (`sdmmc.c`, `sdmmc_driver.c`) | state, voltage, width and clock of host and of card | the command sequences of the two initialisers, one per mode | host and card agree; a good card comes up; a fallback is slower |
| Tap tuning (`sdmmc_driver.c`) | the scan over the sampling taps | manual tuning for DDR200 | the tap programmed is in a stable window |
| Heap (`bdk/mem/heap.c`) | a doubly linked list of blocks inside the memory it hands out | malloc, zalloc, calloc, free | live blocks never overlap; double frees do no harm |
| Boot chain (`bootloader/main.c`, `lockpick-autokeys.patch`, exception and watchdog code) | update.bin, the three autokeys files, update flag, watchdog and exception state | every power-on up to the menu | no restart loops, Lockpick starts once, an update keeps the configuration |
| Boot entry and text menus (`main.c`, `storage/emummc.c`, `ini.c`) | configuration, boot storage, selected emuMMC, force-disable flag | autoboot, launch menus | an entry boots with its own settings |
| eMMC backup (`nyx_gui/frontend/fe_emmc_tools.c`) | backup files, partial.idx, locals of the copy loop | back up an option, continue, verify, cancel | a finished backup is the whole partition |
| eMMC restore (`fe_emmc_tools.c`) | restore folder, target partition, emummc.ini, locals of the copy loop | restore BOOT, GP_ALL or RAW to the eMMC or into an emuMMC partition, verify, cancel | a finished restore is the backup, in its place |
| emuMMC tools (`fe_emummc_tools.c`, `gui_emummc_tools.c`) | emuMMC folders and flags, raw images, MBR, emummc.ini | create in files or in a partition, migrate, fix, choose, disable | what emummc.ini names is complete and flagged; other emuMMCs are kept |
| Partition manager (`gui_tools_partition_manager.c`) | slider sizes, MBR and GPT, RAM disk | size, back up, format, restore, write tables, flash Linux and Android | tables sound and in agreement; files are kept; images stay in their partitions |
| HOS launch (`bootloader/hos`) | key slots, `sbk_is_set`, EKS blob in RAM and on the SD card, patch lists | identify package1, generate keys, decrypt and patch package2, start or return | a launch ends with its own keys whatever came before; wrong keys do not stay; HOS starts as asked |
| L4T launch (`bootloader/l4t`) | boot files, carveouts | load, start | not modelled |
| USB mass storage (`usb_gadget_ums.c`, bulk part of `usbd.c` and `xusbd.c`) | command, sense, residue, endpoint queues | bulk-only transport, SCSI commands, timeouts, eject | status is true and belongs to its command; writes stay on the medium; a session ends |
| USB enumeration, HID gadget (`bdk/usb`) | descriptors, address, configuration | control transfers | not modelled |
| Joy-Con, touch, charger, clocks, interrupts, display, security engine, memory training | device registers and small caches | register programming | mostly outside what a model can say |
| FatFS, LittlevGL, decompressors | | | third party |

Interactions. Both programs reach storage only through the front ends, which
call the bring-up sequence at initialisation and at recovery in the middle of a
transfer. The BIS driver sits on the eMMC (or an emuMMC on the SD card). Backup
and restore use both cards and FatFS on one of them. The boot chain decides
which program runs, boot entry selection what that program boots, and the launch
either starts it or returns to the menu for the next choice. Calls are
synchronous; there are no messages and no callbacks besides interrupts. The
exception is USB, where the gadget polls endpoints and the host acts on its own.
The Nyx tools run one at a time: a tool owns the cards while its window is open.

Hard behaviours: recovery in the middle of a transfer, cards exchanged at any
moment, power cuts between two files that belong together, programs that start
each other, write-back caching, a host that gives up on a command, work continued
over several sessions, key slots that outlive a failed launch, and lists kept
inside the memory they manage. The hazards of `PROJECT.json` give each one
at its source line, with the properties that would notice it.

## 2. Modules

| Module | Models | Instance and proofs |
|---|---|---|
| `NxEmmcBis` | the BIS driver | `MCNxEmmcBis`, `MCNyxEmmc`, `NxEmmcBisProofs` |
| `SdmmcStorage` | SD and eMMC front ends | `MCSdmmcStorage`, `MCHekate`, `SdmmcProofs` |
| `SdmmcInit` | card bring-up; opens up what is one step in `SdmmcStorage` | `MCHekate`, `SdmmcInitProofs` |
| `SdmmcTuning` | the tap scan | `MCHekate`, `SdmmcProofs` |
| `HeapAbstract` | what malloc and free promise | through `Heap` |
| `Heap` | `heap.c`, shown to implement `HeapAbstract` | `MCHekate`, `HeapProofs` |
| `BootChain` | power-on to menu | `MCBootChain`, `MCHekate`, `BootProofs` |
| `BootEntry` | choice of entry and its settings | `MCBootEntry`, `MCHekate`, `BootProofs` |
| `HosLaunch` | `hos_launch`, its keys and patches | `MCHosLaunch`, `MCHekate`, `BootProofs` |
| `EmmcBackup` | backups by Nyx | `MCEmmcBackup`, `MCNyxEmmc`, `MCNyxTools`, `EmmcBackupProofs` |
| `EmmcRestore` | restores by Nyx | `MCEmmcRestore`, `MCNyxTools`, `EmmcBackupProofs` |
| `EmummcTools` | emuMMC creation, migration and choice | `MCEmummcTools`, `MCNyxTools`, `EmummcToolsProofs` |
| `PartLayout` | sliders and partition tables | `MCPartLayout`, `MCNyxTools`, `EmummcToolsProofs` |
| `SdRepartition` | backing up, formatting and refilling the SD card | `MCSdRepartition`, `MCNyxTools`, `EmummcToolsProofs` |
| `PartFlash` | flashing Linux and Android | `MCPartFlash`, `MCNyxTools`, `EmummcToolsProofs` |
| `UsbUms` | the mass storage gadget, both controllers, and its host | `MCUsb`, `UsbUmsProofs` |

`MCHekate`, `MCNyxEmmc` and `MCNyxTools` put several components into one run. They share no
state, so no interleaving of them is of interest: the variable `part` says which
one a behaviour is about, and the others rest in one of their initial states.

**NxEmmcBis.** `system_part`, `medium`, `cache`, `clusters`, `lookup` and
`tweak` are the statics of the driver; `store` is the ciphertext on the media,
`op` the request in progress. One step handles one cluster-sized block, the
unit of the loops of `nx_emmc_bis_read` and `nx_emmc_bis_write`; `ReadHit`,
`ReadMiss`, `ReadNormal`, `WriteHit` and `WriteThrough` are the paths of the
block functions, with the flush of a full cache inside `ReadMiss`. Ciphertext
carries the key, cluster and position it was made for, so a wrong tweak shows
as `Garbage`. `acked` is history: what a caller may expect to read.

**SdmmcStorage.** `kind` selects one of the two front ends, which run the same
code. `mode`, `init_done`, `mounted` and `insertion_event` are the statics of
`sd.c` and `emmc.c`; `drv` is the storage structure and the state the card was
put into; `io` is the transfer in progress. A transfer is a step per attempt
and per recovery (`IoAttempt`, `IoFirstReinit`, `IoReinit`, `IoAfterInit`).
`Swap` is the user. `from` remembers what each sector of the buffer was last
exchanged with. The error counters are left out: only the information screens
read them.

**SdmmcInit.** One step per stage of `sdmmc_storage_init_sd` and
`sdmmc_storage_init_mmc`, against a card that answers only commands that are
legal in its state and arrive at the voltage, width and clock it is set to. A card
that does not answer CMD8 is taken for version 1.x, and goes on at 3.3 V.

**SdmmcTuning.** The loop of `_sdmmc_manual_tuning_set_tap`, one step per tap
that extends (`Grow`) or ends (`Close`) a window. The code is compiled only with
`BDK_SDMMC_UHS_DDR200_SUPPORT`.

**Heap.** Memory is a range of units; a node is a header unit with its size,
links and magic. `malloc` starts a search; `NextNode`, `TakeNode`, `NewNode` and
`FirstNode` are the branches of `_heap_create`; `free` merges. `FreeIgnored` is
a free of an address that is not in use, and `Write` lets a program overwrite
its block, so that stale headers appear in free memory.

**BootChain.** `running` and `boot_pc` are the program in control. `MountSd`,
`LoadLibs` and `_show_errors` are the start of `ipl_main`; the `Autokeys` and
`Write` steps are `_autokeys_run`, one per file it touches; the `Lockpick` steps
follow the patch; the `Update` steps are the outcomes of
`_check_for_updated_bootloader` and `is_ipl_updated`. `PowerCut` and
`excp_reset` may come between any two steps. A key file or marker that is there and
cannot be read counts as missing (`Misread`), as does hekate_ipl.ini, without which
autokeys is enabled. `misreads`, `viaLp`, `allowed` and `dumps` are history.

**BootEntry.** Parsed ini sections, the boot storage `b_cfg`, the emuMMC
configuration `emu` and the flag `force`. `_auto_launch` makes the choice; the
menu actions follow `_launch_config`, `_launch_ini_list` and
`_launch_payloads`. `launched` records what was handed to `hos_launch`, and
`listed` that an entry of `_launch_ini_list` left `force` set.

**HosLaunch.** `slot` are the key slots, `sbk_is_set` and `ext_patches` the statics of
`_hos_keygen` and of the patches.ini parser, `eks` is `h_cfg.eks`, `mbr_eks` the blob
in sector 0 of the SD card, `ctxt` the locals of `hos_launch`, whose stages are the
values of `phase`. A key is a term, the seed it was unwrapped from and the key it was
unwrapped under, so that two slots are equal only when the code got there the same
way; the branches of `_hos_keygen` are the operators named `Keygen...`. `PatchKip` is
one turn of the loop of `pkg2_patch_kips`, `PatchKips` the loop, a recursive function
of the number of KIPs. Every error returns
to the menu with slots and caches as they are, and another entry may be launched.
`relapses` is history.

**EmmcBackup.** `card` holds the files, `partial_idx` the index file, `run` the
locals of `_dump_emmc_part`. `OpenPart` is everything up to the copy loop,
`CopyChunk`, `ReadFails` and `WriteFails` are one turn of it, and `ClosePart`,
`WriteIdx` and `CreateNext` are the three stages between two part files, which
a power cut can separate. A chunk is the address it was read from. `report` and
`own` are history; `misled` marks a backup that continued another one's index.

**EmmcRestore.** `backup` is the restore folder, `mbr` the table of the SD card,
`job` the locals of `restore_emmc_selected` and `_restore_emmc_part`.
`RestoreOpens` is everything from the size checks to the copy loop,
`RestoreChunk`, `RestoreReadFails` and `RestoreWriteFails` are one turn of it,
`RestoreSwitch` closes, verifies and opens the next part file, and `RestoreDone`
ends with the emuMMC files, each of which may fail to be written (`NoteEmu`): the code
goes on, and only the history variable `noted` tells. A unit is named by the partition and the place it was
backed up from; `image` is what was written where. A selection that fails sends
the data `astray` (its result is ignored by the code); such restores are excused.

**EmummcTools.** `folders` are the emuMMC directories with their flags, `raw_image`
the images in the partitions, `ini` is emummc.ini, `task` the operation in
progress. An image has three pieces, copied one by one (`PieceCopied`,
`StopsCopying`), then the flag is written (`WriteFlag`) and then emummc.ini
(`SaveIni`); a power cut may fall between any two. A flag that cannot be written
(`FlagFails`) stops nothing; `unflagged` is history and remembers it.

**PartLayout.** `info` is `part_info`, in MiB. The three slider actions follow their
callbacks with all clipping and rejections; `FlashTables` computes MBR and GPT
from the sizes as `_sd_prepare_and_flash_mbr_gpt` and its eMMC twin do.

**SdRepartition.** `on_card` and `on_ram` say how much of each file is on the card
and on the RAM disk, `repart.todo` which of them are still to be copied, `NextFile`
the one whose turn it is. `CheckSizes` decides whether files are kept, `BackupFile`,
`Format`, `RestoreFile` and `RepartFinish` are the stages of
`_sd_create_mbox_start_partitioning` with their retries. Any copy of a file may fail
without being noticed (`CopyLeaves`), and so may mounting the card again (`mounted`);
`hit` collects the files this happened to.

**PartFlash.** `OpenL4tPart`, `FlashChunk`, `RetryWait` and `WriteRetried` are the
loop of `_action_flash_linux_data` over the `l4t.NN` files;
`_action_flash_android_data` flashes each image that fits in one write. A write
that fails leaves its range spoilt. `bytesWritten` has 32 bits and wraps at
`FlashWrap`.

**UsbUms.** `pc` is where the loop of `usb_device_gadget_ums` is; `state`, `sz`,
`lun` and `out` are the fields of `usbd_gadget_ums_t`; `inq` and `txc` are the IN
endpoint: one transfer on USB2, a ring on XUSB. `host` sends any command of
`Commands`, may take fewer data than it asked for, stop in the middle, reset or
disappear (`HostTakes`, `HostResets`, `HostLeaves`, external). A command block and a
status block say whether they are those of the host's last command (`cur`, in place of
the tags of the transport); `Outdated` takes the mark off when the host sends the next
one. Lengths are in sectors, and `odd` says that the last unit the host asks for is a
partial one. `FinishIn` and `PadMore` are the rounds of `_pad_with_zeros`, with the
memset of the shared buffer that clears transfers still in the ring (`Wiped`). A read
of less than one sector is left out.
`wrote`, `got` and `csw` are history.

Definitions whose name ends in `_` and a word that names a mistake are mutants:
plausible bugs that the property named beside them in `PROJECT.json` must catch.

## 3. Runs

| Run | Checks | Bounds and why they are enough |
|---|---|---|
| `emmc` | BIS: `CacheSound`, `ReadsAreCurrent`, `DirectWritesReachMedium`, `FlushHasPart`; backup: `ProgressSound`, `DoneIsWhole`, `VerifiedIsIntact` | two clusters of two sectors and one cache entry: blocks start and end inside and at cluster borders, and the second cluster evicts the first; requests of two sectors cross a border. Partitions of one to five chunks and parts of two: full parts, a short last one, and one partition that is split but not resumable; three sessions, the number a card with room for one part needs; one corruption, failed selection or power cut |
| `bis_flush_loss` | `WritesReachMedium` (violated) | two entries |
| `hekate` | front ends: `FrontSound`, `TransferNotSplit`, `CallsEnd`; bring-up: `BringUpSound`, `LowerModeIsSlower`; tuning: `TapIsStable`, `ScanInvariant`; heap: `HeapInv`, `ImplementsAbstract`; boot chain: `DumpsBounded`, `FlagConsumed`, `InjectedCarriesOver`, `BootSettles`; entries: `LaunchIsOwn`; launch: `KeysAsFresh`, `BadKeysOnce`, `BootedAsAsked` | three sectors in transfers of at most two: a transfer has two chunks, so a recovery can fall between them; two SD cards; the retry counts of the code. Every combination of the capabilities the bring-up looks at; every tuning result of twelve taps with a window of three. A heap of eight units and requests of nothing, two and three units after alignment: all kinds of merge and split. An older, a newer and an oversized update, three power cuts, exceptions, misread files or user repairs. One section of each kind in the main file, three in the list, one of which disables emuMMC; every boot storage. Six consoles (both SoCs, fuses below, at and above each update of the game card controller, with and without a readable SBK), six pairs of installed firmware so that every branch of the key generation can follow another, eight entries and 33 outcomes of patching; the limit on the patch list scaled down to four; three launches, as wrong keys are made, used and thrown out in three; one SD fault or wrong TSEC answer |
| `emu_not_injected` | `EmuIsInjected` (violated) | one launch, the limit of 32 patches of the code |
| `emmc_retry_part` | `RetryOnSelectedPartition` (violated) | as above |
| `boot_two_revisions` | `DumpsBounded` (violated) | two revisions of Lockpick |
| `backup_stale_idx` | `ResumesOwn` (violated) | a user who follows the dialogs |
| `nyx_tools` | backup: `SessionsEnd`; restore: `RestoreSound`, `EmuIsWhole`, `RestoreEnds`; emuMMC: `IniSound`, `OthersKept`; partition manager: `TablesSound`, `ReportIsTrue`, `FilesSomewhere`, `FlashSound` | the backups of `emmc` in two sessions. A GPP of seven units in chunks of two, and part files of every shape: ending inside, at and across a chunk, missing, too large; two presses and one mishap. Two folders of each kind, so that they run out, and three operations. Real sizes of cards, eMMCs and sliders in MiB, with the slider positions around every threshold, and four moves. Up to three files of five kinds on a RAM disk that holds some of them. Linux images of up to two files that end inside and at chunks, fit or do not, and one file as long as the byte count can count |
| `files_not_kept` | `FilesKept` (violated) | as above |
| `l4t_flash_retry` | `FlashEnds` (violated, under fairness of the flasher) | as above |
| `usb` | `CswHonest`, `StatusSound`, `StaysInBounds`, `EjectEnds`, `CommandEnds` | a disk of three sectors, one per chunk of a read, two per endpoint buffer and per OUT transfer: reads and writes take several rounds, and cross the end; host and command disagree on length in both directions, by less and by more than a buffer, and by part of a sector; one reset, after which every command may follow |
| `usb_fifo_not_cleared` | `CswHonestAlways` (violated) | the XUSB controller and two reads |

Deadlock checking is on in `bis_flush_loss` and `emmc_retry_part`. In the
others it is off, because behaviours end: the card is up, an operating system has
taken over, the session is over, or the user stops.

Several of these properties join named parts: `CacheSound` is `TypeOK`,
`LookupSound`, `DirtyCountExact` and `CleanMatchesMedium`; `FrontSound` is
`FrontTypeOK` and `InitDoneHonest`; `BringUpSound` is `InitializedAgrees` and
`GoodCardComesUp`; `LaunchIsOwn` is `OwnEmuMMC`, `IdOnlyOnce` and `ForceIsOwn`;
`KeysAsFresh` includes `LaunchTypeOK`; `ProgressSound` is `BackupTypeOK` and
`IdxBacked`; `IniSound` is `CreatedIsWhole` and `IniHasFlag`; `RestoreSound` is `RestoredIsBackup`
and `VerifiedIsRestored`; `TablesSound` is `SizesAddUp`,
`TablesFit`, `TablesAgree` and `TablesAligned`; `FlashSound` is `FlashedIsImage` and `FlashStaysInside`;
`StaysInBounds` is `UmsTypeOK` and `MediumGuarded`; `StatusSound` is `CswIsCurrent`
and `FailKeepsSense`. The mutants break each part
that is more than a type.

What the passing runs show, in short. Reads through the BIS driver are current
over evictions, failed writes and re-initialisations. A transfer that succeeds
was made with one card and one hardware partition, though recoveries ran inside
it. A storage reported as initialised agrees with its host, and every good card
comes up in every mode. The heap keeps the promise of an allocator under double
frees. hekate, update and Lockpick reach a menu after every power-on, Lockpick is
started once for each reason to, and the newest hekate with the configuration of the
injected one ends up running. An entry chosen from the menus boots with its own
settings, but for the one that the list menu leaves behind (section 5). A secure monitor is started with
the keys a first launch would have made, whichever launches failed before it; wrong
TSEC keys cost one launch; and unless the user waves a failed patch through, HOS
starts with everything that was asked for and with the game card controller
protected. Parts counted by partial.idx
are complete after any failure, so a finished backup is the whole partition. A
finished restore is the backup over every border of chunks and part files, and
with full verification nothing the card lost goes unnoticed. A created emuMMC is
complete before emummc.ini names it, and flagged unless writing just that flag failed;
creating one leaves the others alone.
Any order of slider moves leaves sizes that fill the card and tables that agree.
The SD card is formatted only after its files were copied, and a file is lost only by an
error of its own copy. Linux and Android are written inside their partitions, and whole
up to a file of 4 GiB. Over USB a host is told the truth about every command; on XUSB, as
long as it does not reset the session and a read is padded in one transfer. An accepted
eject ends the session, and every command ends but for two kinds of writes that spin
(`Spins`, section 5).

The violations are findings; `PROJECT.json` quotes the text each contradicts:

- **Flush stops early** (`nx_emmc_bis.c:138`): the dirty count goes down twice
  per cluster.
- **Retry on another partition** (`sdmmc.c:372`): recovery selects the user
  partition, and a transfer with BOOT0 is repeated there.
- **Two Lockpick revisions** (`main.c:775`): the injected hekate and the update
  overwrite each other's markers and dump at every power-on.
- **Stale partial.idx** (`fe_emmc_tools.c:761`): a backup that began as a partial
  one and ended as a single file leaves it, and the next large backup starts in
  the middle.
- **Files cut short** (`gui_tools_partition_manager.c:199`): files that were counted
  as fitting do not fit the RAM disk in whole clusters.
- **Endless retry** (`gui_tools_partition_manager.c:900`): the retry counter of the
  Linux flasher is never incremented.
- **Fifos not cleared** (`usb_gadget_ums.c:1741`): on XUSB a reset leaves queued data
  behind, which the next read passes off as its own.
- **emuMMC not injected** (`pkg2.c:673`): when another patch is not applied either, it
  is reported instead of the emuMMC, and POWER boots the system's own eMMC.

### Fairness

- `CallsEnd` (`hekate`): weak fairness of the steps of a call. Every polling
  loop below it ends in a timeout, so a call always takes its next step; the
  card may fail every one. No fairness is assumed of the user.
- `BootSettles` (`hekate`): weak fairness of the steps of the running
  program. A hanging library is ended by the watchdog; `_show_errors` waits for
  a key, and the user is assumed to press one. Power cuts, exceptions and misread
  files are bounded by `MaxEvents`, without which no start need ever finish: with
  markers that can be written and never read, hekate starts Lockpick at every boot.
- `SessionsEnd` (`nyx_tools`): weak fairness of the steps of the tool. Reads may
  fail for ever; the retry limit of the code ends the session. The dialog that
  asks about an existing file is assumed to be answered.
- `RestoreEnds` (`nyx_tools`): weak fairness of the steps of the tool, with the
  dialogs answered. Reads and writes may fail for ever.
- `FlashEnds` (`l4t_flash_retry`): weak fairness of the steps of the flasher, which
  never waits for anything else. The violation does not depend on it standing still.
- `EjectEnds`, `CommandEnds` (`usb`): weak fairness of the gadget, whose loop polls
  with timeouts, and of the host taking what it still waits for: `CommandEnds`
  excuses a host that has left, and a write in one of the two states that `Spins`
  describes. No host is assumed to send anything.

The other runs assume none.

## 4. Proofs

All hold for every value of the constants that satisfies the named assumptions
of the modules.

`NxEmmcBisProofs`, from `BisSizes` and `BisValues`:

- `FlushAlwaysHasPart`: `FlushHasPart` is inductive. Only `nx_emmc_bis_init` and
  `nx_emmc_bis_end` change the partition, and after both nothing counts as modified.
- `CacheAlwaysSound`, under `LoadsWork` (clusters can be read into the cache; without
  it the property is false, see section 5): `BisInv` adds to `CacheSound` that a request
  stays inside the partition and that every filled entry is the one the table names
  for its cluster (`Filled`), which is why the entries never outnumber the clusters.
- `DirectWritesAlwaysReachMedium`: without the cache the table is empty and what was
  acknowledged is on the medium (`DirectInv`), with every fault.
- `DirectReadsAreCurrent`: while uncached sessions are of one partition
  (`OneDirectPart`, as Nyx only opens PRODINFO that way) and the security engine does
  not fail, the tweak that a read left behind is that of the next sector (`TweakOf`).
- `ReadsAlwaysCurrent`: with the cache or without it. `HeldIsExpected` says of every
  sector that what the driver holds of it, in the cache or else on the medium, is what
  the caller may expect (`Held`); reads alone say nothing of what a later miss will load.
  The condition `EvictsOdd` is what the proof found the code to need: the loop of a flush
  counts an entry it wrote twice, so an even number of modified clusters comes to zero
  half-way and the rest is lost (run `bis_flush_loss`), while an odd one passes zero, wraps
  and goes on to the end. `OddNeverZero` gives the count at every entry in closed form;
  that the recursion has a value at all is `CountExists`, by a least counterexample. A
  write that fails during the eviction leaves the old content, which the caller expects
  too. In `emmc` the cache has one entry and the condition always holds.

`SdmmcProofs`, from `StorageSizes` and `TuningSizes`:

- `TransferNeverSplit`, `FrontAlwaysSound`: `FrontInv` relates the flags of the front
  end to the driver (`DriverHonest`) and the locals of a transfer to each other, and
  says that everything exchanged since the transfer was last started over came from
  the card in the slot as long as that card is ready (`OneSource`): a swap or a reset
  makes it not ready, so the next attempt fails and the recovery starts over.
- `ScanIsInvariant`, `ProgrammedTapIsStable`: the loop invariant says that an open
  window is a run of stable taps that ends before the current one, and that the best
  window so far is a run around `best_tap`. It is strengthened by `WideEnough`: a scan
  that succeeded found a window of the required size. `CloseScan` is the heart, with
  the tap that closes the last window counted although it may be unstable.

`SdmmcInitProofs`, from `CapsAssumption`:

- `BringUpAlwaysSound`, `LowerModeAlwaysSlower`: `BringUpInv` says for each stage of
  the two sequences in which state, voltage, width and timing host and card are when
  it begins (`Identify`, `Transfer`, `Mmc`, `Ready`), that a failure has a cause
  (`Failed`), and which rate a mode gives a card that supports them all (`Rates`).

`HeapProofs`, from `HeapConstants`, for both builds:

- `HeapIsSound`, `HeapImplementsAbstract`: `HeapInv` joins types,
  the list (`ListIntact`), used magics at used nodes only, merged neighbours, and
  the position of the search on the list (`SearchOnList`), which the build
  without defragmentation needs because it resumes at the last node. `ListIntact`
  alone is not inductive: that a free of a stale address changes nothing needs the
  magics. The list lemmas (`AbsorbList`, `SplitList`, `AppendList`) are about bare
  functions; `AbsorbOK`, `SplitOK` and `AppendOK` lift them to headers. Refinement
  maps the used nodes to the blocks of `HeapAbstract`; `HandsGrants` and
  `FreeFrees` show that a step that hands out or frees a block is one of its steps.

`BootProofs`, from `ChainConstants`, `EntryConstants` and `LaunchInputs`:

- `LockpickStartsBounded`, under `OneRevision` (all images come with the Lockpick on
  the card; without it the property is false, run `boot_two_revisions`): `AccountInv`
  counts the starts of Lockpick against the permissions for it and the misread files.
  Each start is paid for by the attempt marker written before it, whatever is cut short
  afterwards, and a second one by the marker or key file that could not be read.
- `FlagAlwaysConsumed`: the flag is set by `UpdateNewer` alone and cleared on the way to
  every menu; `FlagInv` adds that only Lockpick takes the steps of Lockpick.
- `InjectedAlwaysCarriesOver`: until Lockpick has started an update.bin of its own, the
  running hekate is at least as new as the injected one and has its configuration:
  `CarryInv` adds which program takes which steps, and that Lockpick runs only after
  hekate started it.
- `EmuMMCAlwaysOwn`, `LaunchAlwaysOwn`: `EntryInv` says that the emuMMC configuration
  is that of emummc.ini wherever an entry can be chosen (`EmuLoaded`) and that a boot by
  id goes back to the place that clears the id (`ReasonUsed`); `ForceInv` that the
  force-disable flag is the one of the entry at hand, or left by an entry of the list
  menu (`listed`), which does not take it back (section 5).
- `KeysAlwaysFresh`, `BadKeysAlwaysOnce`: `LaunchInv` says that slot 14 holds the SBK
  while `sbk_is_set` (`SeSound`), which keys are on their way into the slots in each
  phase (`Loading`), that after the key generation the slots are those of a first launch
  or package2 does not open (`Filled`), and that after a refusal no wrong keys are left
  in RAM or on the card (`Cleared`). One lemma per branch of `_hos_keygen` compares the
  slots it leaves with those of a first launch.
- `BootedAlwaysAsAsked`: the patches asked for hold the entry's and those `hos.c` adds
  (`WantedSoFar`), and what `pkg2_patch_kips` reports is what it did (`Reported`). That
  the loop over the KIPs applied every patch it does not report is an induction on their
  number (`PatchKipsRuns`), written as a least counterexample.

`EmmcBackupProofs`, from `BackupSizes` and `RestoreSizes`:

- `ProgressAlwaysSound`, `DoneAlwaysWhole`, `VerifiedAlwaysIntact`: `BackupInv` says
  that the parts partial.idx counts are whole and match (`Paused`), that the file in
  progress is a prefix of its part and ends where the position on the eMMC is
  (`Working`, `OnTrack`), and that backups reported as done are whole (`Done`). The
  second and third were not inductive by themselves: they hold of a session because
  the sessions before it left complete parts.
- `RestoreAlwaysSound`: `RestoreInv` says that the units before `done` are on the
  medium, or lost by it, and those of verified files exactly (`WrittenSoFar`); where
  the copy of several files is, in terms of the sums of their sizes (`InParts`); and
  that no restore on record is in the range of the copy in progress (`OffRecord`),
  which is what keeps `OnRecord`. `ChunkOfParts` shows that a chunk never crosses the
  end of a regular file and that the wrapped byte count still tells when it is reached.
- `EmuAlwaysWhole`: `EmuInv` adds that all parts of an emuMMC go to the first partition
  that is not skipped, when that one has room: `FirstFitFound` shows that
  `_get_valid_partition` finds it whatever the size it is asked for. That the files name
  the emuMMC is claimed when they could be written (`noted`).

`EmummcToolsProofs`, from `EmummcSizes`, `LayoutSizes`, `FlashSizes` and `RepartSizes`:

- `IniAlwaysSound`, `OthersAlwaysKept`: `EmuInv` says which pieces of the image an
  operation has copied (`Making`), that the flag is written before emummc.ini
  (`Flagged`) or is on the record of those that failed (`unflagged`), that RAWn is for partition n, and that a new folder is empty; the second
  is an action property that follows from it, `KeepsOthers` for each step.
- `TablesAlwaysSound`: `LayoutInv` says that the sizes of the sliders add up to the
  device, are multiples of a border and hold at least what they are for (`SlidersOK`),
  and that the tables, once written, are those of these sizes (`TablesOf`).
  `TablesSound` alone is not inductive: that a table fits needs the minimum sizes behind
  the fixed Android partitions, and that the FAT partition keeps its minimum when another
  slider moves. A table is a chain of entries; the chain lemmas (`ChainEntries`,
  `ChainBoth`) say where a chain ends and that two chains laid behind each other are one,
  so the up to thirteen partitions of a table are never enumerated.
- `FlashAlwaysSound`: `FlashInv` says where the flasher is (`Position`: at a multiple
  of a chunk inside a file, or between two), that what is left is what the files still
  have, and that everything before is in its place (`InPlace`). `ChunkFits` shows that
  a chunk never crosses into the next file, because every file but the last is a
  multiple of a chunk, and that the count reaches zero at the end of the last file
  only; a failed write spoils nothing below its own chunk. The claim ends at the first
  file of 4 GiB (`Reached`), behind which `bytesWritten` has wrapped.
- `FilesAlwaysSomewhere`, `ReportAlwaysTrue`: `RepartInv` says which files are where at
  each stage (`WhereFilesAre`). `RoomForNext` is the heart: as long as the promised
  files fit in clusters, the clusters of those already on the RAM disk and of the next
  one together are no more than all of them (`SumsApart`), so the next is not cut short,
  and nothing that happens to the copy of one file (`hit`) changes that for the others.

`UsbUmsProofs`, from `UmsAssumption`, for both controllers:

- `AlwaysInBounds`: the amounts a read or write still has to do are within what the
  command left (`Loops`), and a write begins on a writable, mounted medium.
- `StatusAlwaysSound`: `StatusInv` says that a command is answered once (`OneAnswer`),
  that a reset on its way finds no status the host could still take (`ResetsSafe`),
  that a failure told or queued has its sense data (`SenseThere`), and, for XUSB, that
  gadget and host are in step until the host resets (`InStep`).
- `CswAlwaysHonest`: `HonestInv` follows the data of one command. In the loops what was
  moved and what is left make up the command (`Moving`), and what a read has sent is what
  the host took and the one chunk in flight (`Reading`); a command worked off has moved
  what its status will claim (`Pending`, `Finishing`, `Last`); a status in the FIFO or
  taken by the host is true of it (`OnTheWay`, `Taken`). It needs both theorems before it:
  the bounds, and that a status on its way is that of the outstanding command. The claim
  ends where `CswHonest` ends it: on XUSB at a reset (run `usb_fifo_not_cleared`) and for
  reads padded in more than one transfer, on USB2 for a write the host cut short. The
  rounds of the padding are `FirstPad` and `PadMoreHonest`.

Every assumption above is one the code justifies (sizes are natural numbers, a split
is a multiple of a chunk, lists have the shape the parser gives them) and is evaluated
by TLC on the instances; the conditional theorems name theirs.

Only model-checked:

- liveness (`CallsEnd`, `BootSettles`, `SessionsEnd`, `RestoreEnds`, `EjectEnds`,
  `CommandEnds`), which is beyond the prover;
- `ReadsAreCurrent` with loads into the cache that fail, or evictions of an even number
  of modified clusters: it is false there, and no run claims it.

## 5. Divergences met while modelling

Behaviour of the code that surprised us and that no run is about:

- A BIS cache full of clean clusters is not emptied by a flush, and the next miss
  goes past the array (`nx_emmc_bis.c:205`). The model gives the entries room for
  every cluster.
- A failed read of a cluster into the cache leaves its lookup entry behind
  (`nx_emmc_bis.c:212`); `emmc` therefore lets reads fail only without the cache.
- The saved tweak of uncached reads is not keyed by partition (`nx_emmc_bis.c:147`).
  Only PRODINFO is opened without the cache, so this is not reachable today.
- `sdmmc_storage_end` returns early when CMD0 cannot be sent, and the power cycle
  that callers count on is skipped (`sdmmc.c:284`, `sd.c:95`).
- The comment "Reset to max." of `sd_init_retry` does not describe its case: a mode
  that has fallen to SD_INIT_FAIL makes the call fail (`sd.c:105`).
- Recoveries of the eMMC are counted on the counters of the SD card (`sdmmc.c:364`,
  `sd.c:34`).
- SDR82 is set up with the timing of SDR104; the fallback keeps the rate
  (`sdmmc.c:1560`). `LowerModeIsSlower` allows an equal rate for this reason.
- The widest window of a tap scan may be one shorter than counted
  (`sdmmc_driver.c:692`, `sdmmc_driver.c:727`). `TapIsStable` says so.
- An update.bin that a power cut left without a valid header is never replaced
  (`main.c:118`, `main.c:135`).
- Leaving the payload menu unmounts the card, and an entry of the menu above is
  then refused with "emupath is wrong!" (`main.c:295`, `main.c:518`).
- `emmc_set_partition` is not checked by the backup (`fe_emmc_tools.c:842`): BOOT0
  may be backed up, and verified, from the partition selected before.
- "Finished and verified!" depends on the last partition and the setting only
  (`fe_emmc_tools.c:949`): a failed BOOT0 or a cancelled verification does not
  change it.
- `f_close(&hashFp)` runs for a file object that was never opened
  (`fe_emmc_tools.c:325`).
- Callers of `calloc` could overflow the 32-bit product (`heap.c:181`) and a new heap
  node is not checked against the end of memory (`heap.c:104`); the model bounds the
  growth with `Limit`.
- Power lost between autokeys.request and Lockpick leaves the request behind, and a
  Lockpick started by hand later dumps silently (`main.c:797`).
- The list menu leaves `emummc_force_disable` of a returned entry set (`main.c:366`),
  where the menu of the main file resets it (`main.c:573`), although README.md:242
  makes it a key of one entry. `ForceIsOwn` excuses entries chosen after such a one.
- A marker or key file that cannot be read counts as missing (`main.c:756`, `main.c:770`),
  and Lockpick is started although it has run.
- The emuMMC a reboot reason names may not exist: the entry then boots with the one
  of emummc.ini (`main.c:1068`).
- A write that fails during a BIS flush loses the cluster (`nx_emmc_bis.c:141`).
- A partial backup of a partition of at most 4 GiB starts over each time
  (`fe_emmc_tools.c:431`).

Launching HOS:

- The nogc patch too can be hidden behind another one that is not applied: the user is
  asked about the first name only, although the controller is then updated
  (`hos.c:1022`). `BootedAsAsked` excuses a boot the user waved through.
- `parse_pkg3` reads `ctxt->pkg1_id->mkey` (`pkg3.c:137`), but package1 is identified
  only after the entry was parsed.
- For a package2 of an invalid size `_read_emmc_pkg2` returns a buffer and leaves
  `ctxt->pkg2` NULL (`hos.c:634`): address 0 is "decrypted", and the EKS is cleared.
- "Continue with current SE keys" (`hos.c:326`) is also taken for another entry and
  another firmware than the one the keys were made for; a package1 of 6.2.0 is then
  unpacked although nothing decrypted it. `KeysAsFresh` excuses these launches.
- The reads of package1 and of its eks are not checked (`hos.c:556`, `hos.c:602`).
- `pkg1_warmboot_config` reads through `warmboot_fw` before it compares it with NULL
  (`pkg1.c:375`).
- `_hos_eks_clear` encrypts the blob with whatever slot 14 holds (`hos.c:269`).

Restoring:

- Only the first part file is checked to be a multiple of 4 MiB
  (`fe_emmc_tools.c:1071`); an uneven one in the middle shifts what follows,
  and `bytesWritten`, a u32, wraps in parts of 4 GiB. `Regular` excludes both.
- "Only the 1st emuMMC found can be restored!" (`fe_emmc_tools.c:1428`): any partition
  that is not Linux counts as one (`:60`). The room asked for is the total and 0x8000
  sectors, but the area goes up to 0xC000 more; BOOT and RAW may choose different
  partitions. `EmuIsWhole` assumes a first partition with room for all (`FirstFits`).
- Writing raw_based and emummc.ini is not checked (`fe_emmc_tools.c:1397`,
  `fe_emummc_tools.c:83`): the restore is reported as done although emummc.ini is
  empty or names the emuMMC chosen before.
- "Finished and verified!" has the same weakness as in the backup.

emuMMC tools:

- The result of creating a flag file is ignored (`fe_emummc_tools.c:489`, `:952`,
  `gui_emummc_tools.c:416`), and emummc.ini then names an emuMMC that no entry can
  choose by its path and that the list of emuMMCs does not show.
- With SD00 to SD99 taken, SD99 is used again; migrated backups are flagged in BK00
  whatever folder they went to (`gui_emummc_tools.c:461`, `:508`). `OthersKept`
  excuses the first; with the second emummc.ini names BK00, not the migrated folder.
- At most 32 part files are migrated. "Fix RAW" accepts a partial image.
- Cancelling a re-creation leaves emummc.ini on a destroyed image.
- The partition gets its type before the resized USER is formatted, and a failing
  format returns without `nx_emmc_bis_end` and `hos_bis_keys_clear`.

Partition manager:

- Cards below 2 GiB and 16 MiB, and eMMCs below 15 GB, wrap the unsigned slider sizes.
- On the eMMC partitions are aligned to 8 MiB only, as HOS USER starts at 2680 MiB.
- `no_hos_user_part` is reached before the GPT list is initialised, and the list is
  freed there; a failing format of the eMMC leaves BIS writes on and keys in place.
- Paths of more than 1024 characters are skipped silently and payload.bin is not
  counted. Errors of opening, reading and writing the files that are copied
  (`gui_tools_partition_manager.c:222`), and of mounting the card again (`:1748`,
  `:1775`), are not looked at: the card is formatted, and "Done!" is reported although
  nothing was restored. Power lost between formatting and restoring loses the files: the
  only copy is in memory.
- `bytesWritten` of the Linux flasher has 32 bits (`gui_tools_partition_manager.c:841`).
  An `l4t.NN` of 4 GiB or more, on exFAT, is never used up; the next one is not opened,
  and old contents of the buffer are flashed in its place and reported as success.
- The Android flasher copies past its buffer for short images and deletes an image
  without looking at the result of its write. An empty `l4t.NN` in the middle is
  read from.
- Hybrid MBR repair (`_action_fix_mbr_gpt`, not modelled): with only the second emuMMC
  different, the first GPT entry is "fixed", and the repair never converges; the
  comparison ends at the first difference that is not an emuMMC; the copy of the GPT
  header keeps its number of entries when entries are removed.

USB:

- A write that reaches the last sector in the middle of a transfer spins
  (`usb_gadget_ums.c:588`), and so does one whose length is no multiple of a sector, as
  the partial block is cut off (`:648`) and never counted as written. `CommandEnds` names
  these two states (`Spins`) and no other.
- `_pad_with_zeros` clears the shared buffer before each round (`usb_gadget_ums.c:1413`).
  On XUSB a transfer that timed out is still queued then, and the host takes zeros for
  the end of a read that passes. `CswHonest` excuses reads padded in several rounds.
- On XUSB a command block with a wrong signature leaves `cbw_req_queued` set, and the
  loop spins without reading, against "accept and discard any data received until
  the next reset".
- `_handle_exception` clears `prevent_medium_removal` before it is looked at, so
  "Disk unsafely ejected" is never shown. With it set and the cable pulled, nothing
  ends the session.
- A synchronous OUT read on USB2 reports the length asked for, so a short packet
  writes what the buffer held before. `_throw_away_data` drains one buffer only.
- `usb_device_ep1_in_writing_finish` drops a bulk reset and waits without a timeout.
- A command that arrives in the round of a reset is dropped, or executed and never
  answered.

Joy-Con (`joycon.c`, not modelled):

- After 1800 ms of silence `_jc_conn_init` says "Mask out buttons and set connected
  to false." (line 1264) and clears only `jc_gamepad.conn_l` or `conn_r`;
  `jc->connected` stays, and the next input report of the other controller copies it
  back (lines 737-738).
- `_jc_conn_check` does not reset `state` of a controller that was pulled. One pulled
  in `JC_STATE_HID_CONN` keeps `_jc_send_enable_rumble` (lines 1031-1034) waiting for
  it, for as long as it stays away.

## 6. Not modelled

FatFS, LittlevGL and the decompressors are third-party code. Display, touch, fan,
thermal sensors, PMIC, charger and clocks are register programming without
decisions of their own; the memory training measures hardware. Windows and
drawing of Nyx, ini and directory parsing, and the ELF loader are represented by
their outcomes. Of `EmmcBackup`, the search for the emuMMC partition in the MBR is
an outcome, and a card whose size class changes between two sessions (parts of
1 GiB instead of 2 GiB) is left out. Of the partition manager, the flow around the
eMMC table and the hybrid MBR repair are left out; of USB, enumeration, control
transfers beyond reset and disconnection, and the HID gadget. Of the launch of HOS,
the contents of a pkg3, the kernel patches, the set-up of Exosphere and the layout of
the rebuilt package2 are left out, and a secure monitor that is not Exosphere is not
offered. The launch of L4T is a fixed sequence of memory and register set-up.

The lines the modules stand for are therefore a small share of the repository's:
the libraries under `bdk/libs`, the memory training modules under `modules` with
their tables, the register headers of every driver and the windows of Nyx are most
of it, and hold little state whose order could go wrong.

## 7. Plan

Done, in this order: `NxEmmcBis`, `SdmmcStorage`, `SdmmcInit` with `SdmmcTuning`,
`HeapAbstract` and `Heap`, `BootChain`, `BootEntry`, `EmmcBackup`, `EmmcRestore`,
`EmummcTools`, `PartLayout`, `SdRepartition`, `PartFlash`, `UsbUms`, `HosLaunch`.

Next modules:

1. `HybridMbr`: the comparison and repair of MBR and GPT.
2. `UsbEnum`: the control endpoint of both controllers.
3. `HosLaunch` joined to `BootEntry` at `LaunchHos`, with pkg3 and `L4tLaunch`.
4. `Joycon`, `Minerva`, `Irq` and `LowBattery`: handshakes and timeouts, the
   frequency switch, the handler table, the charging loop.

Abstract specifications worth stating: an encrypted disk for `NxEmmcBis` without
faults, a block device for `SdmmcStorage`, and a SCSI target for the gadget.

Theorems proved: the 35 listed in `PROJECT.json`, described in section 4. Next: the
refinements of the abstract specifications above.
