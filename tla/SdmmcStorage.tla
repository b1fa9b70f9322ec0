--------------------------- MODULE SdmmcStorage ---------------------------
(***************************************************************************)
(* The front end of one memory card: initialisation with fallback to       *)
(* slower modes, mounting, and sector transfers with retries and recovery  *)
(* (bdk/storage/sd.c, emmc.c and the generic part of sdmmc.c).  Both    *)
(* cards run the same code; kind says which one a behaviour is about.      *)
(*                                                                         *)
(* Abstractions.  The command sequence of sdmmc_storage_init_sd and        *)
(* sdmmc_storage_init_mmc is one step with every outcome the code tells    *)
(* apart (module SdmmcInit opens it up).  A transfer records, for each     *)
(* sector of the caller's buffer, the card and the eMMC hardware partition *)
(* it was last exchanged with.  Calls run to completion one at a time; the *)
(* user may pull and insert SD cards between any two steps.                *)
(***************************************************************************)
EXTENDS Integers, FiniteSets

CONSTANTS
    Kinds,        \* the front ends to check, of "sd" and "emmc"
    Cards,        \* the SD cards of the user
    Chip,         \* the one eMMC
    NumSectors,   \* sec_cnt
    AMax,         \* SDMMC_AMAX_BLOCKNUM, the longest single transfer
    IoRetries,    \* 5: attempts before the first recovery
    ReinitTries,  \* 3: attempts after a recovery
    FlakyHosts,   \* may the host controller fail (clock, stuck CMD line)?
    CardFaults    \* may commands to a good card fail?

ASSUME StorageSizes ==
    /\ Kinds \subseteq {"sd", "emmc"}
    /\ NumSectors \in Nat \ {0} /\ AMax \in Nat \ {0}
    /\ IoRetries \in Nat \ {0} /\ ReinitTries \in Nat \ {0}
    /\ FlakyHosts \subseteq BOOLEAN /\ CardFaults \in BOOLEAN

None == "none"
INIT_FAIL == 0
DEFAULT_SPEED == 4      \* SD_UHS_SDR104, EMMC_MMC_HS400
U32Wrap == 5            \* stands for 0xFFFFFFFF, a mode no case names
GPP == 0
BOOT0 == 1

Parts == {GPP, BOOT0}
AllSectors == 0 .. NumSectors - 1

VARIABLES
    kind,        \* which front end this is
    flaky,       \* whether its host controller may fail
    mode,        \* sd_mode, emmc_mode
    init_done,   \* sd_init_done
    insertion_event, \* a card was initialised since the last sd_end
    mounted,     \* sd_mounted
    fs,          \* the card whose file system sd_fs describes
    drv,         \* sdmmc_storage_t, sdmmc_t and the state they put the card in
    card,        \* the card in the slot
    pc,          \* where the call in progress is
    init_for,    \* the caller of the initialisation in progress
    res,         \* res of the loop in sd_initialize; the last value returned
    io,          \* the transfer in progress
    from         \* history: what each buffer sector was exchanged with

fe == <<init_done, insertion_event, mounted, fs>>

frontVars == <<kind, flaky, mode, fe, drv, card, pc, init_for, res, io, from>>

NoIo == [sector |-> 0, num |-> 0, off |-> 0, total |-> 0, retries |-> 0,
         first |-> TRUE, sel |-> GPP, then |-> "caller"]

Nowhere == [s \in AllSectors |-> <<None, GPP>>]

FrontInit ==
    /\ kind \in Kinds /\ flaky \in FlakyHosts
    /\ mode = DEFAULT_SPEED
    /\ init_done = FALSE /\ insertion_event = FALSE /\ mounted = FALSE /\ fs = None
    /\ drv = [initialized |-> FALSE, partition |-> GPP, clk |-> FALSE,
              ready |-> FALSE, cpart |-> GPP]
    /\ card \in IF kind = "sd" THEN Cards \cup {None} ELSE {Chip}
    /\ pc = "idle" /\ init_for = "caller" /\ res = 0
    /\ io = NoIo /\ from = Nowhere

----------------------------------------------------------------------------
(* The driver below the front end.                                         *)

\* sdmmc_storage_end: when CMD0 cannot be sent it returns before sdmmc_end,
\* the clock keeps running and the storage stays initialized.
Ended(d) ==
    LET off == [d EXCEPT !.ready = FALSE, !.cpart = GPP, !.clk = FALSE,
                         !.initialized = FALSE]
    IN  (IF d.clk THEN {off} ELSE {}) \cup (IF ~d.clk \/ flaky THEN {d} ELSE {})

\* sdmmc_storage_init_sd and sdmmc_storage_init_mmc: the set of results.
Attempted(d) ==
    LET zero  == [d EXCEPT !.initialized = FALSE, !.partition = GPP,  \* memset of both structs
                           !.clk = FALSE]
        sent  == [zero EXCEPT !.clk = TRUE, !.ready = FALSE, !.cpart = GPP]
        ok    == [sent EXCEPT !.ready = TRUE, !.initialized = TRUE]
    IN  IF card = None THEN {[drv |-> zero, res |-> 1]}
        ELSE {[drv |-> ok, res |-> 0]}
             \cup (IF flaky THEN {[drv |-> zero, res |-> 1]} ELSE {})
             \cup (IF CardFaults THEN {[drv |-> sent, res |-> 1]} ELSE {})

----------------------------------------------------------------------------
(* Initialisation.                                                         *)

Lower(m) == IF m = 0 THEN U32Wrap ELSE m - 1

\* sd_init_retry, emmc_init_retry: the results, from the driver states ds and
\* mode m.  SD_INIT_FAIL returns at once and leaves sd_init_done as it was.
InitRetry_KeepsDone(ds, m) ==
    IF m = INIT_FAIL
      THEN {[mode |-> m, drv |-> d, res |-> 1, done |-> init_done] : d \in ds}
      ELSE {[mode |-> IF m = U32Wrap THEN DEFAULT_SPEED ELSE m, drv |-> a.drv,
             res |-> a.res, done |-> a.res = 0 \/ init_done] :
             a \in UNION {Attempted(d) : d \in ds}}

InitRetry(ds, m) ==
    IF m = INIT_FAIL
      THEN {[mode |-> m, drv |-> d, res |-> 1, done |-> init_done] : d \in ds}
      ELSE {[mode |-> IF m = U32Wrap THEN DEFAULT_SPEED ELSE m, drv |-> a.drv,
             res |-> a.res, done |-> a.res = 0] :
             a \in UNION {Attempted(d) : d \in ds}}

\* Only sd.c keeps sd_init_done.
Apply(r) ==
    /\ mode' = r.mode /\ drv' = r.drv /\ res' = r.res
    /\ init_done' = IF kind = "sd" THEN r.done ELSE init_done
    /\ insertion_event' = (insertion_event \/ (kind = "sd" /\ r.res = 0))

\* The entry of sd_initialize and emmc_initialize, up to the loop.  Only
\* emmc_initialize takes a failed mode back to the fastest one.
Initialize(power_cycle, caller) ==
    LET m == IF kind = "emmc" /\ mode = INIT_FAIL THEN DEFAULT_SPEED ELSE mode IN
    /\ pc' = "init" /\ init_for' = caller
    /\ \E r \in InitRetry(IF power_cycle THEN Ended(drv) ELSE {drv}, m) :
          Apply(r)

Leave(r) == pc' = "initdone" /\ res' = r /\ UNCHANGED init_for

\* One turn of the loop of sd_initialize and emmc_initialize.
InitLoop ==
    /\ pc = "init"
    /\ \/ /\ res = 0
          /\ Leave(0)
          /\ UNCHANGED <<mode, drv, init_done, insertion_event>>
       \/ /\ res # 0 /\ kind = "sd" /\ card = None
          /\ mode' = DEFAULT_SPEED
          /\ drv' \in Ended(drv)
          /\ Leave(1)
          /\ UNCHANGED <<init_done, insertion_event>>
       \/ /\ res # 0 /\ (kind = "emmc" \/ card # None)
          /\ IF mode = INIT_FAIL
               THEN /\ drv' \in Ended(drv)
                    /\ Leave(1)
                    /\ UNCHANGED <<mode, init_done, insertion_event>>
               ELSE /\ \E r \in InitRetry(Ended(drv), Lower(mode)) : Apply(r)
                    /\ UNCHANGED <<pc, init_for>>
    /\ UNCHANGED <<mounted, fs, card, io, from>>

\* The direct call of sd_initialize(false) and of emmc_initialize(false).
sd_initialize ==
    /\ pc = "idle"
    /\ kind = "sd" => ~init_done
    /\ Initialize(FALSE, "caller")
    /\ UNCHANGED <<mounted, fs, card, io, from>>

InitReturns ==
    /\ pc = "initdone" /\ init_for = "caller"
    /\ pc' = "idle"
    /\ UNCHANGED <<mode, fe, drv, card, init_for, res, io, from>>

----------------------------------------------------------------------------
(* Mounting the SD card.                                                   *)

StartIo(sector, num, then) ==
    /\ from' = Nowhere
    /\ IF ~drv.initialized \/ sector + num > NumSectors
         THEN pc' = "iodone" /\ res' = 1 /\ io' = [NoIo EXCEPT !.then = then]
         ELSE /\ pc' = "io" /\ UNCHANGED res
              /\ io' = [sector |-> sector, num |-> num, off |-> sector, total |-> num,
                        retries |-> IoRetries, first |-> TRUE, sel |-> drv.cpart,
                        then |-> then]

\* f_mount reads the boot sector through the same transfers.
FMount == StartIo(0, 1, "mount")

sd_mount ==
    /\ kind = "sd" /\ pc = "idle"
    /\ \/ /\ init_done /\ mounted
          /\ res' = 0
          /\ UNCHANGED <<mode, init_done, insertion_event, drv, pc, init_for, io, from>>
       \/ /\ ~init_done
          /\ Initialize(FALSE, "mount")
          /\ UNCHANGED <<io, from>>
       \/ /\ init_done /\ ~mounted
          /\ FMount
          /\ UNCHANGED <<mode, init_done, insertion_event, drv, init_for>>
    /\ UNCHANGED <<mounted, fs, card>>

MountAfterInit ==
    /\ pc = "initdone" /\ init_for = "mount"
    /\ IF res = 0 /\ ~mounted
         THEN FMount
         ELSE pc' = "idle" /\ UNCHANGED <<io, from, res>>
    /\ UNCHANGED <<mode, fe, drv, card, init_for>>

\* f_mount is back: with the sector read it still decides whether it holds a
\* file system.
MountReturns ==
    /\ pc = "iodone" /\ io.then = "mount"
    /\ pc' = "idle" /\ io' = NoIo
    /\ \/ /\ res = 0
          /\ mounted' = TRUE /\ fs' = from[0][1]
          /\ UNCHANGED res
       \/ res' = 1 /\ UNCHANGED <<mounted, fs>>
    /\ UNCHANGED <<mode, init_done, insertion_event, drv, card, init_for, from>>

\* _sd_deinit: sd_unmount and sd_end.
_sd_deinit(deinit) ==
    /\ kind = "sd" /\ pc = "idle"
    /\ mode' = IF deinit /\ mode = INIT_FAIL THEN DEFAULT_SPEED ELSE mode
    /\ IF deinit /\ init_done
         THEN drv' \in Ended(drv) /\ init_done' = FALSE
         ELSE UNCHANGED <<drv, init_done>>
    /\ insertion_event' = (insertion_event /\ ~deinit)
    /\ mounted' = FALSE /\ fs' = None
    /\ UNCHANGED <<card, pc, init_for, res, io, from>>

emmc_end ==
    /\ kind = "emmc" /\ pc = "idle"
    /\ drv' \in Ended(drv)
    /\ UNCHANGED <<mode, fe, card, pc, init_for, res, io, from>>

\* sdmmc_storage_set_mmc_partition: the switch may take effect although the
\* status check after it fails.
emmc_set_partition(p) ==
    /\ kind = "emmc" /\ pc = "idle"
    /\ \/ /\ drv.ready
          /\ drv' = [drv EXCEPT !.cpart = p, !.partition = p] /\ res' = 0
       \/ /\ ~drv.ready \/ CardFaults
          /\ drv' \in {drv} \cup (IF drv.ready THEN {[drv EXCEPT !.cpart = p]} ELSE {})
          /\ res' = 1
    /\ UNCHANGED <<mode, fe, card, pc, init_for, io, from>>

----------------------------------------------------------------------------
(* Transfers: _sdmmc_storage_readwrite.                                    *)

sdmmc_storage_readwrite(sector, num) ==
    /\ pc = "idle"
    /\ StartIo(sector, num, "caller")
    /\ UNCHANGED <<mode, fe, drv, card, init_for>>

Chunk_NoClip == AMax

Chunk == IF io.total < AMax THEN io.total ELSE AMax

\* One _sdmmc_storage_readwrite_ex.
IoAttempt ==
    /\ pc = "io"
    /\ \/ /\ drv.ready /\ drv.clk /\ card # None
          /\ from' = [s \in AllSectors |-> IF s \in io.off .. io.off + Chunk - 1
                                              THEN <<card, drv.cpart>> ELSE from[s]]
          /\ io' = [io EXCEPT !.off = @ + Chunk, !.total = @ - Chunk,
                              !.retries = IoRetries]
          /\ IF io.total = Chunk THEN pc' = "iodone" /\ res' = 0
                                 ELSE UNCHANGED <<pc, res>>
      
       \/ /\ CardFaults \/ ~drv.ready \/ card = None
          /\ io' = [io EXCEPT !.retries = @ - 1]
          /\ pc' = IF io.retries = 1 THEN "ioerr" ELSE pc
          /\ UNCHANGED <<res, from>>
    /\ UNCHANGED <<mode, fe, drv, card, init_for>>

\* The transfer starts over after a successful recovery.
Restarted_Resumes ==
    [io EXCEPT !.retries = ReinitTries, !.first = FALSE]

Restarted_StillFirst ==
    [io EXCEPT !.off = io.sector, !.total = io.num, !.retries = ReinitTries]

Restarted ==
    [io EXCEPT !.off = io.sector, !.total = io.num, !.retries = ReinitTries,
               !.first = FALSE]

\* _sdmmc_storage_handle_io_error, the first time: full initialisation.
IoFirstReinit ==
    /\ pc = "ioerr" /\ io.first
    /\ Initialize(TRUE, "io")
    /\ UNCHANGED <<mounted, fs, card, io, from>>

IoAfterInit ==
    /\ pc = "initdone" /\ init_for = "io"
    /\ IF res = 0 THEN pc' = "io" /\ io' = Restarted
                  ELSE pc' = "iodone" /\ UNCHANGED io
    /\ UNCHANGED <<mode, fe, drv, card, init_for, res, from>>

\* _sdmmc_storage_handle_io_error, later: one attempt at the next lower mode.
IoReinit ==
    /\ pc = "ioerr" /\ ~io.first
    /\ \E r \in InitRetry(Ended(drv), Lower(mode)) :
         /\ Apply(r)
         /\ IF r.res = 0 THEN pc' = "io" /\ io' = Restarted
                         ELSE pc' = "iodone" /\ UNCHANGED io
    /\ UNCHANGED <<mounted, fs, card, init_for, from>>

IoReturns ==
    /\ pc = "iodone" /\ io.then = "caller"
    /\ pc' = "idle" /\ io' = NoIo
    /\ UNCHANGED <<mode, fe, drv, card, init_for, res, from>>

----------------------------------------------------------------------------
(* The user.                                                               *)

Swap(c) ==
    /\ kind = "sd" /\ c # card
    /\ c = None \/ card = None
    /\ card' = c
    /\ drv' = [drv EXCEPT !.ready = FALSE]
    /\ UNCHANGED <<mode, fe, pc, init_for, res, io, from>>

CallStep == InitLoop \/ InitReturns \/ MountAfterInit \/ MountReturns \/ IoAttempt
            \/ IoFirstReinit \/ IoAfterInit \/ IoReinit \/ IoReturns

Call ==
    \/ sd_initialize
    \/ sd_mount
    \/ \E deinit \in BOOLEAN : _sd_deinit(deinit)
    \/ emmc_end
    \/ \E p \in Parts : emmc_set_partition(p)
    \/ \E s \in AllSectors, n \in 1 .. NumSectors : sdmmc_storage_readwrite(s, n)

User == \E c \in Cards \cup {None} : Swap(c)

FrontNext ==
    /\ Call \/ CallStep \/ User
    /\ UNCHANGED <<kind, flaky>>

FrontSpec == FrontInit /\ [][FrontNext]_frontVars

\* A call in progress keeps running: every loop of the code has a timeout.
FrontFairSpec == FrontSpec /\ WF_frontVars(CallStep /\ UNCHANGED <<kind, flaky>>)

----------------------------------------------------------------------------
(* Properties.                                                             *)

Where == (Cards \cup {Chip, None}) \X Parts

\* State and counters stay in their ranges; in particular the u32 mode never
\* wraps below SD_INIT_FAIL on the way down.
FrontTypeOK ==
    /\ mode \in INIT_FAIL .. DEFAULT_SPEED
    /\ init_done \in BOOLEAN /\ insertion_event \in BOOLEAN /\ mounted \in BOOLEAN
    /\ fs \in Cards \cup {None} /\ card \in Cards \cup {Chip, None}
    /\ drv \in [initialized : BOOLEAN, partition : Parts, clk : BOOLEAN,
                ready : BOOLEAN, cpart : Parts]
    /\ pc \in {"idle", "init", "initdone", "io", "ioerr", "iodone"}
    /\ init_for \in {"caller", "mount", "io"} /\ res \in {0, 1}
    /\ io \in [sector : AllSectors, num : 0 .. NumSectors, off : 0 .. NumSectors,
               total : 0 .. NumSectors, retries : Nat, first : BOOLEAN, sel : Parts,
               then : {"caller", "mount"}]
    /\ from \in [AllSectors -> Where]

Done == pc = "iodone" /\ res = 0

\* A transfer that succeeds exchanged all its sectors with one and the same
\* card and hardware partition, however often it was interrupted by a recovery
\* that changed either.
TransferNotSplit ==
    Done => \E w \in Where : w[1] # None /\
              \A s \in io.sector .. io.sector + io.num - 1 : from[s] = w

\* With a working host, sd_init_done is only ever wrong in one way: it stays set
\* when a recovery runs out of modes, so sd_mount still reports a mounted card.
InitDoneHonest ==
    pc = "idle" /\ ~flaky /\ kind = "sd" /\ init_done /\ ~drv.initialized => mode = INIT_FAIL

\* Together: the flags and counters of the front end describe the driver.
FrontSound == FrontTypeOK /\ InitDoneHonest

\* Every initialisation and every transfer ends, whatever the card does: each
\* recovery but the first lowers the mode.
CallsEnd == pc # "idle" ~> pc = "idle"

\* "Reset values for a retry." (sdmmc.c): what is retried after a recovery is the
\* transfer that was asked for, on the hardware partition selected for it.
RetryOnSelectedPartition ==
    Done => \A s \in io.sector .. io.sector + io.num - 1 : from[s][2] = io.sel

=============================================================================
