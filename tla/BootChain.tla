----------------------------- MODULE BootChain -----------------------------
(***************************************************************************)
(* The chain of programs a power-on runs through before the user sees a    *)
(* menu: the injected hekate, the newer hekate in bootloader/update.bin    *)
(* and the bundled Lockpick, each started by the one before                *)
(* (ipl_main, _autokeys_run, _check_for_updated_bootloader, _launch_payload*)
(* and is_ipl_updated of bootloader/main.c; the exception restart of       *)
(* bdk/exception_handlers.S).  They share the files on the SD card, which  *)
(* outlive a power cut, and EMC_SCRATCH0, which outlives a chainload.      *)
(*                                                                         *)
(* A hekate image is its version, together with whether it carries the     *)
(* reserved configuration of the injected one.  Every image runs the code  *)
(* modelled here; only AUTOKEYS_VERSION differs.  A file is written in one *)
(* step that may fail or be cut short.                                     *)
(***************************************************************************)
EXTENDS Integers, FiniteSets

CONSTANTS
    Versions,      \* the versions of hekate around, naturals
    Injected,      \* the version an injector or modchip starts
    Tag(_),        \* AUTOKEYS_VERSION of a version of hekate
    LockpickTag,   \* the revision Lockpick writes to autokeys.version
    TooBig,        \* versions whose image exceeds 0x30000 bytes
    FileFaults,    \* may a file operation fail?
    MaxEvents      \* bound: power cuts, exceptions, user repairs and misread markers

ASSUME ChainConstants ==
    /\ Versions \subseteq Nat /\ Injected \in Versions /\ TooBig \subseteq Versions
    /\ FileFaults \in BOOLEAN /\ MaxEvents \in Nat
    /\ Injected \notin TooBig

Program(n) == [ver |-> n, rcfg |-> FALSE]
Absent == Program(-1)
Broken == Program(-2)   \* cut short: no valid magic
PowerOff == Program(-3)
Lockpick == Program(-4)

NoMarker == "none"
BadMarker == "bad"      \* cut short

Tags == {Tag(v) : v \in Versions} \cup {LockpickTag}
Image == [ver : Versions, rcfg : BOOLEAN]
File == Image \cup {Absent, Broken}

VARIABLES
    autokeys,  \* [config] autokeys of hekate_ipl.ini
    bundle,    \* bootloader/sys/lockpick.bin exists
    running,   \* the program in control: an Image, Lockpick or Off
    boot_pc,        \* its next step
    update,    \* bootloader/update.bin
    keys,      \* are prod.keys or dev.keys present?
    marker,    \* autokeys.version and autokeys.attempt: NoMarker, BadMarker or a tag
    request,   \* does autokeys.request exist?
    upd,       \* EMC_HEKA_UPD
    excp,      \* EXCP_TYPE_ADDR while EXCP_EN_ADDR holds the magic
    saved,     \* autokeys_saved of Lockpick
    dumps,     \* history: how often autokeys started Lockpick, per AUTOKEYS_VERSION
    allowed,   \* history: how often it was entitled to
    misreads,  \* history: checks of keys and markers that failed to see what is there
    viaLp,     \* history: Lockpick was started since the power came on
    events     \* power cuts, exceptions, user repairs and misreads so far

files == <<autokeys, bundle, update, keys, marker, request>>
history == <<dumps, allowed, misreads, viaLp, events>>
chainVars == <<running, boot_pc, files, upd, excp, saved, history>>

Injected_ == [ver |-> Injected, rcfg |-> TRUE]

ChainInit ==
    /\ running = PowerOff /\ boot_pc = "off"
    /\ update \in [ver : Versions, rcfg : {FALSE}] \cup {Absent}
    /\ autokeys \in BOOLEAN /\ bundle \in BOOLEAN /\ keys \in BOOLEAN
    /\ marker = [version |-> NoMarker, attempt |-> NoMarker]
    /\ request = FALSE /\ upd = FALSE /\ excp = "none" /\ saved = FALSE
    /\ dumps = [t \in Tags |-> 0] /\ allowed = 1 /\ misreads = 0 /\ viaLp = FALSE /\ events = 0

Event == events < MaxEvents /\ events' = events + 1

----------------------------------------------------------------------------
(* Start of ipl_main.                                                      *)

\* A cold boot: registers and IRAM are lost.
PowerOn ==
    /\ boot_pc = "off"
    /\ running' = Injected_ /\ boot_pc' = "mount"
    /\ upd' = FALSE /\ excp' = "none" /\ saved' = FALSE /\ viaLp' = FALSE
    /\ UNCHANGED <<files, dumps, allowed, misreads, events>>

Hekate == running \notin {PowerOff, Lockpick}

Go(next) == boot_pc' = next /\ UNCHANGED running

\* sd_mount; without an SD card everything up to the menu is skipped.
MountSd ==
    /\ boot_pc = "mount"
    /\ Go("libs") \/ (FileFaults /\ Go("nosd"))
    /\ UNCHANGED <<files, upd, excp, saved, history>>

\* watchdog_fired: LP0 and Minerva are skipped after a hang in them.
SkipLibs_Never == FALSE

SkipLibs == excp = "WDT"

\* libsys_lp0 and minerva_init under the watchdog, whose FIQ restarts ipl_main.
LoadLibs ==
    /\ boot_pc \in {"libs", "nosd"}
    /\ \/ /\ boot_pc' = IF boot_pc = "libs" THEN "errors" ELSE "errors_nosd"
          /\ UNCHANGED excp
       \/ /\ FileFaults /\ ~SkipLibs
          /\ boot_pc' = "mount" /\ excp' = "WDT"
    /\ UNCHANGED <<running, files, upd, saved, history>>

\* _show_errors waits for a key and clears the exception.
_show_errors ==
    /\ boot_pc \in {"errors", "errors_nosd"}
    /\ excp' = "none"
    /\ Go(IF boot_pc = "errors" THEN "autokeys" ELSE "menu")
    /\ UNCHANGED <<files, upd, saved, history>>

----------------------------------------------------------------------------
(* _autokeys_run.                                                          *)

\* _autokeys_marker_matches, when the marker can be read.
MarkerMatches(m) == m = Tag(running.ver)

\* Either key file with a size, and the marker of the revision.
HaveKeys == keys /\ MarkerMatches(marker.version)

\* A failed f_open, f_read or f_stat is taken for a missing file.
Misread == FileFaults /\ Event /\ misreads' = misreads + 1
ReadWell == UNCHANGED <<misreads, events>>

\* _autokeys_enabled (an ini file that cannot be parsed enables it), f_stat of
\* lockpick.bin.
AutokeysOff ==
    /\ boot_pc = "autokeys" /\ (~autokeys \/ ~bundle \/ FileFaults)
    /\ Go("update")
    /\ UNCHANGED <<files, upd, excp, saved, history>>

AutokeysOn == boot_pc = "autokeys" /\ (autokeys \/ FileFaults) /\ bundle

\* The keys of this revision are there: clean up.
AutokeysComplete ==
    /\ AutokeysOn /\ HaveKeys
    /\ marker' \in {[marker EXCEPT !.attempt = NoMarker]} \cup (IF FileFaults THEN {marker} ELSE {})
    /\ request' \in {FALSE} \cup (IF FileFaults THEN {request} ELSE {})
    /\ Go("update")
    /\ UNCHANGED <<autokeys, bundle, update, keys, upd, excp, saved, history>>

\* They are not, or are not seen.
AutokeysIncomplete ==
    /\ AutokeysOn /\ IF HaveKeys THEN Misread ELSE ReadWell
    /\ Go("attempt")
    /\ UNCHANGED <<files, upd, excp, saved, dumps, allowed, viaLp>>

\* "A failed or interrupted attempt must never reboot in a loop."
AttemptMade == MarkerMatches(marker.attempt)

AttemptFound ==
    /\ boot_pc = "attempt" /\ AttemptMade
    /\ Go("update")
    /\ UNCHANGED <<files, upd, excp, saved, history>>

WriteAttempt_Blind ==
    /\ boot_pc = "attempt" /\ IF AttemptMade THEN Misread ELSE ReadWell
    /\ \/ marker' = [marker EXCEPT !.attempt = Tag(running.ver)]
       \/ FileFaults /\ marker' \in {marker, [marker EXCEPT !.attempt = BadMarker]}
    /\ Go("request")
    /\ UNCHANGED <<autokeys, bundle, update, keys, request, upd, excp, saved, dumps, allowed,
                   viaLp>>

\* The attempt is recorded before anything else; without the record, no attempt.
WriteAttempt ==
    /\ boot_pc = "attempt" /\ IF AttemptMade THEN Misread ELSE ReadWell
    /\ \/ marker' = [marker EXCEPT !.attempt = Tag(running.ver)] /\ Go("request")
       \/ /\ FileFaults
          /\ marker' \in {marker, [marker EXCEPT !.attempt = BadMarker]}
          /\ Go("update")
    /\ UNCHANGED <<autokeys, bundle, update, keys, request, upd, excp, saved, dumps, allowed,
                   viaLp>>

WriteRequest ==
    /\ boot_pc = "request"
    /\ \/ request' = TRUE /\ Go("lockpick")
       \/ FileFaults /\ request' \in {request, TRUE} /\ Go("update")
    /\ UNCHANGED <<autokeys, bundle, update, keys, marker, upd, excp, saved, history>>

\* _launch_payload("bootloader/sys/lockpick.bin"); when it returns, the request
\* is taken back.
LaunchLockpick ==
    /\ boot_pc = "lockpick"
    /\ \/ /\ running' = Lockpick /\ boot_pc' = "lp_start"
          /\ dumps' = [dumps EXCEPT ![Tag(running.ver)] = @ + 1] /\ viaLp' = TRUE
          /\ UNCHANGED request
       \/ /\ FileFaults
          /\ request' \in {FALSE, request} /\ Go("update")
          /\ UNCHANGED <<dumps, viaLp>>
    /\ UNCHANGED <<autokeys, bundle, update, keys, marker, upd, excp, saved, allowed, misreads,
                   events>>

----------------------------------------------------------------------------
(* Lockpick with res/lockpick-autokeys.patch (external).                   *)

\* The request is consumed before dumping.
LockpickStart ==
    /\ boot_pc = "lp_start"
    /\ IF request THEN /\ request' \in {FALSE} \cup (IF FileFaults THEN {TRUE} ELSE {})
                       /\ Go("lp_dump")
                  ELSE Go("settled") /\ UNCHANGED request
    /\ UNCHANGED <<autokeys, bundle, update, keys, marker, upd, excp, saved, history>>

LockpickDump ==
    /\ boot_pc = "lp_dump"
    /\ \/ keys' = TRUE /\ saved' = TRUE
       \/ FileFaults /\ saved' = FALSE /\ keys' \in {keys, FALSE}
    /\ Go("lp_version")
    /\ UNCHANGED <<autokeys, bundle, update, marker, request, upd, excp, history>>

LockpickVersion ==
    /\ boot_pc = "lp_version"
    /\ IF saved
         THEN marker' \in {[marker EXCEPT !.version = LockpickTag]}
                  \cup (IF FileFaults THEN {marker, [marker EXCEPT !.version = BadMarker]} ELSE {})
         ELSE UNCHANGED marker
    /\ Go("lp_chain")
    /\ UNCHANGED <<autokeys, bundle, update, keys, request, upd, excp, saved, history>>

\* launch_payload("bootloader/update.bin"), or Lockpick's own menu.
LockpickChain ==
    /\ boot_pc = "lp_chain"
    /\ \/ update \in Image /\ running' = update /\ boot_pc' = "mount"
       \/ (update \notin Image \/ FileFaults) /\ Go("settled")
    /\ UNCHANGED <<files, upd, excp, saved, history>>

----------------------------------------------------------------------------
(* _check_for_updated_bootloader.                                          *)

\* sd_save_to_file: what the file holds afterwards.
Saved(img) == {img} \cup (IF FileFaults THEN {update, Broken} ELSE {})

CheckDone == Go("settled")

ClearFlag_Missing == UNCHANGED upd

ClearFlag == upd' = FALSE

\* This is the chainloaded update: the flag is cleared and nothing checked.
UpdateFlagged ==
    /\ boot_pc = "update" /\ upd
    /\ ClearFlag
    /\ CheckDone
    /\ UNCHANGED <<files, excp, saved, history>>

\* No update.bin: it is created from the running image.
UpdateMissing ==
    /\ boot_pc = "update" /\ ~upd /\ update = Absent
    /\ update' \in Saved(running)
    /\ CheckDone
    /\ UNCHANGED <<autokeys, bundle, keys, marker, request, upd, excp, saved, history>>

\* A file without valid magic is left alone.
UpdateBroken ==
    /\ boot_pc = "update" /\ ~upd /\ update = Broken
    /\ CheckDone
    /\ UNCHANGED <<files, upd, excp, saved, history>>

\* "Copy reserved config.": in the buffer, and in the file if it was different.
WithConfig_Dropped(img) == img

WithConfig(img) == [img EXCEPT !.rcfg = running.rcfg]

UpdateOlder ==
    /\ boot_pc = "update" /\ ~upd /\ update \in Image /\ update.ver < running.ver
    /\ update' \in Saved(running)
    /\ CheckDone
    /\ UNCHANGED <<autokeys, bundle, keys, marker, request, upd, excp, saved, history>>

UpdateSame ==
    /\ boot_pc = "update" /\ ~upd /\ update \in Image /\ update.ver = running.ver
    /\ update' \in IF WithConfig(update) = update THEN {update}
                   ELSE Saved(WithConfig(update))
    /\ CheckDone
    /\ UNCHANGED <<autokeys, bundle, keys, marker, request, upd, excp, saved, history>>

\* A newer update.bin takes over, unless it is too big or cannot be read.
UpdateNewer ==
    /\ boot_pc = "update" /\ ~upd /\ update \in Image /\ update.ver > running.ver
    /\ \/ /\ update' \in IF WithConfig(update) = update THEN {update}
                         ELSE Saved(WithConfig(update))
          /\ IF update.ver \in TooBig
               THEN CheckDone /\ UNCHANGED upd
               ELSE /\ running' = WithConfig(update) /\ boot_pc' = "mount"
                    /\ upd' = TRUE
       \/ FileFaults /\ CheckDone /\ UNCHANGED <<update, upd>>
    /\ UNCHANGED <<autokeys, bundle, keys, marker, request, excp, saved, history>>

----------------------------------------------------------------------------
(* What happens to the console.                                            *)

\* Power is cut, or the user turns the console off.
PowerCut ==
    /\ boot_pc # "off" /\ Event
    /\ running' = PowerOff /\ boot_pc' = "off"
    /\ UNCHANGED <<files, upd, excp, saved, dumps, allowed, misreads, viaLp>>

\* An exception in hekate restarts it (excp_reset).
excp_reset ==
    /\ Hekate /\ boot_pc \notin {"settled", "menu"} /\ Event
    /\ excp' = "ABT" /\ Go("mount")
    /\ UNCHANGED <<files, upd, saved, dumps, allowed, misreads, viaLp>>

\* The user asks for another dump: "Removing this marker explicitly retries the
\* current version.", or deletes the keys.
UserRetry ==
    /\ boot_pc = "off" /\ Event
    /\ allowed' = allowed + 1
    /\ \/ marker' = [marker EXCEPT !.attempt = NoMarker] /\ UNCHANGED keys
       \/ keys' = FALSE /\ UNCHANGED marker
    /\ UNCHANGED <<running, boot_pc, autokeys, bundle, update, request, upd, excp, saved, dumps,
                   misreads, viaLp>>

ChainStep ==
    \/ MountSd \/ LoadLibs \/ _show_errors
    \/ AutokeysOff \/ AutokeysComplete \/ AutokeysIncomplete \/ AttemptFound
    \/ WriteAttempt \/ WriteRequest \/ LaunchLockpick
    \/ LockpickStart \/ LockpickDump \/ LockpickVersion \/ LockpickChain
    \/ UpdateFlagged \/ UpdateMissing \/ UpdateBroken \/ UpdateOlder \/ UpdateSame
    \/ UpdateNewer

ChainNext == PowerOn \/ ChainStep \/ PowerCut \/ excp_reset \/ UserRetry

ChainSpec == ChainInit /\ [][ChainNext]_chainVars

\* A program that is running goes on: the user presses the key that
\* _show_errors waits for, and the other steps end by themselves.
ChainFairSpec == ChainSpec /\ WF_chainVars(ChainStep)

----------------------------------------------------------------------------
(* Properties.                                                             *)

Pcs == {"off", "mount", "libs", "nosd", "errors", "errors_nosd", "autokeys", "attempt", "request",
        "lockpick", "menu", "lp_start", "lp_dump", "lp_version", "lp_chain", "update", "settled"}

ChainTypeOK ==
    /\ running \in Image \cup {PowerOff, Lockpick} /\ boot_pc \in Pcs
    /\ autokeys \in BOOLEAN /\ bundle \in BOOLEAN /\ update \in File
    /\ keys \in BOOLEAN /\ request \in BOOLEAN
    /\ marker \in [version : Tags \cup {NoMarker, BadMarker},
                   attempt : Tags \cup {NoMarker, BadMarker}]
    /\ upd \in BOOLEAN /\ excp \in {"none", "WDT", "ABT"} /\ saved \in BOOLEAN /\ viaLp \in BOOLEAN

\* Lockpick is started once, once more for each retry the user allowed, and
\* once more for each time the keys or a marker were there and could not be
\* read, whatever else fails or is cut short: the attempt is on the card before
\* the launch and goes only when the keys of that revision are there.
DumpsBounded == \A t \in Tags : dumps[t] <= allowed + misreads

\* Autokeys may still start Lockpick: it is about to, or nothing on the card
\* stops the next start from doing so.
Launchable ==
    \/ boot_pc \in {"request", "lockpick"}
    \/ marker.attempt # LockpickTag /\ ~(keys /\ marker.version = LockpickTag)

\* The keys were not seen and there is no attempt: one will be made.
Attempting == boot_pc = "attempt" /\ marker.attempt # LockpickTag

Dumping == boot_pc \in {"request", "lockpick", "lp_start", "lp_dump", "lp_version", "lp_chain"}

\* The reason for DumpsBounded when there is one AUTOKEYS_VERSION: a start of
\* Lockpick that is still possible has not been used up, and from its recording
\* to the end of Lockpick the attempt stays on the card.
DumpsAccounted ==
    /\ dumps[LockpickTag] + (IF Launchable \/ Attempting THEN 1 ELSE 0) <= allowed + misreads
    /\ Dumping => marker.attempt = LockpickTag

\* Every start ends in a menu or with the power off, unless keys or markers that
\* are there cannot be read again and again: no chain of relaunches between
\* hekate, update.bin and Lockpick, and no loop through the watchdog.
BootSettles == boot_pc # "off" ~> boot_pc \in {"settled", "menu", "off"}

\* A newer hekate takes over, an older one never does, and the reserved
\* configuration of the injected hekate goes with it, through every restart and
\* with any write of update.bin failing; the one exception is the update.bin
\* that Lockpick starts, which hekate has not looked at.
InjectedCarriesOver ==
    Hekate /\ ~viaLp => running.rcfg /\ running.ver >= Injected

\* Once hekate has come to its menu with an SD card, EMC_HEKA_UPD is clear, so
\* that the next start checks for updates again.
FlagConsumed == boot_pc = "settled" /\ Hekate => ~upd

============================================================================
