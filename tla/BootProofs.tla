--------------------------- MODULE BootProofs ----------------------------
(***************************************************************************)
(* Proofs about the way to a launch.  BootChain: autokeys starts Lockpick  *)
(* at most once per permission, and the flag and the configuration pass    *)
(* between programs, for any set of versions, power cuts, exceptions and   *)
(* failed file operations.  BootEntry: what is launched depends on the     *)
(* entry and on emummc.ini alone, for any ini files and boot storage.      *)
(* HosLaunch: the monitor gets the keys a first launch would have left,    *)
(* wrong keys are refused once, and HOS is started with every patch that   *)
(* was asked for, for any consoles, firmwares, entries and KIPs.           *)
(***************************************************************************)
EXTENDS BootChain, BootEntry, HosLaunch, FiniteSetTheorems, TLAPS

----------------------------------------------------------------------------
(* BootChain                                                               *)

\* All images come with the Lockpick revision that is on the card.
OneRevision == \A v \in Versions : Tag(v) = LockpickTag

Markers == Tags \cup {NoMarker, BadMarker}

\* The steps that only a hekate image takes.
HekatePcs == {"mount", "libs", "nosd", "errors", "errors_nosd", "autokeys", "attempt",
              "request", "lockpick", "update"}

\* What the accounting needs to know of the types.
AccountTypes ==
    /\ dumps \in [Tags -> Nat] /\ allowed \in Nat /\ misreads \in Nat
    /\ marker \in [version : Markers, attempt : Markers]
    /\ update \in File
    /\ running \in Image \cup {PowerOff, Lockpick}
    /\ boot_pc \in HekatePcs => running \in Image

AccountInv == AccountTypes /\ DumpsAccounted

\* With one revision every image carries a known tag.
LEMMA TagIsTag == ASSUME OneRevision, NEW v \in Versions
                  PROVE  Tag(v) = LockpickTag /\ LockpickTag \in Tags
  BY DEF OneRevision, Tags

\* Nothing has been dumped or allowed at first.
LEMMA AccountInit == ChainInit => AccountInv
<1>1. LockpickTag \in Tags
  BY DEF Tags
<1>2. ChainInit => AccountTypes
  <2> SUFFICES ASSUME ChainInit PROVE AccountTypes
    OBVIOUS
  <2>1. update \in File
    BY DEF ChainInit, File, Image
  <2>2. dumps \in [Tags -> Nat] /\ allowed \in Nat /\ misreads \in Nat
    BY DEF ChainInit
  <2>3. marker \in [version : Markers, attempt : Markers]
    BY DEF ChainInit, Markers
  <2>4. running \in Image \cup {PowerOff, Lockpick} /\ boot_pc \notin HekatePcs
    BY DEF ChainInit, HekatePcs
  <2> QED BY <2>1, <2>2, <2>3, <2>4 DEF AccountTypes
<1>3. ChainInit => DumpsAccounted
  BY <1>1 DEF ChainInit, DumpsAccounted, Launchable, Attempting, Dumping
<1> QED BY <1>2, <1>3 DEF AccountInv

\* Every step keeps the account: a dump uses up a permission.
LEMMA AccountStep == ASSUME OneRevision, AccountInv, [ChainNext]_chainVars PROVE AccountInv'
<1> USE DEF AccountInv, AccountTypes
<1>0. LockpickTag \in Tags
  BY DEF Tags
<1>t. boot_pc \in HekatePcs => Tag(running.ver) = LockpickTag
  BY TagIsTag DEF Image
<1>i. /\ Injected_ \in Image
      /\ \A img : WithConfig(img) = [img EXCEPT !.rcfg = running.rcfg]
      /\ running \in Image => \A img \in Image : [img EXCEPT !.rcfg = running.rcfg] \in Image
  BY ChainConstants DEF Injected_, Image, WithConfig
<1>1. CASE PowerOn
  BY <1>1, <1>i, <1>0 DEF PowerOn, files, history, DumpsAccounted, Launchable, Attempting, Dumping, HekatePcs
<1>2. CASE MountSd
  BY <1>2, <1>0 DEF MountSd, Go, files, history, DumpsAccounted, Launchable, Attempting, Dumping, HekatePcs
<1>3. CASE LoadLibs
  BY <1>3, <1>0 DEF LoadLibs, files, history, DumpsAccounted, Launchable, Attempting, Dumping, HekatePcs
<1>4. CASE _show_errors
  BY <1>4, <1>0 DEF _show_errors, Go, files, history, DumpsAccounted, Launchable, Attempting, Dumping, HekatePcs
<1>5. CASE AutokeysComplete
  BY <1>5, <1>t, <1>0 DEF AutokeysComplete, AutokeysOn, HaveKeys, MarkerMatches, Go, history,
     DumpsAccounted, Launchable, Attempting, Dumping, HekatePcs, Markers
<1>6. CASE AutokeysOff
  BY <1>6, <1>0 DEF AutokeysOff, Go, files, history, DumpsAccounted, Launchable, Attempting,
     Dumping, HekatePcs
<1>24. CASE AutokeysIncomplete
  BY <1>24, <1>t, <1>0 DEF AutokeysIncomplete, AutokeysOn, HaveKeys, MarkerMatches, Misread,
     ReadWell, Go, files, DumpsAccounted, Launchable, Attempting, Dumping, HekatePcs
<1>25. CASE AttemptFound
  BY <1>25, <1>t, <1>0 DEF AttemptFound, AttemptMade, MarkerMatches, Go, files, history,
     DumpsAccounted, Launchable, Attempting, Dumping, HekatePcs
<1>7. CASE WriteAttempt
  BY <1>7, <1>t, <1>0 DEF WriteAttempt, AttemptMade, MarkerMatches, Misread, ReadWell, Go,
     DumpsAccounted, Launchable, Attempting, Dumping, HekatePcs, Markers
<1>8. CASE WriteRequest
  <2>1. /\ boot_pc = "request" /\ boot_pc' \in {"lockpick", "update"}
        /\ UNCHANGED <<running, update, keys, marker, dumps, allowed, misreads>>
    BY <1>8, Zenon DEF WriteRequest, Go, history
  <2> QED BY <2>1, <1>0 DEF DumpsAccounted, Launchable, Attempting, Dumping, HekatePcs
<1>9. CASE LaunchLockpick
  <2>1. CASE /\ boot_pc = "lockpick" /\ boot_pc' = "lp_start" /\ running' = Lockpick
             /\ dumps' = [dumps EXCEPT ![Tag(running.ver)] = @ + 1]
             /\ UNCHANGED <<update, keys, marker, allowed, misreads>>
    <3>1. dumps' = [dumps EXCEPT ![LockpickTag] = @ + 1]
      BY <2>1, <1>t DEF HekatePcs
    <3> QED BY <2>1, <3>1, <1>0 DEF DumpsAccounted, Launchable, Attempting, Dumping, HekatePcs
  <2>2. CASE /\ boot_pc = "lockpick" /\ boot_pc' = "update"
             /\ UNCHANGED <<running, update, keys, marker, dumps, allowed, misreads>>
    BY <2>2, <1>0 DEF DumpsAccounted, Launchable, Attempting, Dumping, HekatePcs
  <2> QED BY <1>9, <2>1, <2>2, Zenon DEF LaunchLockpick, Go
<1>10. CASE LockpickStart
  BY <1>10, <1>0 DEF LockpickStart, Go, history, DumpsAccounted, Launchable, Attempting, Dumping, HekatePcs
<1>11. CASE LockpickDump
  BY <1>11, <1>0 DEF LockpickDump, Go, history, DumpsAccounted, Launchable, Attempting, Dumping, HekatePcs
<1>12. CASE LockpickVersion
  BY <1>12, <1>0 DEF LockpickVersion, Go, history, DumpsAccounted, Launchable, Attempting, Dumping,
     HekatePcs, Markers
<1>13. CASE LockpickChain
  BY <1>13, <1>0 DEF LockpickChain, Go, files, history, DumpsAccounted, Launchable, Attempting, Dumping, HekatePcs
<1>14. CASE UpdateFlagged
  BY <1>14, <1>0 DEF UpdateFlagged, CheckDone, Go, files, history, DumpsAccounted, Launchable,
     Attempting, Dumping, HekatePcs
<1>15. CASE UpdateMissing
  BY <1>15, <1>0 DEF UpdateMissing, Saved, CheckDone, Go, history, DumpsAccounted, Launchable,
     Attempting, Dumping, HekatePcs, File
<1>16. CASE UpdateBroken
  BY <1>16, <1>0 DEF UpdateBroken, CheckDone, Go, files, history, DumpsAccounted, Launchable,
     Attempting, Dumping, HekatePcs
<1>17. CASE UpdateOlder
  BY <1>17, <1>0 DEF UpdateOlder, Saved, CheckDone, Go, history, DumpsAccounted, Launchable,
     Attempting, Dumping, HekatePcs, File
<1>18. CASE UpdateSame
  BY <1>18, <1>i, <1>0 DEF UpdateSame, Saved, CheckDone, Go, history, DumpsAccounted, Launchable,
     Attempting, Dumping, HekatePcs, File
<1>19. CASE UpdateNewer
  BY <1>19, <1>i, <1>0 DEF UpdateNewer, Saved, CheckDone, Go, history, DumpsAccounted, Launchable,
     Attempting, Dumping, HekatePcs, File
<1>20. CASE PowerCut
  BY <1>20, <1>0 DEF PowerCut, files, DumpsAccounted, Launchable, Attempting, Dumping, HekatePcs
<1>21. CASE excp_reset
  BY <1>21, <1>0 DEF excp_reset, Hekate, Go, files, DumpsAccounted, Launchable, Attempting, Dumping, HekatePcs
<1>22. CASE UserRetry
  BY <1>22, <1>0 DEF UserRetry, DumpsAccounted, Launchable, Attempting, Dumping, HekatePcs, Markers
<1>23. CASE UNCHANGED chainVars
  BY <1>23, <1>0 DEF chainVars, files, history, DumpsAccounted, Launchable, Attempting, Dumping, HekatePcs
<1> QED
  BY <1>1, <1>2, <1>3, <1>4, <1>5, <1>6, <1>7, <1>8, <1>9, <1>10, <1>11, <1>12, <1>13,
     <1>14, <1>15, <1>16, <1>17, <1>18, <1>19, <1>20, <1>21, <1>22, <1>23,
     <1>24, <1>25 DEF ChainNext, ChainStep

\* _autokeys_run starts Lockpick at most once, plus once for each time the user
\* removed the attempt marker or the keys and once for each time keys or a marker
\* that were there could not be read, however the chain of hekate, Lockpick and
\* update.bin is interrupted and whichever other file operations fail.
THEOREM LockpickStartsBounded == ASSUME OneRevision PROVE ChainSpec => []DumpsBounded
<1>1. AccountInv => DumpsBounded
  <2> SUFFICES ASSUME AccountInv, NEW t \in Tags PROVE dumps[t] <= allowed + misreads
    BY DEF DumpsBounded
  <2>1. t = LockpickTag
    BY DEF OneRevision, Tags
  <2> QED BY <2>1 DEF AccountInv, AccountTypes, DumpsAccounted
<1>2. AccountInv /\ [ChainNext]_chainVars => AccountInv'
  BY AccountStep
<1> QED BY AccountInit, <1>1, <1>2, PTL DEF ChainSpec

----------------------------------------------------------------------------
(* EMC_HEKA_UPD.                                                           *)

LockpickPcs == {"lp_start", "lp_dump", "lp_version", "lp_chain"}

\* FlagConsumed alone is not inductive: that the menu of Lockpick is not a menu
\* of hekate needs to know who takes the steps of Lockpick.
FlagInv == FlagConsumed /\ (boot_pc \in LockpickPcs => running = Lockpick)

\* Every step keeps the flag where the next image looks for it.
LEMMA FlagStep == ASSUME FlagInv, [ChainNext]_chainVars PROVE FlagInv'
<1> USE DEF FlagInv, FlagConsumed, Hekate, LockpickPcs
<1>1. CASE PowerOn \/ PowerCut \/ UserRetry
  BY <1>1 DEF PowerOn, PowerCut, UserRetry
<1>2. CASE MountSd \/ LoadLibs \/ _show_errors \/ excp_reset
  BY <1>2 DEF MountSd, LoadLibs, _show_errors, excp_reset, Go
<1>3. CASE AutokeysOff \/ AutokeysComplete \/ AutokeysIncomplete \/ AttemptFound \/ WriteAttempt
             \/ WriteRequest
  BY <1>3 DEF AutokeysOff, AutokeysOn, AutokeysComplete, AutokeysIncomplete, AttemptFound,
     WriteAttempt, WriteRequest, Go
<1>4. CASE LaunchLockpick
  BY <1>4 DEF LaunchLockpick, Go
<1>5. CASE LockpickStart \/ LockpickDump \/ LockpickVersion
  BY <1>5 DEF LockpickStart, LockpickDump, LockpickVersion, Go
<1>6. CASE LockpickChain
  BY <1>6 DEF LockpickChain, Go
<1>7. CASE UpdateFlagged
  BY <1>7 DEF UpdateFlagged, ClearFlag, CheckDone, Go
<1>8. CASE UpdateMissing \/ UpdateBroken \/ UpdateOlder \/ UpdateSame
  BY <1>8 DEF UpdateMissing, UpdateBroken, UpdateOlder, UpdateSame, CheckDone, Go
<1>9. CASE UpdateNewer
  BY <1>9 DEF UpdateNewer, CheckDone, Go
<1>10. CASE UNCHANGED chainVars
  BY <1>10 DEF chainVars
<1> QED
  BY <1>1, <1>2, <1>3, <1>4, <1>5, <1>6, <1>7, <1>8, <1>9, <1>10 DEF ChainNext, ChainStep

\* A hekate that has come to its menu has cleared EMC_HEKA_UPD, so the next start
\* checks for updates again (_check_for_updated_bootloader), with any versions,
\* any file faults and any number of restarts on the way.
THEOREM FlagAlwaysConsumed == ChainSpec => []FlagConsumed
<1>1. ChainInit => FlagInv
  BY DEF ChainInit, FlagInv, FlagConsumed, LockpickPcs
<1>2. FlagInv /\ [ChainNext]_chainVars => FlagInv'
  BY FlagStep
<1>3. FlagInv => FlagConsumed
  BY DEF FlagInv
<1> QED BY <1>1, <1>2, <1>3, PTL DEF ChainSpec

\* Who runs: InjectedCarriesOver with what it needs to know of update.bin and of
\* the steps of Lockpick.
CarryInv ==
    /\ update \in File
    /\ running \in Image \cup {PowerOff, Lockpick}
    /\ boot_pc \in HekatePcs => running \in Image
    /\ boot_pc \in LockpickPcs => viaLp
    /\ running \in Image /\ ~viaLp => running.rcfg /\ running.ver >= Injected

\* Images have natural versions, which power off and Lockpick have not.
LEMMA ImageVals ==
    /\ \A img \in Image : img.ver \in Nat
    /\ PowerOff \notin Image /\ Lockpick \notin Image
<1>1. \A img \in Image : img.ver \in Versions
  BY DEF Image
<1>2. Versions \subseteq Nat
  BY ChainConstants
<1>3. PowerOff.ver = -3 /\ Lockpick.ver = -4
  BY DEF PowerOff, Lockpick, Program
<1>4. PowerOff.ver \notin Nat /\ Lockpick.ver \notin Nat
  BY <1>3
<1> HIDE DEF PowerOff, Lockpick
<1>5. \A img \in Image : img.ver \in Nat
  BY <1>1, <1>2, Zenon
<1> QED BY <1>4, <1>5, Zenon

\* Every start of a program keeps it.
LEMMA CarryStep == ASSUME CarryInv, [ChainNext]_chainVars PROVE CarryInv'
<1> USE DEF CarryInv, HekatePcs, LockpickPcs
<1>1. CASE PowerOn
  <2>1. Injected_ \in Image /\ Injected_.rcfg /\ Injected_.ver >= Injected
    BY ChainConstants DEF Injected_, Image
  <2> QED BY <1>1, <2>1 DEF PowerOn, files
<1>2. CASE UserRetry \/ PowerCut
  BY <1>2, ImageVals DEF PowerCut, UserRetry, files
<1>3. CASE MountSd \/ LoadLibs \/ _show_errors \/ excp_reset
  BY <1>3 DEF MountSd, LoadLibs, _show_errors, excp_reset, Hekate, Go, files, history
<1>4. CASE AutokeysOff \/ AutokeysComplete \/ AutokeysIncomplete \/ AttemptFound \/ WriteAttempt
             \/ WriteRequest
  BY <1>4 DEF AutokeysOff, AutokeysOn, AutokeysComplete, AutokeysIncomplete, AttemptFound,
     WriteAttempt, WriteRequest, Go, files, history
<1>5. CASE LaunchLockpick
  BY <1>5 DEF LaunchLockpick, Go
<1>6. CASE LockpickStart \/ LockpickDump \/ LockpickVersion
  BY <1>6 DEF LockpickStart, LockpickDump, LockpickVersion, Go, history
<1>7. CASE LockpickChain
  BY <1>7 DEF LockpickChain, Go, files, history
<1>8. CASE UpdateFlagged \/ UpdateBroken
  BY <1>8 DEF UpdateFlagged, UpdateBroken, CheckDone, Go, files, history
<1>9. CASE UpdateMissing \/ UpdateOlder
  BY <1>9 DEF UpdateMissing, UpdateOlder, Saved, CheckDone, Go, history, File
<1>10. CASE UpdateSame \/ UpdateNewer
  <2>1. running \in Image /\ update \in Image /\ update.ver >= running.ver
    <3>1. running \in Image /\ update \in Image
      BY <1>10 DEF UpdateSame, UpdateNewer
    <3>2. running.ver \in Nat /\ update.ver \in Nat
      BY <3>1, ImageVals
    <3> QED BY <1>10, <3>1, <3>2 DEF UpdateSame, UpdateNewer
  <2>2. PICK img \in Image : /\ img = WithConfig(update)
                             /\ img.rcfg = running.rcfg /\ img.ver = update.ver
    <3>1. [update EXCEPT !.rcfg = running.rcfg] \in Image
      BY <2>1 DEF Image
    <3>2. [update EXCEPT !.rcfg = running.rcfg].rcfg = running.rcfg
      BY <2>1, Zenon DEF Image
    <3>3. [update EXCEPT !.rcfg = running.rcfg].ver = update.ver
      BY <2>1 DEF Image
    <3> QED BY <3>1, <3>2, <3>3, Zenon DEF WithConfig
  <2>3. running.ver >= Injected => img.ver >= Injected
    <3>1. running.ver \in Nat /\ img.ver \in Nat /\ Injected \in Nat
      BY <2>1, ImageVals, ChainConstants
    <3> QED BY <2>1, <2>2, <3>1
  <2>4. update' \in File /\ running' \in {running, img} /\ UNCHANGED viaLp
    BY <1>10, <2>1, <2>2 DEF UpdateSame, UpdateNewer, Saved, CheckDone, Go, history, File
  <2>5. boot_pc' \in {"settled", "mount"}
    BY <1>10 DEF UpdateSame, UpdateNewer, CheckDone, Go
  <2> QED BY <2>1, <2>2, <2>3, <2>4, <2>5, <1>10 DEF UpdateSame, UpdateNewer
<1>11. CASE UNCHANGED chainVars
  BY <1>11 DEF chainVars, files, history
<1> QED
  BY <1>1, <1>2, <1>3, <1>4, <1>5, <1>6, <1>7, <1>8, <1>9, <1>10, <1>11 DEF ChainNext, ChainStep

\* Until Lockpick is started, what runs is never older than the injected hekate
\* and has its reserved configuration (is_ipl_updated, "Copy reserved config."),
\* for any versions, restarts and failed writes of update.bin.
THEOREM InjectedAlwaysCarriesOver == ChainSpec => []InjectedCarriesOver
<1>1. ChainInit => CarryInv
  <2> SUFFICES ASSUME ChainInit PROVE CarryInv
    OBVIOUS
  <2>1. update \in File
    BY DEF ChainInit, File, Image
  <2> QED BY <2>1, ImageVals DEF ChainInit, CarryInv, HekatePcs, LockpickPcs
<1>2. CarryInv /\ [ChainNext]_chainVars => CarryInv'
  BY CarryStep
<1>3. CarryInv => InjectedCarriesOver
  BY DEF CarryInv, InjectedCarriesOver, Hekate
<1> QED BY <1>1, <1>2, <1>3, PTL DEF ChainSpec

----------------------------------------------------------------------------
(* BootEntry                                                               *)

\* A set of positions has a first one, so FirstOf chooses it.
LEMMA FirstExists == ASSUME NEW S \in SUBSET Nat, S # {}
                     PROVE  FirstOf(S) \in S /\ \A m \in S : FirstOf(S) <= m
<1> DEFINE below(n) == 0 .. n - 1
           B == {below(n) : n \in S}
<1>1. B \subseteq FiniteSubsetsOf(Nat)
  <2> SUFFICES ASSUME NEW n \in S PROVE below(n) \in FiniteSubsetsOf(Nat)
    OBVIOUS
  <2>1. IsFiniteSet(below(n))
    BY FS_Interval
  <2> QED BY <2>1 DEF FiniteSubsetsOf
<1>2. IsWellFoundedOn(StrictSubsetOrdering(Nat), FiniteSubsetsOf(Nat))
  BY FS_StrictSubsetOrderingWellFounded
<1>3. PICK x \in B : \A y \in B : ~(<<y, x>> \in StrictSubsetOrdering(Nat))
  <2> HIDE DEF B
  <2>1. B # {}
    BY DEF B
  <2> QED BY <1>1, <1>2, <2>1, WFMin
<1>4. PICK n \in S : x = below(n)
  OBVIOUS
<1>5. \A m \in S : n <= m
  <2> SUFFICES ASSUME NEW m \in S, m < n PROVE FALSE
    OBVIOUS
  <2>1. <<below(m), below(n)>> \in StrictSubsetOrdering(Nat)
    <3>1. below(m) \subseteq below(n) /\ below(m) # below(n)
      <4>1. m \in below(n) /\ m \notin below(m)
        OBVIOUS
      <4> QED BY <4>1
    <3>2. below(m) \in SUBSET Nat /\ below(n) \in SUBSET Nat
      OBVIOUS
    <3> QED BY <3>1, <3>2 DEF StrictSubsetOrdering
  <2> QED BY <2>1, <1>3, <1>4
<1> QED BY <1>5 DEF FirstOf

----------------------------------------------------------------------------
(* The entry an automatic boot ends with.                                  *)

\* With a reboot reason by id only an entry with that id is chosen, and none
\* once the id is gone.
LEMMA ChoiceById ==
  ASSUME boot_from_id, Choice # NoSection
  PROVE  b_cfg.id # NoName /\ Choice.id = b_cfg.id
<1>1. ASSUME MainChoice # NoSection PROVE b_cfg.id # NoName /\ MainChoice.id = b_cfg.id
  <2> DEFINE found == {n \in DOMAIN Main : Main[n].kind # "config" /\ MatchesId(Main[n])}
  <2>1. found # {} /\ MainChoice = Main[FirstOf(found)]
    BY <1>1 DEF MainChoice
  <2>2. found \in SUBSET Nat
    BY EntryConstants
  <2>3. FirstOf(found) \in found
    <3> HIDE DEF found
    <3> QED BY <2>1, <2>2, FirstExists
  <2> QED BY <2>1, <2>3 DEF MatchesId
<1>2. ASSUME ListChoice # NoSection PROVE b_cfg.id # NoName /\ ListChoice.id = b_cfg.id
  <2> DEFINE choices == {n \in DOMAIN IniList : IniList[n].kind # "config"}
             found == {n \in choices : MatchesId(IniList[n])}
  <2>1. found # {} /\ ListChoice = IniList[FirstOf(found)]
    BY <1>2 DEF ListChoice
  <2>2. found \in SUBSET Nat
    BY EntryConstants
  <2>3. FirstOf(found) \in found
    <3> HIDE DEF found
    <3> QED BY <2>1, <2>2, FirstExists
  <2> QED BY <2>1, <2>3 DEF MatchesId
<1> QED BY <1>1, <1>2 DEF Choice

----------------------------------------------------------------------------
(* The invariant.                                                          *)

\* emu_cfg is what emummc.ini says wherever an entry can be chosen or is about to
\* be launched, and after a launch that did not touch it.
EmuLoaded ==
    /\ menu \in {"wait", "launch", "menu", "list"} => emu = emummc_load_cfg
    /\ menu = "reload" /\ cfg_sec.emupath = NoName /\ ~ToEmummc => emu = emummc_load_cfg

\* A boot by id happens before the id is cleared and goes back to the place that
\* clears it.
ReasonUsed ==
    /\ IsBootCfg(b_cfg)
    /\ reasons \in {0, 1}
    /\ auto => back = "out"
    /\ auto /\ boot_from_id /\ menu \in {"wait", "launch"} =>
         reasons = 0 /\ b_cfg.id # NoName /\ cfg_sec.id = b_cfg.id
    /\ reasons # 0 => boot_from_id
    /\ reasons # 0 /\ b_cfg.id # NoName => menu \in {"running", "reload", "out"} /\ auto
    /\ menu \in {"menu", "list", "top", "menu_out"} => reasons = 0 \/ b_cfg.id = NoName

EntryInv == EmuLoaded /\ ReasonUsed /\ OwnEmuMMC /\ IdOnlyOnce

\* It holds when hekate comes up.
LEMMA EntryInvInit == EntryInit => EntryInv
<1> SUFFICES ASSUME EntryInit PROVE EntryInv
  OBVIOUS
<1>1. EmuLoaded /\ ReasonUsed
  BY EntryConstants DEF EntryInit, EmuLoaded, ReasonUsed
<1>2. OwnEmuMMC /\ IdOnlyOnce
  BY DEF EntryInit, OwnEmuMMC, IdOnlyOnce, NoLaunch, NoSection, NoName
<1> QED BY <1>1, <1>2 DEF EntryInv

\* Setting the path of an emuMMC that exists selects it.
LEMMA SetPathSelects == ASSUME NEW p, PathFound(p) PROVE Selected(SetPath(p)) = p
  BY EntryConstants DEF PathFound, SetPath, Selected, Paths

\* emummc_load_cfg selects what emummc.ini names.
LEMMA LoadSelects == Selected(emummc_load_cfg) = EmuIni
  BY EntryConstants DEF Selected, emummc_load_cfg, NoEmu, Paths

\* Every step keeps it.
LEMMA EntryInvStep == ASSUME EntryInv, [EntryNext]_entryVars PROVE EntryInv'
<1> USE DEF EntryInv, EmuLoaded, ReasonUsed, OwnEmuMMC, IdOnlyOnce, boot_from_id, emummc_load_cfg,
            ToEmummc
<1>1. CASE _auto_launch
  BY <1>1, ChoiceById DEF _auto_launch, IsBootCfg
<1>2. CASE BootWait
  BY <1>2 DEF BootWait, IsBootCfg
<1>3. CASE AutoOut
  <2>1. /\ IsBootCfg(b_cfg') /\ b_cfg'.from_id = b_cfg.from_id
        /\ b_cfg'.autoboot_en = b_cfg.autoboot_en
        /\ b_cfg.from_id => b_cfg'.id = NoName
        /\ b_cfg'.id \in {b_cfg.id, NoName}
    BY <1>3 DEF AutoOut, ClearReason, IsBootCfg
  <2> QED BY <1>3, <2>1 DEF AutoOut
<1>4. CASE LaunchSpecial
  BY <1>4 DEF LaunchSpecial, IsBootCfg
<1>5. CASE WrongPath
  BY <1>5 DEF WrongPath, IsBootCfg
<1>6. CASE LaunchHos
  <2>0. /\ menu = "launch" /\ menu' \in {"running", "reload"}
        /\ WantedPath = NoName => emu' = emu
        /\ reasons' = IF auto /\ boot_from_id THEN reasons + 1 ELSE reasons
        /\ UNCHANGED <<b_cfg, cfg_sec, auto, back>>
    BY <1>6 DEF LaunchHos
  <2>1. EmuLoaded' /\ ReasonUsed'
    <3>1. EmuLoaded'
      BY <2>0 DEF WantedPath
    <3>2. ReasonUsed'
      BY <2>0 DEF IsBootCfg
    <3> QED BY <3>1, <3>2
  <2>2. launched'.sec.kind = "hos" /\ ~launched'.force /\ ~launched'.to =>
          launched'.emu = IF launched'.sec.emupath # NoName THEN launched'.sec.emupath ELSE EmuIni
    <3> SUFFICES ASSUME ~force, ~ToEmummc
                 PROVE  launched'.emu = IF cfg_sec.emupath # NoName THEN cfg_sec.emupath ELSE EmuIni
      BY <1>6 DEF LaunchHos
    <3>1. CASE cfg_sec.emupath = NoName
      <4>1. launched'.emu = Selected(emummc_load_cfg)
        BY <1>6, <3>1 DEF LaunchHos, WantedPath
      <4> QED BY <4>1, <3>1, LoadSelects
    <3>2. CASE cfg_sec.emupath # NoName
      <4>1. launched'.emu = Selected(SetPath(cfg_sec.emupath)) /\ PathFound(cfg_sec.emupath)
        BY <1>6, <3>2 DEF LaunchHos, WantedPath
      <4> QED BY <4>1, <3>2, SetPathSelects
    <3> QED BY <3>1, <3>2
  <2>3. IdOnlyOnce'
    BY <1>6 DEF LaunchHos
  <2> QED BY <2>1, <2>2, <2>3
<1>7. CASE Reload
  BY <1>7 DEF Reload, Reloaded, IsBootCfg
<1>8. CASE _launch_config
  BY <1>8 DEF _launch_config, IsBootCfg
<1>9. CASE ConfigOut \/ ConfigBack
  BY <1>9 DEF ConfigOut, ConfigBack, IsBootCfg
<1>10. ASSUME NEW sec, NEW from \in {"menu", "list"}, NEW ret, ChooseEntry(sec, from, ret)
       PROVE  EntryInv'
  BY <1>10 DEF ChooseEntry, IsBootCfg
<1>11. CASE _launch_ini_list \/ ListBack
  BY <1>11 DEF _launch_ini_list, ListBack, IsBootCfg
<1>12. CASE _launch_payloads
  BY <1>12 DEF _launch_payloads, IsBootCfg
<1>13. CASE _ipl_reload
  BY <1>13 DEF _ipl_reload, IsBootCfg, NoLaunch, NoSection, NoName
<1>14. CASE UNCHANGED entryVars
  BY <1>14 DEF entryVars, IsBootCfg
<1>15. ASSUME NEW n \in DOMAIN Main, ConfigEntry(Main[n]) PROVE EntryInv'
  BY <1>10, <1>15 DEF ConfigEntry
<1>16. ASSUME NEW n \in DOMAIN IniList, ListEntry(IniList[n]) PROVE EntryInv'
  BY <1>10, <1>16 DEF ListEntry
<1> QED
  BY <1>1, <1>2, <1>3, <1>4, <1>5, <1>6, <1>7, <1>8, <1>9, <1>11, <1>12, <1>13, <1>14, <1>15, <1>16
  DEF EntryNext

----------------------------------------------------------------------------
(* emummc_force_disable.                                                   *)

\* The global is the setting of the entry that is about to be launched, or left
\* behind by an entry of the list, and clear in the menus otherwise.
ForceInv ==
    /\ force \in BOOLEAN /\ back \in {"out", "menu", "menu_out"}
    /\ cfg_sec = NoSection \/ cfg_sec \in Sections
    /\ menu \in {"wait", "launch"} /\ cfg_sec.kind = "hos" =>
         (cfg_sec.force => force) /\ (force => cfg_sec.force \/ listed)
    /\ menu \in {"auto", "top", "menu", "list"} => (force => listed)
    /\ menu \in {"wait", "launch", "reload"} /\ back = "menu" => (force => listed)
    /\ ForceIsOwn

\* What an automatic boot chooses is a section of the files.
LEMMA ChoiceIsSection == Choice = NoSection \/ Choice \in Sections
<1>1. ASSUME NEW Q \in SUBSET DOMAIN Main, Q # {} PROVE Main[FirstOf(Q)] \in Sections
  <2>1. FirstOf(Q) \in Q
    BY <1>1, FirstExists, EntryConstants
  <2> QED BY <2>1 DEF Sections
<1>2. ASSUME NEW Q \in SUBSET DOMAIN IniList, Q # {} PROVE IniList[FirstOf(Q)] \in Sections
  <2>1. FirstOf(Q) \in Q
    BY <1>2, FirstExists, EntryConstants
  <2> QED BY <2>1 DEF Sections
<1>3. MainChoice = NoSection \/ MainChoice \in Sections
  <2> DEFINE byId  == {n \in DOMAIN Main : Main[n].kind # "config" /\ MatchesId(Main[n])}
             index == {n \in DOMAIN Main : HasConfig /\ n > ConfigAt /\ n - 1 = Autoboot}
             found == IF boot_from_id THEN byId ELSE IF HasConfig /\ AutobootList THEN {} ELSE index
  <2>1. MainChoice = IF found = {} THEN NoSection ELSE Main[FirstOf(found)]
    BY DEF MainChoice
  <2>2. found \in SUBSET DOMAIN Main
    OBVIOUS
  <2> HIDE DEF found
  <2> QED BY <2>1, <2>2, <1>1
<1>4. ListChoice = NoSection \/ ListChoice \in Sections
  <2> DEFINE choices == {n \in DOMAIN IniList : IniList[n].kind # "config"}
             entry(n) == Cardinality({m \in choices : m <= n})
             found == {n \in choices : IF boot_from_id THEN MatchesId(IniList[n])
                                                       ELSE entry(n) = Autoboot}
  <2>1. ListChoice = IF found = {} THEN NoSection ELSE IniList[FirstOf(found)]
    BY DEF ListChoice
  <2>2. found \in SUBSET DOMAIN IniList
    OBVIOUS
  <2> HIDE DEF found
  <2> QED BY <2>1, <2>2, <1>2
<1> QED BY <1>3, <1>4 DEF Choice

\* Every step keeps the force flag that of the entry.
LEMMA ForceInvStep == ASSUME ForceInv, [EntryNext]_entryVars PROVE ForceInv'
<1> USE EntryConstants DEF ForceInv, ForceIsOwn
<1>1. CASE _auto_launch
  BY <1>1, ChoiceIsSection DEF _auto_launch
<1>2. CASE BootWait
  BY <1>2 DEF BootWait
<1>3. CASE AutoOut
  BY <1>3 DEF AutoOut
<1>4. CASE LaunchSpecial
  BY <1>4 DEF LaunchSpecial
<1>5. CASE WrongPath
  BY <1>5 DEF WrongPath
<1>6. CASE LaunchHos
  BY <1>6 DEF LaunchHos
<1>7. CASE Reload
  BY <1>7 DEF Reload
<1>8. CASE _launch_config \/ _launch_ini_list \/ ListBack \/ _launch_payloads
  BY <1>8 DEF _launch_config, _launch_ini_list, ListBack, _launch_payloads
<1>9. CASE ConfigOut \/ ConfigBack
  <2>1. CASE ConfigOut
    BY <2>1 DEF ConfigOut, ConfigReset
  <2>2. CASE ConfigBack
    BY <2>2 DEF ConfigBack
  <2> QED BY <1>9, <2>1, <2>2
<1>10. ASSUME NEW n \in DOMAIN Main, ConfigEntry(Main[n]) PROVE ForceInv'
  BY <1>10 DEF ConfigEntry, ChooseEntry, Sections
<1>11. ASSUME NEW n \in DOMAIN IniList, ListEntry(IniList[n]) PROVE ForceInv'
  BY <1>11 DEF ListEntry, ChooseEntry, Sections
<1>12. CASE _ipl_reload
  BY <1>12 DEF _ipl_reload, NoLaunch, NoSection, NoName
<1>13. CASE UNCHANGED entryVars
  BY <1>13 DEF entryVars
<1> QED
  BY <1>1, <1>2, <1>3, <1>4, <1>5, <1>6, <1>7, <1>8, <1>9, <1>10, <1>11, <1>12, <1>13 DEF EntryNext

----------------------------------------------------------------------------
(* The theorems.                                                           *)

\* Whatever was launched, refused or looked at before, an entry boots with the
\* emuMMC it names or with that of emummc.ini (emummc_set_path, emummc_load_cfg
\* after every launch that returns), for any ini files.
THEOREM EmuMMCAlwaysOwn == EntrySpec => []OwnEmuMMC
<1>1. EntryInv /\ [EntryNext]_entryVars => EntryInv'
  BY EntryInvStep
<1>2. EntryInv => OwnEmuMMC
  BY DEF EntryInv
<1> QED BY <1>1, <1>2, EntryInvInit, PTL DEF EntrySpec

\* The choice of emuMMC and the reboot reason are those of the entry that is
\* launched (_auto_launch, _launch_config, _launch_ini_list), and so is
\* emummc_force_disable, unless _launch_ini_list has left it set for an entry
\* chosen before: for any ini files, walks through the menus and reloads.
THEOREM LaunchAlwaysOwn == EntrySpec => []LaunchIsOwn
<1>1. EntryInit => ForceInv
  <2> SUFFICES ASSUME EntryInit PROVE ForceInv
    OBVIOUS
  <2>1. ForceIsOwn
    BY DEF EntryInit, ForceIsOwn, NoLaunch, NoSection, NoName
  <2> QED BY <2>1 DEF EntryInit, ForceInv
<1>2. EntryInv /\ [EntryNext]_entryVars => EntryInv'
  BY EntryInvStep
<1>3. ForceInv /\ [EntryNext]_entryVars => ForceInv'
  BY ForceInvStep
<1>4. EntryInv /\ ForceInv => LaunchIsOwn
  BY DEF EntryInv, ForceInv, LaunchIsOwn
<1> QED BY <1>1, <1>2, <1>3, <1>4, EntryInvInit, PTL DEF EntrySpec

----------------------------------------------------------------------------
(* HosLaunch                                                               *)

----------------------------------------------------------------------------
(* Keys: what each derivation leaves in the slots.                         *)

\* Keys are terms: decrypting gives the same key only from the same parts.
LEMMA DecInjective ==
    ASSUME NEW k, NEW x, NEW l, NEW y, Dec(k, x) = Dec(l, y)
    PROVE k = l /\ x = y
BY DEF Dec

\* And two atoms are the same only with the same name and number.
LEMMA AtomInjective ==
    ASSUME NEW a, NEW m, NEW b, NEW n, Atom(a, m) = Atom(b, n) PROVE a = b /\ m = n
BY DEF Atom

\* se_aes_unwrap_key changes the slot of the result only.
LEMMA UnwrapVals ==
    ASSUME NEW sl, DOMAIN sl = Slots, NEW dst \in Slots, NEW src, NEW seed
    PROVE  /\ DOMAIN Unwrap(sl, dst, src, seed) = Slots
           /\ Unwrap(sl, dst, src, seed)[dst] = Dec(sl[src], seed)
           /\ \A s \in Slots : s # dst => Unwrap(sl, dst, src, seed)[s] = sl[s]
BY DEF Unwrap

\* The slots hos.c uses exist.
LEMMA SlotNumbers == \A n \in 7 .. 15 : n \in Slots
BY DEF Slots

\* What the T210B01 derivation leaves in each slot.
LEMMA MarikoVals ==
    ASSUME NEW sl, DOMAIN sl = Slots, NEW m, NEW k, k = KeygenMariko(sl, m)
    PROVE  /\ DOMAIN k = Slots
           /\ k[10] = Dec(sl[14], Console4xxSeed)
           /\ \A s \in {12, 13, 14, 15} : k[s] = sl[s]
           /\ k[8] = Dec(Dec(Dec(sl[12], KekB01Seed(m)), MasterSeed), Pkg2Seed)
<1>1. PICK a : a = Unwrap(sl, 10, 14, Console4xxSeed)
  OBVIOUS
<1>2. PICK b : b = Unwrap(a, 7, 12, KekB01Seed(m))
  OBVIOUS
<1>3. PICK c : c = Unwrap(b, 7, 7, MasterSeed)
  OBVIOUS
<1>4. k = Unwrap(c, 8, 7, Pkg2Seed)
  BY <1>1, <1>2, <1>3 DEF KeygenMariko
<1>5. /\ DOMAIN a = Slots /\ a[10] = Dec(sl[14], Console4xxSeed)
      /\ \A s \in Slots : s # 10 => a[s] = sl[s]
  BY <1>1, UnwrapVals, SlotNumbers
<1>6. /\ DOMAIN b = Slots /\ b[7] = Dec(a[12], KekB01Seed(m))
      /\ \A s \in Slots : s # 7 => b[s] = a[s]
  BY <1>2, <1>5, UnwrapVals, SlotNumbers
<1>7. /\ DOMAIN c = Slots /\ c[7] = Dec(b[7], MasterSeed)
      /\ \A s \in Slots : s # 7 => c[s] = b[s]
  BY <1>3, <1>6, UnwrapVals, SlotNumbers
<1>8. /\ DOMAIN k = Slots /\ k[8] = Dec(c[7], Pkg2Seed)
      /\ \A s \in Slots : s # 8 => k[s] = c[s]
  BY <1>4, <1>7, UnwrapVals, SlotNumbers
<1> QED
  BY <1>5, <1>6, <1>7, <1>8, SlotNumbers

\* What the derivation of 7.0.0 and up leaves in each slot.
LEMMA NewVals ==
    ASSUME NEW sl, DOMAIN sl = Slots, NEW m, NEW k, k = KeygenNew(sl, m)
    PROVE  /\ DOMAIN k = Slots
           /\ \A s \in {10, 12, 13, 14, 15} : k[s] = sl[s]
           /\ k[7] = Dec(Dec(sl[13], KekV4Seed(m)), MasterSeed)
           /\ k[8] = Dec(k[7], Pkg2Seed)
<1>1. PICK a : a = Unwrap(sl, 7, 13, KekV4Seed(m))
  OBVIOUS
<1>2. PICK b : b = Unwrap(a, 7, 7, MasterSeed)
  OBVIOUS
<1>3. k = Unwrap(b, 8, 7, Pkg2Seed)
  BY <1>1, <1>2 DEF KeygenNew
<1>4. /\ DOMAIN a = Slots /\ a[7] = Dec(sl[13], KekV4Seed(m))
      /\ \A s \in Slots : s # 7 => a[s] = sl[s]
  BY <1>1, UnwrapVals, SlotNumbers
<1>5. /\ DOMAIN b = Slots /\ b[7] = Dec(a[7], MasterSeed)
      /\ \A s \in Slots : s # 7 => b[s] = a[s]
  BY <1>2, <1>4, UnwrapVals, SlotNumbers
<1>6. /\ DOMAIN k = Slots /\ k[8] = Dec(b[7], Pkg2Seed)
      /\ \A s \in Slots : s # 8 => k[s] = b[s]
  BY <1>3, <1>5, UnwrapVals, SlotNumbers
<1> QED
  BY <1>4, <1>5, <1>6, SlotNumbers

\* What the derivation for Exosphere leaves in each slot.
LEMMA ExoVals ==
    ASSUME NEW sl, DOMAIN sl = Slots, NEW ks, NEW k, k = KeygenExo(sl, ks),
           NEW cons, cons = Dec(sl[14], Dec(sl[12], EksSeed(0))),
           NEW kek, kek = Dec(sl[13], ks)
    PROVE  /\ DOMAIN k = Slots
           /\ k[10] = Dec(cons, Console4xxSeed) /\ k[15] = Dec(cons, ConsoleSeed)
           /\ k[12] = Dec(kek, Master4xxSeed) /\ k[13] = Dec(kek, MasterSeed)
           /\ k[14] = sl[14] /\ k[8] = Dec(k[13], Pkg2Seed)
<1>1. PICK a : a = Unwrap(sl, 15, 14, Dec(sl[12], EksSeed(0)))
  OBVIOUS
<1>2. PICK b : b = Unwrap(a, 10, 15, Console4xxSeed)
  OBVIOUS
<1>3. PICK c : c = Unwrap(b, 15, 15, ConsoleSeed)
  OBVIOUS
<1>4. PICK d : d = Unwrap(c, 13, 13, ks)
  OBVIOUS
<1>5. PICK e : e = Unwrap(d, 12, 13, Master4xxSeed)
  OBVIOUS
<1>6. PICK f : f = Unwrap(e, 13, 13, MasterSeed)
  OBVIOUS
<1>7. k = Unwrap(f, 8, 13, Pkg2Seed)
  BY <1>1, <1>2, <1>3, <1>4, <1>5, <1>6 DEF KeygenExo
<1>11. /\ DOMAIN a = Slots /\ a[15] = cons
       /\ \A s \in Slots : s # 15 => a[s] = sl[s]
  BY <1>1, UnwrapVals, SlotNumbers
<1>12. /\ DOMAIN b = Slots /\ b[10] = Dec(a[15], Console4xxSeed)
       /\ \A s \in Slots : s # 10 => b[s] = a[s]
  BY <1>2, <1>11, UnwrapVals, SlotNumbers
<1>13. /\ DOMAIN c = Slots /\ c[15] = Dec(b[15], ConsoleSeed)
       /\ \A s \in Slots : s # 15 => c[s] = b[s]
  BY <1>3, <1>12, UnwrapVals, SlotNumbers
<1>14. /\ DOMAIN d = Slots /\ d[13] = Dec(c[13], ks)
       /\ \A s \in Slots : s # 13 => d[s] = c[s]
  BY <1>4, <1>13, UnwrapVals, SlotNumbers
<1>15. /\ DOMAIN e = Slots /\ e[12] = Dec(d[13], Master4xxSeed)
       /\ \A s \in Slots : s # 12 => e[s] = d[s]
  BY <1>5, <1>14, UnwrapVals, SlotNumbers
<1>16. /\ DOMAIN f = Slots /\ f[13] = Dec(e[13], MasterSeed)
       /\ \A s \in Slots : s # 13 => f[s] = e[s]
  BY <1>6, <1>15, UnwrapVals, SlotNumbers
<1>17. /\ DOMAIN k = Slots /\ k[8] = Dec(f[13], Pkg2Seed)
       /\ \A s \in Slots : s # 8 => k[s] = f[s]
  BY <1>7, <1>16, UnwrapVals, SlotNumbers
<1>20. {8, 10, 12, 13, 14, 15} \subseteq Slots
  BY SlotNumbers
<1>21. d[13] = kek /\ e[13] = kek /\ f[13] = Dec(kek, MasterSeed)
  BY <1>11, <1>12, <1>13, <1>14, <1>15, <1>16, <1>20
<1>22. f[12] = Dec(kek, Master4xxSeed) /\ f[14] = sl[14]
  BY <1>11, <1>12, <1>13, <1>14, <1>15, <1>16, <1>20, <1>21
<1>23. f[10] = Dec(cons, Console4xxSeed) /\ f[15] = Dec(cons, ConsoleSeed)
  BY <1>11, <1>12, <1>13, <1>14, <1>15, <1>16, <1>20
<1> QED
  BY <1>17, <1>20, <1>21, <1>22, <1>23

\* What the derivation of 6.2.0 leaves in each slot.
LEMMA Vals620 ==
    ASSUME NEW sl, DOMAIN sl = Slots, NEW tk, NEW e, ~e.exo, NEW k, k = Keygen620(sl, tk, e)
    PROVE  /\ DOMAIN k = Slots
           /\ k[12] = tk.tsec /\ k[13] = tk.troot
           /\ \A s \in {10, 14, 15} : k[s] = sl[s]
           /\ k[8] = Dec(Dec(Dec(tk.troot, Kek620Seed), MasterSeed), Pkg2Seed)
<1>1. PICK a : a = [sl EXCEPT ![12] = tk.tsec, ![13] = tk.troot]
  OBVIOUS
<1>2. PICK b : b = [a EXCEPT ![8] = tk.troot]
  OBVIOUS
<1>3. PICK c : c = Unwrap(b, 8, 8, Kek620Seed)
  OBVIOUS
<1>4. PICK d : d = Unwrap(c, 8, 8, MasterSeed)
  OBVIOUS
<1>5. PICK f : f = Unwrap(d, 8, 8, Pkg2Seed)
  OBVIOUS
<1>6. k = f
  BY <1>1, <1>2, <1>3, <1>4, <1>5 DEF Keygen620
<1>11. /\ DOMAIN a = Slots /\ a[12] = tk.tsec /\ a[13] = tk.troot
       /\ \A s \in {10, 14, 15} : a[s] = sl[s]
  BY <1>1, SlotNumbers
<1>12. /\ DOMAIN b = Slots /\ b[8] = tk.troot
       /\ \A s \in Slots : s # 8 => b[s] = a[s]
  BY <1>2, <1>11, SlotNumbers
<1>13. /\ DOMAIN c = Slots /\ c[8] = Dec(b[8], Kek620Seed)
       /\ \A s \in Slots : s # 8 => c[s] = b[s]
  BY <1>3, <1>12, UnwrapVals, SlotNumbers
<1>14. /\ DOMAIN d = Slots /\ d[8] = Dec(c[8], MasterSeed)
       /\ \A s \in Slots : s # 8 => d[s] = c[s]
  BY <1>4, <1>13, UnwrapVals, SlotNumbers
<1>15. /\ DOMAIN f = Slots /\ f[8] = Dec(d[8], Pkg2Seed)
       /\ \A s \in Slots : s # 8 => f[s] = d[s]
  BY <1>5, <1>14, UnwrapVals, SlotNumbers
<1>16. /\ DOMAIN f = Slots /\ f[12] = tk.tsec /\ f[13] = tk.troot
       /\ \A s \in {10, 14, 15} : f[s] = sl[s]
       /\ f[8] = Dec(Dec(Dec(tk.troot, Kek620Seed), MasterSeed), Pkg2Seed)
  BY <1>11, <1>12, <1>13, <1>14, <1>15, SlotNumbers
<1> QED
  BY <1>6, <1>16

\* The console key of slot 15 and what the eks of BOOT0 opens to, up to 6.1.0.
OldCons(sl, tk) == Dec(sl[14], Dec(tk.tsec, EksSeed(0)))
OldKek(sl, m, tk) == OldEks(Dec(sl[14], Dec(tk.tsec, EksSeed(m))), m, "master_kek")

\* What the derivation up to 6.1.0 leaves in each slot.
LEMMA OldVals ==
    ASSUME NEW sl, DOMAIN sl = Slots, NEW m \in Nat, NEW tk, NEW e,
           NEW k, k = KeygenOld(sl, m, tk, e),
           NEW cons, cons = OldCons(sl, tk), NEW kek, kek = OldKek(sl, m, tk)
    PROVE  /\ DOMAIN k = Slots
           /\ e.exo => /\ k[10] = Dec(cons, Console4xxSeed) /\ k[12] = Dec(kek, Master4xxSeed)
                       /\ k[13] = Dec(kek, MasterSeed) /\ k[15] = Dec(cons, ConsoleSeed)
                       /\ k[14] = sl[14]
           /\ ~e.exo /\ m <= V301 => /\ k[10] = sl[10] /\ k[12] = Dec(kek, MasterSeed)
                                     /\ k[13] = Dec(cons, ConsoleSeed) /\ k[14] = sl[14]
                                     /\ k[15] = cons
           /\ ~e.exo /\ m > V301 => /\ k[12] = Dec(kek, MasterSeed) /\ k[14] = Dec(kek, Master4xxSeed)
                                    /\ k[15] = Dec(cons, ConsoleSeed)
                                    /\ m = V400 => k[10] = sl[10] /\ k[13] = Dec(cons, Console4xxSeed)
                                    /\ m # V400 => k[10] = Dec(cons, Console4xxSeed) /\ k[13] = kek
           /\ k[8] = Dec(Dec(kek, MasterSeed), Pkg2Seed)
<1>1. PICK a : a = Unwrap(sl, 15, 14, Dec(tk.tsec, EksSeed(0)))
  OBVIOUS
<1>2. PICK a2 : a2 = Unwrap(a, 13, 14, Dec(tk.tsec, EksSeed(m)))
  OBVIOUS
<1>3. PICK p1 : p1 = OldEks(a2[13], m, "package1_key")
  OBVIOUS
<1>4. /\ DOMAIN a = Slots /\ a[15] = cons
      /\ \A s \in Slots : s # 15 => a[s] = sl[s]
  BY <1>1, UnwrapVals, SlotNumbers DEF OldCons
<1>5. /\ DOMAIN a2 = Slots /\ a2[13] = Dec(sl[14], Dec(tk.tsec, EksSeed(m)))
      /\ \A s \in Slots : s # 13 => a2[s] = a[s]
  BY <1>2, <1>4, UnwrapVals, SlotNumbers
<1>6. kek = OldEks(a2[13], m, "master_kek")
  BY <1>5 DEF OldKek
<1>7. PICK b : b = [a2 EXCEPT ![11] = p1, ![12] = kek, ![13] = kek]
  OBVIOUS
<1>8. /\ DOMAIN b = Slots /\ b[12] = kek /\ b[13] = kek /\ b[15] = cons
      /\ b[10] = sl[10] /\ b[14] = sl[14]
  BY <1>4, <1>5, <1>7, SlotNumbers
<1>9. CASE e.exo
  <2>1. PICK c : c = Unwrap(b, 10, 15, Console4xxSeed)
    OBVIOUS
  <2>2. PICK d : d = Unwrap(c, 15, 15, ConsoleSeed)
    OBVIOUS
  <2>3. PICK h : h = Unwrap(d, 13, 12, MasterSeed)
    OBVIOUS
  <2>4. PICK f : f = Unwrap(h, 12, 12, Master4xxSeed)
    OBVIOUS
  <2>5. PICK g : g = Unwrap(f, 8, 13, Pkg2Seed)
    OBVIOUS
  <2>6. k = g
    BY <1>1, <1>2, <1>3, <1>6, <1>7, <1>9, <2>1, <2>2, <2>3, <2>4, <2>5 DEF KeygenOld
  <2>11. /\ DOMAIN c = Slots /\ c[10] = Dec(cons, Console4xxSeed)
         /\ c[12] = kek /\ c[14] = sl[14] /\ c[15] = cons
    BY <1>8, <2>1, UnwrapVals, SlotNumbers
  <2>12. /\ DOMAIN d = Slots /\ d[10] = Dec(cons, Console4xxSeed)
         /\ d[12] = kek /\ d[14] = sl[14] /\ d[15] = Dec(cons, ConsoleSeed)
    BY <2>2, <2>11, UnwrapVals, SlotNumbers
  <2>13. /\ DOMAIN h = Slots /\ h[10] = Dec(cons, Console4xxSeed) /\ h[13] = Dec(kek, MasterSeed)
         /\ h[12] = kek /\ h[14] = sl[14] /\ h[15] = Dec(cons, ConsoleSeed)
    BY <2>3, <2>12, UnwrapVals, SlotNumbers
  <2>14. /\ DOMAIN f = Slots /\ f[10] = Dec(cons, Console4xxSeed) /\ f[13] = Dec(kek, MasterSeed)
         /\ f[12] = Dec(kek, Master4xxSeed) /\ f[14] = sl[14] /\ f[15] = Dec(cons, ConsoleSeed)
    BY <2>4, <2>13, UnwrapVals, SlotNumbers
  <2>15. /\ DOMAIN g = Slots /\ g[8] = Dec(f[13], Pkg2Seed)
         /\ \A s \in {10, 12, 13, 14, 15} : g[s] = f[s]
    BY <2>5, <2>14, UnwrapVals, SlotNumbers
  <2> QED
    BY <1>9, <2>6, <2>14, <2>15
<1>10. CASE ~e.exo /\ m <= V301
  <2>1. PICK c : c = Unwrap(b, 13, 15, ConsoleSeed)
    OBVIOUS
  <2>2. PICK d : d = Unwrap(c, 12, 12, MasterSeed)
    OBVIOUS
  <2>3. PICK g : g = Unwrap(d, 8, 12, Pkg2Seed)
    OBVIOUS
  <2>4. k = g
    BY <1>1, <1>2, <1>3, <1>6, <1>7, <1>10, <2>1, <2>2, <2>3 DEF KeygenOld
  <2>11. /\ DOMAIN c = Slots /\ c[13] = Dec(cons, ConsoleSeed)
         /\ c[10] = sl[10] /\ c[12] = kek /\ c[14] = sl[14] /\ c[15] = cons
    BY <1>8, <2>1, UnwrapVals, SlotNumbers
  <2>12. /\ DOMAIN d = Slots /\ d[13] = Dec(cons, ConsoleSeed)
         /\ d[10] = sl[10] /\ d[12] = Dec(kek, MasterSeed) /\ d[14] = sl[14] /\ d[15] = cons
    BY <2>2, <2>11, UnwrapVals, SlotNumbers
  <2>13. /\ DOMAIN g = Slots /\ g[8] = Dec(d[12], Pkg2Seed)
         /\ \A s \in {10, 12, 13, 14, 15} : g[s] = d[s]
    BY <2>3, <2>12, UnwrapVals, SlotNumbers
  <2> QED
    BY <1>10, <2>4, <2>12, <2>13 DEF V301
<1>11. CASE ~e.exo /\ ~(m <= V301)
  <2>0. PICK dst \in {10, 13} : dst = IF m = V400 THEN 13 ELSE 10
    OBVIOUS
  <2>1. PICK c : c = Unwrap(b, dst, 15, Console4xxSeed)
    OBVIOUS
  <2>2. PICK d : d = Unwrap(c, 15, 15, ConsoleSeed)
    OBVIOUS
  <2>3. PICK h : h = Unwrap(d, 14, 12, Master4xxSeed)
    OBVIOUS
  <2>4. PICK f : f = Unwrap(h, 12, 12, MasterSeed)
    OBVIOUS
  <2>5. k = Unwrap(f, 8, 12, Pkg2Seed)
    BY <1>1, <1>2, <1>3, <1>6, <1>7, <1>11, <2>0, <2>1, <2>2, <2>3, <2>4 DEF KeygenOld
  <2>11. /\ DOMAIN c = Slots /\ c[dst] = Dec(cons, Console4xxSeed)
         /\ \A s \in {10, 13} : s # dst => c[s] = b[s]
         /\ c[12] = kek /\ c[15] = cons
    BY <1>8, <2>1, UnwrapVals, SlotNumbers
  <2>12. /\ DOMAIN d = Slots /\ \A s \in {10, 13} : d[s] = c[s]
         /\ d[12] = kek /\ d[15] = Dec(cons, ConsoleSeed)
    BY <2>2, <2>11, UnwrapVals, SlotNumbers
  <2>13. /\ DOMAIN h = Slots /\ \A s \in {10, 13} : h[s] = c[s]
         /\ h[12] = kek /\ h[14] = Dec(kek, Master4xxSeed) /\ h[15] = Dec(cons, ConsoleSeed)
    BY <2>3, <2>12, UnwrapVals, SlotNumbers
  <2>14. /\ DOMAIN f = Slots /\ \A s \in {10, 13} : f[s] = c[s]
         /\ f[12] = Dec(kek, MasterSeed) /\ f[14] = Dec(kek, Master4xxSeed)
         /\ f[15] = Dec(cons, ConsoleSeed)
    BY <2>4, <2>13, UnwrapVals, SlotNumbers
  <2>15. /\ DOMAIN k = Slots /\ k[8] = Dec(f[12], Pkg2Seed)
         /\ \A s \in {10, 12, 13, 14, 15} : k[s] = f[s]
    BY <2>5, <2>14, UnwrapVals, SlotNumbers
  <2>16. \A s \in {10, 13} : k[s] = c[s]
    BY <2>14, <2>15
  <2>17. /\ m = V400 => k[10] = sl[10] /\ k[13] = Dec(cons, Console4xxSeed)
         /\ m # V400 => k[10] = Dec(cons, Console4xxSeed) /\ k[13] = kek
    BY <1>8, <2>0, <2>11, <2>16
  <2> QED
    BY <1>11, <2>14, <2>15, <2>17 DEF V301
<1> QED
  BY <1>9, <1>10, <1>11

----------------------------------------------------------------------------
(* The keys after a keygen are those of a first launch, or do not open     *)
(* package2.                                                               *)

\* FreshSlots, of a console and a firmware.
FreshFor(u, m, e) ==
    LET tk == TsecKeys(m)
        on == PowerOnSlots(u)
        sl == IF ~u.t210b01 /\ m >= V700
                THEN [on EXCEPT ![12] = tk.tsec, ![13] = tk.troot, ![11] = tk.dev] ELSE on
    IN  Derived(sl, u, m, tk, e)

\* The slots the secure monitor uses are as after a first launch.
Fresh(sl, u, m, e) ==
    \A s \in {10, 12, 13, 14, 15} : FreshFor(u, m, e)[s] # Junk => sl[s] = FreshFor(u, m, e)[s]

\* package2 opens.
Opens(sl, u, m, e) == DecryptKey(sl, u, m, e) = Pkg2Key(u, m)

\* What the boot ROM leaves in the slots that matter.
LEMMA PowerOnVals ==
    ASSUME NEW u, NEW on, on = PowerOnSlots(u)
    PROVE  /\ DOMAIN on = Slots /\ on[14] = SBK /\ on[10] = Junk /\ on[15] = Junk
           /\ u.t210b01 => on[12] = Atom("kek", 0) /\ on[13] = Atom("bek", 0)
           /\ ~u.t210b01 => on[12] = Junk /\ on[13] = Junk
BY DEF PowerOnSlots, Slots

\* The slots a derivation starts from on T210: SBK, from 7.0.0 the TSEC keys.
Loaded(sl, m, tk) ==
    /\ DOMAIN sl = Slots /\ sl[14] = SBK
    /\ m >= V700 => sl[12] = tk.tsec /\ sl[13] = tk.troot

\* A first launch derives from the right TSEC keys.
LEMMA FreshLoaded ==
    ASSUME NEW u, ~u.t210b01, NEW m \in Nat, NEW e
    PROVE  \E sl : /\ Loaded(sl, m, TsecKeys(m)) /\ sl[10] = Junk /\ sl[15] = Junk
                   /\ FreshFor(u, m, e) = Derived(sl, u, m, TsecKeys(m), e)
<1>1. PICK on : on = PowerOnSlots(u)
  OBVIOUS
<1>2. PICK tk : tk = TsecKeys(m)
  OBVIOUS
<1>3. PICK sl : sl = IF m >= V700
                       THEN [on EXCEPT ![12] = tk.tsec, ![13] = tk.troot, ![11] = tk.dev] ELSE on
  OBVIOUS
<1>4. Loaded(sl, m, tk) /\ sl[10] = Junk /\ sl[15] = Junk
  BY <1>1, <1>3, PowerOnVals, SlotNumbers DEF Loaded
<1>5. FreshFor(u, m, e) = Derived(sl, u, m, tk, e)
  BY <1>1, <1>2, <1>3 DEF FreshFor
<1> QED
  BY <1>2, <1>4, <1>5

\* Two derivations from the same SBK and TSEC keys leave the same slots, but for
\* those neither of them writes.
LEMMA SameDerived ==
    ASSUME NEW u, ~u.t210b01, NEW m \in Nat, NEW e, NEW tk,
           NEW sl, Loaded(sl, m, tk), NEW on, Loaded(on, m, tk), on[10] = Junk, on[15] = Junk,
           NEW k, k = Derived(sl, u, m, tk, e), NEW f, f = Derived(on, u, m, tk, e)
    PROVE  DOMAIN k = Slots /\ \A s \in {10, 12, 13, 14, 15} : f[s] # Junk => k[s] = f[s]
<1>1. CASE m >= V700 /\ e.exo
  <2>1. k = KeygenExo(sl, KekV4Seed(m)) /\ f = KeygenExo(on, KekV4Seed(m))
    BY <1>1 DEF Derived, V620, V700
  <2> QED
    BY <1>1, <2>1, ExoVals DEF Loaded, V700
<1>2. CASE m >= V700 /\ ~e.exo
  <2>1. k = KeygenNew(sl, m) /\ f = KeygenNew(on, m)
    BY <1>2 DEF Derived, V620, V700
  <2> QED
    BY <1>2, <2>1, NewVals DEF Loaded
<1>3. CASE m = V620 /\ e.exo
  <2>1. PICK a : a = [sl EXCEPT ![12] = tk.tsec, ![13] = tk.troot]
    OBVIOUS
  <2>2. PICK b : b = [on EXCEPT ![12] = tk.tsec, ![13] = tk.troot]
    OBVIOUS
  <2>3. k = KeygenExo(a, Kek620Seed) /\ f = KeygenExo(b, Kek620Seed)
    BY <1>3, <2>1, <2>2 DEF Derived, Keygen620, V620, V700
  <2>4. /\ DOMAIN a = Slots /\ DOMAIN b = Slots /\ a[12] = b[12] /\ a[13] = b[13]
        /\ a[14] = SBK /\ b[14] = SBK
    BY <2>1, <2>2, SlotNumbers DEF Loaded
  <2> QED
    BY <2>3, <2>4, ExoVals
<1>4. CASE m = V620 /\ ~e.exo
  <2>1. k = Keygen620(sl, tk, e) /\ f = Keygen620(on, tk, e)
    BY <1>4 DEF Derived, V620, V700
  <2> QED
    BY <1>4, <2>1, Vals620 DEF Loaded
<1>5. CASE m < V620
  <2>1. k = KeygenOld(sl, m, tk, e) /\ f = KeygenOld(on, m, tk, e)
    BY <1>5 DEF Derived, V620, V700
  <2>2. PICK cons : cons = OldCons(sl, tk)
    OBVIOUS
  <2>3. PICK kek : kek = OldKek(sl, m, tk)
    OBVIOUS
  <2>4. cons = OldCons(on, tk) /\ kek = OldKek(on, m, tk)
    BY <2>2, <2>3 DEF OldCons, OldKek, Loaded
  <2>5. DOMAIN sl = Slots /\ DOMAIN on = Slots /\ sl[14] = on[14]
    BY DEF Loaded
  <2>6. CASE e.exo
    <3>1. /\ DOMAIN k = Slots /\ k[10] = Dec(cons, Console4xxSeed) /\ k[12] = Dec(kek, Master4xxSeed)
          /\ k[13] = Dec(kek, MasterSeed) /\ k[15] = Dec(cons, ConsoleSeed) /\ k[14] = sl[14]
      BY <2>1, <2>2, <2>3, <2>5, <2>6, OldVals
    <3>2. /\ f[10] = Dec(cons, Console4xxSeed) /\ f[12] = Dec(kek, Master4xxSeed)
          /\ f[13] = Dec(kek, MasterSeed) /\ f[15] = Dec(cons, ConsoleSeed) /\ f[14] = on[14]
      BY <2>1, <2>4, <2>5, <2>6, OldVals
    <3> QED
      BY <2>5, <3>1, <3>2
  <2>7. CASE ~e.exo /\ m <= V301
    <3>1. /\ DOMAIN k = Slots /\ k[12] = Dec(kek, MasterSeed)
          /\ k[13] = Dec(cons, ConsoleSeed) /\ k[15] = cons /\ k[14] = sl[14]
      BY <2>1, <2>2, <2>3, <2>5, <2>7, OldVals
    <3>2. /\ f[10] = Junk /\ f[12] = Dec(kek, MasterSeed)
          /\ f[13] = Dec(cons, ConsoleSeed) /\ f[15] = cons /\ f[14] = on[14]
      BY <2>1, <2>4, <2>5, <2>7, OldVals
    <3> QED
      BY <2>5, <3>1, <3>2
  <2>8. CASE ~e.exo /\ ~(m <= V301)
    <3>0. m > V301
      BY <2>8 DEF V301
    <3>1. /\ DOMAIN k = Slots /\ k[12] = Dec(kek, MasterSeed) /\ k[14] = Dec(kek, Master4xxSeed)
          /\ k[15] = Dec(cons, ConsoleSeed)
          /\ m = V400 => k[13] = Dec(cons, Console4xxSeed)
          /\ m # V400 => k[10] = Dec(cons, Console4xxSeed) /\ k[13] = kek
      BY <2>1, <2>2, <2>3, <2>5, <2>8, <3>0, OldVals
    <3>2. /\ f[12] = Dec(kek, MasterSeed) /\ f[14] = Dec(kek, Master4xxSeed)
          /\ f[15] = Dec(cons, ConsoleSeed)
          /\ m = V400 => f[10] = Junk /\ f[13] = Dec(cons, Console4xxSeed)
          /\ m # V400 => f[10] = Dec(cons, Console4xxSeed) /\ f[13] = kek
      BY <2>1, <2>4, <2>5, <2>8, <3>0, OldVals
    <3> QED
      BY <3>1, <3>2
  <2> QED
    BY <2>6, <2>7, <2>8
<1> QED
  BY <1>1, <1>2, <1>3, <1>4, <1>5 DEF V620, V700

\* The right TSEC keys give what a first launch gives.
LEMMA RightIsFresh ==
    ASSUME NEW u, ~u.t210b01, NEW m \in Nat, NEW e, NEW tk, tk = TsecKeys(m),
           NEW sl, Loaded(sl, m, tk), NEW k, k = Derived(sl, u, m, tk, e)
    PROVE  DOMAIN k = Slots /\ Fresh(k, u, m, e)
<1>1. PICK on : /\ Loaded(on, m, tk) /\ on[10] = Junk /\ on[15] = Junk
                /\ FreshFor(u, m, e) = Derived(on, u, m, tk, e)
  BY FreshLoaded
<1> QED
  BY <1>1, SameDerived DEF Fresh

\* Keys are equal only if they are the same term.
LEMMA TermFacts ==
    /\ \A k, x, l, y : Dec(k, x) = Dec(l, y) => k = l /\ x = y
    /\ \A a, m, b, n : Atom(a, m) = Atom(b, n) => a = b /\ m = n
    /\ \A a, m, k, x : Atom(a, m) # Dec(k, x)
BY DEF Dec, Atom

\* The TSEC keys by firmware; one that lost the race gives none of them.
LEMMA TsecVals ==
    ASSUME NEW m \in Nat
    PROVE  /\ m <= V600 => TsecKeys(m).tsec = Atom("tsec", 0)
           /\ m = V620 => TsecKeys(m).tsec = Atom("tsec", 6) /\ TsecKeys(m).troot = Atom("tsec_root", 6)
           /\ m >= V700 => TsecKeys(m).tsec = Atom("tsec", 7) /\ TsecKeys(m).troot = Atom("tsec_root", 7)
           /\ m >= V700 => TsecKeys(m) = TsecKeys(V700)
           /\ TsecKeys(m) # WrongKeys
BY TermFacts DEF TsecKeys, V600, V620, V700, WrongKeys, Wrong

\* The key package2 is opened with on T210, from the master kek a derivation had.
LEMMA OpenedWith ==
    ASSUME NEW u, ~u.t210b01, NEW m \in Nat, NEW e, NEW tk,
           NEW sl, Loaded(sl, m, tk), NEW k, k = Derived(sl, u, m, tk, e)
    PROVE  /\ m < V620 =>
                DecryptKey(k, u, m, e) = Dec(Dec(OldKek(sl, m, tk), MasterSeed), Pkg2Seed)
           /\ m = V620 => DecryptKey(k, u, m, e)
                            = Dec(Dec(Dec(tk.troot, Kek620Seed), MasterSeed), Pkg2Seed)
           /\ m = V700 => DecryptKey(k, u, m, e)
                            = Dec(Dec(Dec(Dec(tk.troot, KekV4Seed(m)), MasterSeed), Mkey7Vector), Pkg2Seed)
           /\ m > V700 => DecryptKey(k, u, m, e)
                            = Dec(Dec(Dec(tk.troot, KekV4Seed(m)), MasterSeed), Pkg2Seed)
<1>1. CASE m >= V700 /\ e.exo
  <2>1. k = KeygenExo(sl, KekV4Seed(m))
    BY <1>1 DEF Derived, V620, V700
  <2>2. k[13] = Dec(Dec(tk.troot, KekV4Seed(m)), MasterSeed) /\ k[8] = Dec(k[13], Pkg2Seed)
    BY <1>1, <2>1, ExoVals DEF Loaded
  <2> QED
    BY <1>1, <2>2 DEF DecryptKey, V620, V700
<1>2. CASE m >= V700 /\ ~e.exo
  <2>1. k = KeygenNew(sl, m)
    BY <1>2 DEF Derived, V620, V700
  <2>2. k[7] = Dec(Dec(tk.troot, KekV4Seed(m)), MasterSeed) /\ k[8] = Dec(k[7], Pkg2Seed)
    BY <1>2, <2>1, NewVals DEF Loaded
  <2> QED
    BY <1>2, <2>2 DEF DecryptKey, V620, V700
<1>3. CASE m = V620 /\ e.exo
  <2>1. PICK a : a = [sl EXCEPT ![12] = tk.tsec, ![13] = tk.troot]
    OBVIOUS
  <2>2. k = KeygenExo(a, Kek620Seed)
    BY <1>3, <2>1 DEF Derived, Keygen620, V620, V700
  <2>3. DOMAIN a = Slots /\ a[13] = tk.troot
    BY <2>1, SlotNumbers DEF Loaded
  <2>4. k[8] = Dec(Dec(Dec(tk.troot, Kek620Seed), MasterSeed), Pkg2Seed)
    BY <2>2, <2>3, ExoVals
  <2> QED
    BY <1>3, <2>4 DEF DecryptKey, V620, V700
<1>4. CASE m = V620 /\ ~e.exo
  <2>1. k = Keygen620(sl, tk, e)
    BY <1>4 DEF Derived, V620, V700
  <2>2. k[8] = Dec(Dec(Dec(tk.troot, Kek620Seed), MasterSeed), Pkg2Seed)
    BY <1>4, <2>1, Vals620 DEF Loaded
  <2> QED
    BY <1>4, <2>2 DEF DecryptKey, V620, V700
<1>5. CASE m < V620
  <2>1. k = KeygenOld(sl, m, tk, e)
    BY <1>5 DEF Derived, V620, V700
  <2>2. k[8] = Dec(Dec(OldKek(sl, m, tk), MasterSeed), Pkg2Seed)
    BY <2>1, OldVals DEF Loaded
  <2> QED
    BY <1>5, <2>2 DEF DecryptKey, V620, V700
<1> QED
  BY <1>1, <1>2, <1>3, <1>4, <1>5 DEF V620, V700

\* The right TSEC keys open package2.
LEMMA RightOpens ==
    ASSUME NEW u, ~u.t210b01, NEW m \in Nat, NEW e, NEW tk, tk = TsecKeys(m),
           NEW sl, Loaded(sl, m, tk), NEW k, k = Derived(sl, u, m, tk, e), m >= V700
    PROVE  Opens(k, u, m, e)
<1>1. CASE m = V700
  BY <1>1, OpenedWith DEF Opens, Pkg2Key, V600, V620, V700
<1>2. CASE m > V700
  BY <1>2, OpenedWith DEF Opens, Pkg2Key, V600, V620, V700
<1> QED
  BY <1>1, <1>2 DEF V700

\* The wrong ones do not.
LEMMA WrongStaysShut ==
    ASSUME NEW u, ~u.t210b01, NEW m \in Nat, NEW e, NEW tk, tk = WrongKeys,
           NEW sl, Loaded(sl, m, tk), NEW k, k = Derived(sl, u, m, tk, e)
    PROVE  ~Opens(k, u, m, e)
<1>0. tk.tsec = Wrong /\ tk.troot = Wrong
  BY DEF WrongKeys
<1>1. CASE m < V620
  <2>1. OldKek(sl, m, tk) = Wrong
    <3>1. Dec(SBK, Dec(Wrong, EksSeed(m))) # OldEksKey(m, TsecKeys(m))
      BY <1>1, TermFacts, TsecVals DEF OldEksKey, Wrong, V600, V620
    <3> QED
      BY <1>0, <3>1 DEF OldKek, OldEks, Loaded
  <2>2. Pkg2Key(u, m) = Dec(Dec(Atom("master_kek", m), MasterSeed), Pkg2Seed)
    BY <1>1 DEF Pkg2Key, V600, V620, V700
  <2> QED
    BY <1>1, <2>1, <2>2, OpenedWith, TermFacts DEF Opens, Wrong
<1>2. CASE m = V620
  <2>1. Pkg2Key(u, m) = Dec(Dec(Dec(TsecKeys(m).troot, Kek620Seed), MasterSeed), Pkg2Seed)
    BY <1>2 DEF Pkg2Key, V600, V620, V700
  <2> QED
    BY <1>0, <1>2, <2>1, OpenedWith, TermFacts, TsecVals DEF Opens, Wrong
<1>3. CASE m = V700
  <2>1. Pkg2Key(u, m) = Dec(Dec(Dec(Dec(TsecKeys(m).troot, KekV4Seed(m)), MasterSeed), Mkey7Vector), Pkg2Seed)
    BY <1>3 DEF Pkg2Key, V600, V620, V700
  <2> QED
    BY <1>0, <1>3, <2>1, OpenedWith, TermFacts, TsecVals DEF Opens, Wrong
<1>4. CASE m > V700
  <2>1. Pkg2Key(u, m) = Dec(Dec(Dec(TsecKeys(m).troot, KekV4Seed(m)), MasterSeed), Pkg2Seed)
    BY <1>4 DEF Pkg2Key, V600, V620, V700
  <2> QED
    BY <1>0, <1>4, <2>1, OpenedWith, TermFacts, TsecVals DEF Opens, Wrong, V700
<1> QED
  BY <1>1, <1>2, <1>3, <1>4 DEF V620, V700

\* T210B01 derives from the keys the boot ROM left.
LEMMA MarikoIsFresh ==
    ASSUME NEW u, u.t210b01, NEW m \in Nat, NEW e, NEW sl, DOMAIN sl = Slots,
           sl[12] = Atom("kek", 0), sl[13] = Atom("bek", 0), sl[14] = SBK,
           NEW k, k = KeygenMariko(sl, m)
    PROVE  /\ DOMAIN k = Slots /\ Fresh(k, u, m, e)
           /\ k[12] = Atom("kek", 0) /\ k[13] = Atom("bek", 0) /\ k[14] = SBK
<1>1. PICK on : on = PowerOnSlots(u)
  OBVIOUS
<1>2. PICK f : f = KeygenMariko(on, m)
  OBVIOUS
<1>3. FreshFor(u, m, e) = f
  BY <1>1, <1>2 DEF FreshFor, Derived
<1>4. /\ DOMAIN on = Slots /\ on[14] = SBK /\ on[15] = Junk
      /\ on[12] = Atom("kek", 0) /\ on[13] = Atom("bek", 0)
  BY <1>1, PowerOnVals
<1>5. /\ f[10] = Dec(SBK, Console4xxSeed) /\ f[12] = Atom("kek", 0) /\ f[13] = Atom("bek", 0)
      /\ f[14] = SBK /\ f[15] = Junk
  BY <1>2, <1>4, MarikoVals
<1>6. /\ DOMAIN k = Slots /\ k[10] = Dec(SBK, Console4xxSeed) /\ k[12] = Atom("kek", 0)
      /\ k[13] = Atom("bek", 0) /\ k[14] = SBK
  BY MarikoVals
<1> QED
  BY <1>3, <1>5, <1>6 DEF Fresh

----------------------------------------------------------------------------
(* The inductive invariant.                                                *)

RightKeys == TsecKeys(V700)
EksRecs == [enabled : BOOLEAN, keys : {RightKeys, WrongKeys}, found : BOOLEAN]

LaunchTypes ==
    /\ unit \in Units /\ hos \in Installs
    /\ sbk_is_set \in BOOLEAN
    /\ ext_patches \in {"unparsed", "parsed", "missing"}
    /\ phase \in {"menu", "pkg1", "keys", "tsec", "save", "derive", "unpack", "warmboot",
                  "pkg2", "patch", "ask", "boot", "booted"}
    /\ launches \in 0 .. MaxLaunches /\ troubles \in 0 .. MaxTroubles

\* The EKS blobs in RAM and on the card.
Blobs ==
    /\ eks \in EksRecs /\ mbr_eks.eks \in EksRecs
    /\ eks.enabled => eks.found
    /\ mbr_eks.eks.enabled => mbr_eks.eks.found

\* The slots no launch may lose.
SeSound ==
    /\ DOMAIN slot = Slots
    /\ sbk_is_set => slot[14] = SBK
    /\ unit.t210b01 => sbk_is_set /\ slot[12] = Atom("kek", 0) /\ slot[13] = Atom("bek", 0)

Named ==
    /\ phase = "pkg1" => ctxt.e \in Entries
    /\ phase \notin {"menu", "pkg1"} => ctxt.id \in pkg1_ids /\ ctxt.e \in Entries

\* The keys on their way into the slots.
Loading ==
    /\ phase \in {"tsec", "save", "derive"} => ~unit.t210b01 /\ sbk_is_set
    /\ phase = "save" => mkey >= V700 /\ ctxt.from = "tsec"
    /\ phase \in {"save", "derive"} =>
         /\ ctxt.tk \in {TsecKeys(mkey), WrongKeys}
         /\ mkey >= V700 => slot[12] = ctxt.tk.tsec /\ slot[13] = ctxt.tk.troot /\ slot[11] = ctxt.tk.dev
    /\ phase = "derive" /\ ctxt.from = "eks" => ctxt.tk = eks.keys
    /\ phase \in {"derive", "unpack", "warmboot", "pkg2"} /\ ctxt.from = "eks" =>
         ~unit.t210b01 /\ mkey >= V700 /\ eks.enabled

IsFresh == Fresh(slot, unit, mkey, ctxt.e)
IsOpen  == Opens(slot, unit, mkey, ctxt.e)

\* The keys in the slots are those of a first launch, or package2 will not open.
Filled ==
    /\ phase \in {"unpack", "warmboot", "pkg2"} /\ ctxt.from # "stale" => IsFresh \/ ~IsOpen
    /\ phase \in {"patch", "ask", "boot", "booted"} /\ ctxt.from # "stale" => IsFresh
    /\ phase \in {"unpack", "warmboot", "pkg2"} /\ ctxt.from = "eks" /\ eks.keys = RightKeys => IsOpen

\* After a refusal no wrong keys are left.
Cleared ==
    /\ relapses \in {0, 1}
    /\ relapses = 1 =>
         /\ eks.enabled => eks.keys = RightKeys
         /\ mbr_eks.eks.enabled => mbr_eks.eks.keys = RightKeys
         /\ phase = "save" => ctxt.tk = RightKeys

LaunchInv == LaunchTypes /\ Blobs /\ SeSound /\ Named /\ Loading /\ Filled /\ Cleared

----------------------------------------------------------------------------
(* Every step keeps it.                                                    *)

\* The master key version is a number once package1 is known.
LEMMA KeyNumber == ASSUME LaunchInv, phase \notin {"menu", "pkg1"} PROVE mkey \in Nat
BY DEF LaunchInv, Named, mkey, pkg1_ids

\* It holds at power on.
LEMMA LaunchStarts == ASSUME LaunchInit PROVE LaunchInv
<1>1. eks \in EksRecs /\ mbr_eks.eks \in EksRecs /\ ~eks.enabled /\ ~mbr_eks.eks.enabled
  BY DEF LaunchInit, NoEks, NoBlob, EksRecs
<1>2. LaunchTypes
  <2>1. sbk_is_set \in BOOLEAN
    BY Zenon DEF LaunchInit
  <2>2. launches \in 0 .. MaxLaunches /\ troubles \in 0 .. MaxTroubles
    BY LaunchInputs DEF LaunchInit
  <2> QED
    BY <2>1, <2>2 DEF LaunchInit, LaunchTypes
<1>3. SeSound
  BY PowerOnVals DEF LaunchInit, SeSound
<1> QED
  BY <1>1, <1>2, <1>3 DEF LaunchInit, LaunchInv, Blobs, Named, Loading, Filled, Cleared

\* Back to the menu: only what outlives a launch matters.
LEMMA BackToMenu ==
    ASSUME LaunchInv, phase' = "menu",
           UNCHANGED <<unit, hos, launches, slot, sbk_is_set, eks, mbr_eks>>,
           ext_patches' = ext_patches \/ ext_patches' \in {"unparsed", "parsed", "missing"},
           NoTrouble
    PROVE  LaunchInv'
BY DEF LaunchInv, LaunchTypes, Blobs, SeSound, Named, Loading, Filled, Cleared, NoTrouble

\* The launch goes on with the keys it has.
LEMMA GoesOnWithKeys ==
    ASSUME LaunchInv, NoTrouble,
           UNCHANGED <<unit, hos, launches, slot, sbk_is_set, eks, mbr_eks>>,
           ext_patches' \in {"unparsed", "parsed", "missing"},
           ctxt'.e = ctxt.e, ctxt'.id = ctxt.id, ctxt'.from = ctxt.from,
           \/ phase \in {"unpack", "warmboot"} /\ phase' \in {"warmboot", "pkg2"}
           \/ phase \in {"patch", "ask"} /\ phase' \in {"ask", "boot"}
    PROVE  LaunchInv'
<1>1. LaunchTypes' /\ Blobs' /\ SeSound' /\ Named' /\ Cleared'
  BY DEF LaunchInv, LaunchTypes, Blobs, SeSound, Named, Cleared, NoTrouble
<1>2. Loading'
  BY DEF LaunchInv, Loading, mkey
<1>3. (IsFresh' <=> IsFresh) /\ (IsOpen' <=> IsOpen)
  BY DEF IsFresh, IsOpen, mkey
<1>4. Filled'
  BY <1>3 DEF LaunchInv, Filled
<1> QED
  BY <1>1, <1>2, <1>4 DEF LaunchInv

\* A reboot keeps only the blob on the card.
LEMMA PowerOnStep ==
    ASSUME LaunchInv, LaunchPowerOn, UNCHANGED <<console, mbr_eks>>, NoTrouble
    PROVE  LaunchInv'
<1>1. eks' \in EksRecs /\ ~eks'.enabled
  BY DEF LaunchPowerOn, NoEks, EksRecs
<1>2. LaunchTypes'
  <2>1. sbk_is_set' \in BOOLEAN
    BY Zenon DEF LaunchPowerOn
  <2> QED
    BY <2>1 DEF LaunchPowerOn, LaunchInv, LaunchTypes, console, NoTrouble
<1>3. SeSound'
  BY PowerOnVals DEF LaunchPowerOn, SeSound, console
<1> QED
  BY <1>1, <1>2, <1>3 DEF LaunchPowerOn, LaunchInv, Blobs, Named, Loading, Filled, Cleared, console,
                          NoTrouble

\* hos_launch starts another entry.
LEMMA LaunchStep == ASSUME LaunchInv, NEW e \in Entries, hos_launch(e) PROVE LaunchInv'
BY LaunchInputs DEF LaunchInv, LaunchTypes, Blobs, SeSound, Named, Loading, Filled, Cleared,
   NoTrouble, hos_launch, seStore, ekses

\* package1 is identified.
LEMMA ReadPkg1Step == ASSUME LaunchInv, ReadPkg1 PROVE LaunchInv'
<1>1. CASE phase' = "menu"
  BY <1>1, BackToMenu DEF ReadPkg1, Error, console, seStore, ekses, LaunchInv, LaunchTypes
<1>2. CASE phase' # "menu"
  <2>1. /\ phase' = "keys" /\ ctxt'.e = ctxt.e /\ ctxt'.id \in {hos.emu, hos.sys} /\ phase = "pkg1"
        /\ UNCHANGED <<console, seStore, ekses, ext_patches>> /\ NoTrouble
    BY <1>2 DEF ReadPkg1, Error
  <2>2. ctxt'.id \in pkg1_ids
    BY <2>1, LaunchInputs DEF LaunchInv, LaunchTypes
  <2> QED
    BY <2>1, <2>2 DEF LaunchInv, LaunchTypes, Blobs, SeSound, Named, Loading, Filled, Cleared,
       NoTrouble, console, seStore, ekses
<1> QED
  BY <1>1, <1>2

\* Or it is not.
LEMMA Pkg1UnknownStep ==
    ASSUME LaunchInv, NEW autorcm \in BOOLEAN, Pkg1Unknown(autorcm)
    PROVE LaunchInv'
<1>1. CASE LaunchPowerOn
  BY <1>1, PowerOnStep DEF Pkg1Unknown
<1>2. CASE ~LaunchPowerOn
  BY <1>2, BackToMenu DEF Pkg1Unknown, Error, console, seStore, LaunchInv, LaunchTypes
<1> QED
  BY <1>1, <1>2

\* T210B01 derives from its own keys.
LEMMA KeygenB01Step == ASSUME LaunchInv, KeygenB01 PROVE LaunchInv'
<1>0. PICK m \in Nat : m = mkey
  BY KeyNumber DEF KeygenB01
<1>1. PICK u \in Units : u = unit
  BY DEF LaunchInv, LaunchTypes
<1>2. PICK e : e = ctxt.e
  OBVIOUS
<1>3. PICK sl : sl = slot
  OBVIOUS
<1>4. PICK k : k = KeygenMariko(sl, m)
  OBVIOUS
<1>5. /\ u.t210b01 /\ DOMAIN sl = Slots /\ sl[12] = Atom("kek", 0) /\ sl[13] = Atom("bek", 0)
      /\ sl[14] = SBK /\ sbk_is_set
  BY <1>1, <1>3 DEF LaunchInv, SeSound, KeygenB01
<1>6. /\ DOMAIN k = Slots /\ Fresh(k, u, m, e)
      /\ k[12] = Atom("kek", 0) /\ k[13] = Atom("bek", 0) /\ k[14] = SBK
  BY <1>4, <1>5, MarikoIsFresh
<1>7. /\ slot' = k /\ phase = "keys" /\ phase' = "unpack" /\ ctxt'.from = "kek" /\ ctxt'.e = e
      /\ ctxt'.id = ctxt.id /\ UNCHANGED <<console, sbk_is_set, ekses, ext_patches>> /\ NoTrouble
  BY <1>0, <1>2, <1>3, <1>4 DEF KeygenB01, Keyed
<1>8. IsFresh'
  BY <1>0, <1>1, <1>6, <1>7 DEF IsFresh, mkey, console
<1>9. LaunchTypes' /\ Blobs' /\ Named' /\ Cleared' /\ Loading'
  BY <1>2, <1>7 DEF LaunchInv, LaunchTypes, Blobs, Named, Cleared, Loading, NoTrouble, console, ekses
<1>10. SeSound'
  BY <1>5, <1>6, <1>7 DEF SeSound
<1>11. Filled'
  BY <1>7, <1>8 DEF Filled
<1> QED
  BY <1>9, <1>10, <1>11 DEF LaunchInv

\* The SBK is lost: the keys are stale from here on.
LEMMA KeygenStaleStep == ASSUME LaunchInv, KeygenStale PROVE LaunchInv'
<1>1. /\ phase = "keys" /\ phase' = "unpack" /\ ctxt'.from = "stale" /\ ctxt'.e = ctxt.e
      /\ ctxt'.id = ctxt.id /\ UNCHANGED <<console, seStore, ekses, ext_patches>> /\ NoTrouble
  BY DEF KeygenStale, Keyed
<1>2. LaunchTypes' /\ Blobs' /\ Named' /\ Cleared' /\ Loading' /\ SeSound'
  BY <1>1 DEF LaunchInv, LaunchTypes, Blobs, Named, Cleared, Loading, SeSound, NoTrouble, console,
              ekses, seStore
<1>3. Filled'
  BY <1>1 DEF Filled
<1> QED
  BY <1>2, <1>3 DEF LaunchInv

\* The SBK is back, the EKS is read.
LEMMA KeygenStartStep ==
    ASSUME LaunchInv, NEW read \in BOOLEAN, KeygenStart(read)
    PROVE LaunchInv'
<1>0. PICK m \in Nat : m = mkey
  BY KeyNumber DEF KeygenStart
<1>1. PICK w : w = WithSbk
  OBVIOUS
<1>2. DOMAIN w = Slots /\ w[14] = SBK
  BY <1>1, SlotNumbers DEF WithSbk, LaunchInv, SeSound
<1>3. PICK k \in EksRecs : k = eks'
  BY DEF LaunchInv, Blobs, KeygenStart, EksGot
<1>4. (k.enabled => k.found) /\ k \in {eks, mbr_eks.eks}
  BY <1>3 DEF LaunchInv, Blobs, KeygenStart, EksGot
<1>5. /\ phase = "keys" /\ ~unit.t210b01 /\ sbk_is_set'
      /\ UNCHANGED <<console, mbr_eks, ext_patches>>
      /\ eks' = k
      /\ ctxt'.e = ctxt.e /\ ctxt'.id = ctxt.id
  BY <1>3 DEF KeygenStart, KeyedWith
<1>6. sbk_is_set' \in BOOLEAN
  BY Zenon DEF KeygenStart
<1>7. \/ NoTrouble
      \/ Trouble
  BY DEF KeygenStart
<1>8. troubles' \in 0 .. MaxTroubles /\ (relapses' = relapses \/ relapses' = 0)
  BY <1>7, LaunchInputs DEF LaunchInv, LaunchTypes, NoTrouble, Trouble
<1>9. \/ phase' = "tsec" /\ slot' = w
      \/ /\ phase' = "derive" /\ m > V620 /\ k.enabled
         /\ slot' = [w EXCEPT ![12] = k.keys.tsec, ![13] = k.keys.troot, ![11] = k.keys.dev]
         /\ ctxt'.from = "eks" /\ ctxt'.tk = k.keys
  BY <1>0, <1>1, <1>3 DEF KeygenStart, UseTsec, EksToSlots, KeyedWith, V620
<1>10. /\ DOMAIN slot' = Slots /\ slot'[14] = SBK
       /\ phase' = "derive" => slot'[12] = k.keys.tsec /\ slot'[13] = k.keys.troot /\ slot'[11] = k.keys.dev
  BY <1>2, <1>9, SlotNumbers
<1>11. LaunchTypes'
  BY <1>5, <1>6, <1>8, <1>9 DEF LaunchInv, LaunchTypes, console
<1>12. Blobs' /\ SeSound'
  BY <1>3, <1>4, <1>5, <1>6, <1>10 DEF LaunchInv, Blobs, SeSound, console
<1>13. Named' /\ Filled'
  BY <1>5, <1>9 DEF LaunchInv, Named, Filled
<1>14. Loading'
  <2>1. mkey' = m
    BY <1>0, <1>5 DEF mkey
  <2>2. m > V620 => m >= V700 /\ TsecKeys(m) = RightKeys
    BY TsecVals DEF V620, V700, RightKeys
  <2>3. k.keys \in {RightKeys, WrongKeys}
    BY DEF EksRecs
  <2> QED
    BY <1>5, <1>9, <1>10, <2>1, <2>2, <2>3 DEF Loading, console
<1>15. Cleared'
  BY <1>4, <1>5, <1>8, <1>9 DEF LaunchInv, Cleared
<1> QED
  BY <1>11, <1>12, <1>13, <1>14, <1>15 DEF LaunchInv

\* The TSEC answers, rightly or not.
LEMMA TsecAnswersStep ==
    ASSUME LaunchInv, NEW tk, phase = "tsec", tk \in {TsecKeys(mkey), WrongKeys}, TsecAnswers(tk)
    PROVE  LaunchInv'
<1>0. PICK m \in Nat : m = mkey
  BY KeyNumber
<1>1. /\ ~unit.t210b01 /\ sbk_is_set /\ UNCHANGED <<console, sbk_is_set, ekses, ext_patches>>
      /\ ctxt'.e = ctxt.e /\ ctxt'.id = ctxt.id /\ ctxt'.from = "tsec" /\ ctxt'.tk = tk
  BY DEF LaunchInv, Loading, TsecAnswers, KeyedWith
<1>2. \/ /\ m >= V700 /\ phase' = "save"
         /\ slot' = [slot EXCEPT ![12] = tk.tsec, ![13] = tk.troot, ![11] = tk.dev]
      \/ m < V700 /\ phase' = "derive" /\ slot' = slot
  BY <1>0 DEF TsecAnswers, V700
<1>3. troubles' \in 0 .. MaxTroubles
  BY LaunchInputs DEF LaunchInv, LaunchTypes, NoTrouble, Trouble, TsecAnswers
<1>4. relapses' = 0 \/ (relapses' = relapses /\ tk = TsecKeys(m))
  BY <1>0 DEF NoTrouble, Trouble, TsecAnswers
<1>5. LaunchTypes' /\ Blobs'
  BY <1>1, <1>2, <1>3 DEF LaunchInv, LaunchTypes, Blobs, console, ekses
<1>6. SeSound'
  BY <1>1, <1>2, SlotNumbers DEF LaunchInv, SeSound, console
<1>7. Named' /\ Filled'
  BY <1>1, <1>2 DEF LaunchInv, Named, Filled
<1>8. Loading'
  <2>1. mkey' = m
    BY <1>0, <1>1 DEF mkey
  <2>2. phase' = "save" => slot'[12] = tk.tsec /\ slot'[13] = tk.troot /\ slot'[11] = tk.dev
    BY <1>2, SlotNumbers DEF LaunchInv, SeSound
  <2> QED
    BY <1>0, <1>1, <1>2, <2>1, <2>2 DEF Loading, console, V700
<1>9. Cleared'
  <2>1. m >= V700 => TsecKeys(m) = RightKeys
    BY TsecVals DEF RightKeys
  <2> QED
    BY <1>1, <1>2, <1>4, <2>1 DEF LaunchInv, Cleared, ekses
<1> QED
  BY <1>5, <1>6, <1>7, <1>8, <1>9 DEF LaunchInv

\* The SBK is in its slot unless the derivation puts another key there.
LEMMA SbkStays ==
    ASSUME NEW u, ~u.t210b01, NEW m \in Nat, NEW e, ~LosesSbk(u, m, e), NEW tk,
           NEW sl, Loaded(sl, m, tk), NEW k, k = Derived(sl, u, m, tk, e)
    PROVE  k[14] = SBK
<1>1. CASE m >= V700 /\ e.exo
  <2>1. k = KeygenExo(sl, KekV4Seed(m))
    BY <1>1 DEF Derived, V620, V700
  <2> QED
    BY <2>1, ExoVals DEF Loaded
<1>2. CASE m >= V700 /\ ~e.exo
  <2>1. k = KeygenNew(sl, m)
    BY <1>2 DEF Derived, V620, V700
  <2> QED
    BY <2>1, NewVals DEF Loaded
<1>3. CASE m = V620 /\ e.exo
  <2>1. PICK a : a = [sl EXCEPT ![12] = tk.tsec, ![13] = tk.troot]
    OBVIOUS
  <2>2. k = KeygenExo(a, Kek620Seed)
    BY <1>3, <2>1 DEF Derived, Keygen620, V620, V700
  <2>3. DOMAIN a = Slots /\ a[14] = SBK
    BY <2>1, SlotNumbers DEF Loaded
  <2> QED
    BY <2>2, <2>3, ExoVals
<1>4. CASE m = V620 /\ ~e.exo
  <2>1. k = Keygen620(sl, tk, e)
    BY <1>4 DEF Derived, V620, V700
  <2> QED
    BY <1>4, <2>1, Vals620 DEF Loaded
<1>5. CASE m < V620
  <2>1. k = KeygenOld(sl, m, tk, e)
    BY <1>5 DEF Derived, V620, V700
  <2>2. e.exo \/ m <= V301
    BY <1>5 DEF LosesSbk, V301, V400, V600, V620
  <2> QED
    BY <2>1, <2>2, OldVals DEF Loaded
<1> QED
  BY <1>1, <1>2, <1>3, <1>4, <1>5 DEF V620, V700

\* Its keys are saved as the slots have them.
LEMMA EksSaveStep ==
    ASSUME LaunchInv, NEW read \in BOOLEAN, NEW write \in BOOLEAN, EksSave(read, write)
    PROVE  LaunchInv'
<1>0. PICK m \in Nat : m = mkey
  BY KeyNumber DEF EksSave
<1>1. PICK tk : tk = ctxt.tk
  OBVIOUS
<1>2. /\ phase = "save" /\ phase' = "derive" /\ UNCHANGED <<console, seStore, ext_patches, ctxt>>
      /\ ~unit.t210b01 /\ sbk_is_set /\ m >= V700 /\ ctxt.from = "tsec"
      /\ tk \in {RightKeys, WrongKeys}
      /\ slot[12] = tk.tsec /\ slot[13] = tk.troot /\ slot[11] = tk.dev
  BY <1>0, <1>1, TsecVals DEF LaunchInv, Loading, EksSave, RightKeys
<1>3. SlotKeys = tk
  BY <1>2 DEF SlotKeys, RightKeys, TsecKeys, WrongKeys, V600, V620, V700
<1>4. PICK t \in BOOLEAN : t = TRUE
  OBVIOUS
<1>5. PICK s : s = [enabled |-> t, keys |-> tk, found |-> t]
  OBVIOUS
<1>6. s \in EksRecs /\ s.found /\ s.keys = tk
  BY <1>2, <1>4, <1>5 DEF EksRecs
<1>7. eks' \in {eks, s} /\ mbr_eks'.eks \in {mbr_eks.eks, s}
  BY <1>3, <1>4, <1>5 DEF EksSave
<1>8. NoTrouble \/ Trouble
  BY DEF EksSave
<1>9. troubles' \in 0 .. MaxTroubles /\ (relapses' = relapses \/ relapses' = 0)
  BY <1>8, LaunchInputs DEF LaunchInv, LaunchTypes, NoTrouble, Trouble
<1>10. LaunchTypes' /\ SeSound' /\ Named' /\ Filled'
  BY <1>2, <1>9 DEF LaunchInv, LaunchTypes, SeSound, Named, Filled, console, seStore
<1>11. Blobs'
  BY <1>6, <1>7 DEF LaunchInv, Blobs
<1>12. Loading'
  BY <1>2 DEF LaunchInv, Loading, console, seStore, mkey
<1>13. Cleared'
  <2>1. relapses = 1 => tk = RightKeys
    BY <1>1, <1>2 DEF LaunchInv, Cleared
  <2> QED
    BY <1>2, <1>6, <1>7, <1>9, <2>1 DEF LaunchInv, Cleared
<1> QED
  BY <1>10, <1>11, <1>12, <1>13 DEF LaunchInv

\* The derivation: fresh keys, or keys that do not open package2.
LEMMA DeriveStep == ASSUME LaunchInv, Derive PROVE LaunchInv'
<1>0. PICK m \in Nat : m = mkey
  BY KeyNumber DEF Derive
<1>1. PICK tk : tk = ctxt.tk
  OBVIOUS
<1>2. PICK u \in Units : u = unit
  BY DEF LaunchInv, LaunchTypes
<1>3. PICK e : e = ctxt.e
  OBVIOUS
<1>4. PICK sl : sl = slot
  OBVIOUS
<1>5. PICK k : k = Derived(sl, u, m, tk, e)
  OBVIOUS
<1>6. ~u.t210b01 /\ sbk_is_set /\ tk \in {TsecKeys(m), WrongKeys} /\ Loaded(sl, m, tk)
  BY <1>0, <1>1, <1>2, <1>4 DEF LaunchInv, Loading, SeSound, Loaded, Derive
<1>7. /\ DOMAIN k = Slots
      /\ tk = TsecKeys(m) => Fresh(k, u, m, e) /\ (m >= V700 => Opens(k, u, m, e))
      /\ tk = WrongKeys => ~Opens(k, u, m, e)
  <2>1. DOMAIN k = Slots
    <3>1. PICK on : Loaded(on, m, tk) /\ on[10] = Junk /\ on[15] = Junk
      <4>1. PICK on : on = [s \in Slots |-> CASE s = 14 -> SBK [] s = 12 -> tk.tsec
                                              [] s = 13 -> tk.troot [] OTHER -> Junk]
        OBVIOUS
      <4> QED
        BY <4>1 DEF Loaded, Slots
    <3> QED
      BY <1>5, <1>6, <3>1, SameDerived
  <2>2. ASSUME tk = TsecKeys(m) PROVE Fresh(k, u, m, e) /\ (m >= V700 => Opens(k, u, m, e))
    BY <1>5, <1>6, <2>2, RightIsFresh, RightOpens
  <2>3. ASSUME tk = WrongKeys PROVE ~Opens(k, u, m, e)
    BY <1>5, <1>6, <2>3, WrongStaysShut
  <2> QED
    BY <2>1, <2>2, <2>3
<1>8. /\ slot' = k /\ phase = "derive" /\ phase' = "unpack" /\ ctxt'.from = ctxt.from /\ ctxt'.e = e
      /\ ctxt'.id = ctxt.id /\ UNCHANGED <<console, ekses, ext_patches>> /\ NoTrouble
  BY <1>0, <1>1, <1>2, <1>3, <1>4, <1>5 DEF Derive, Keyed
<1>9. /\ IsFresh' <=> Fresh(k, u, m, e)
      /\ IsOpen' <=> Opens(k, u, m, e)
  BY <1>0, <1>2, <1>8 DEF IsFresh, IsOpen, mkey, console
<1>10. sbk_is_set' \in BOOLEAN
  BY Zenon DEF Derive
<1>11. sbk_is_set' => k[14] = SBK
  <2>1. SUFFICES ASSUME sbk_is_set' PROVE k[14] = SBK
    OBVIOUS
  <2>2. ~LosesSbk(u, m, e)
    BY <1>0, <1>2, <1>3, <2>1 DEF Derive
  <2> QED
    BY <1>5, <1>6, <2>2, SbkStays
<1>12. LaunchTypes' /\ Blobs' /\ Named' /\ Cleared'
  BY <1>3, <1>8, <1>10 DEF LaunchInv, LaunchTypes, Blobs, Named, Cleared, NoTrouble, console, ekses
<1>13. SeSound'
  BY <1>2, <1>6, <1>7, <1>8, <1>10, <1>11 DEF SeSound, console
<1>14. Loading'
  BY <1>8 DEF LaunchInv, Loading, mkey, console, ekses
<1>15. Filled'
  <2>1. ctxt.from = "eks" /\ eks.keys = RightKeys => m >= V700 /\ tk = TsecKeys(m)
    BY <1>0, <1>1, <1>8, TsecVals DEF LaunchInv, Loading, RightKeys
  <2> QED
    BY <1>6, <1>7, <1>8, <1>9, <2>1 DEF Filled, ekses
<1> QED
  BY <1>12, <1>13, <1>14, <1>15 DEF LaunchInv

\* package1 is unpacked.
LEMMA UnpackStep ==
    ASSUME LaunchInv, NEW intact \in BOOLEAN, NEW sc7exit \in BOOLEAN, UnpackPkg1(intact, sc7exit)
    PROVE  LaunchInv'
<1>1. CASE phase' = "menu"
  BY <1>1, BackToMenu DEF UnpackPkg1, Error, console, seStore, ekses, LaunchInv, LaunchTypes
<1>2. CASE phase' # "menu"
  BY <1>2, GoesOnWithKeys DEF UnpackPkg1, Error, console, seStore, ekses, LaunchInv, LaunchTypes
<1> QED
  BY <1>1, <1>2

\* The user is asked about sleep.
LEMMA WarmbootStep ==
    ASSUME LaunchInv, NEW power \in BOOLEAN, WarmbootAnswer(power)
    PROVE LaunchInv'
<1>1. CASE phase' = "menu"
  BY <1>1, BackToMenu DEF WarmbootAnswer, Error, console, seStore, ekses, LaunchInv, LaunchTypes
<1>2. CASE phase' # "menu"
  BY <1>2, GoesOnWithKeys DEF WarmbootAnswer, Error, console, seStore, ekses, LaunchInv, LaunchTypes
<1> QED
  BY <1>1, <1>2

\* The user is asked about a failed patch.
LEMMA PatchAnswerStep ==
    ASSUME LaunchInv, NEW power \in BOOLEAN, PatchAnswer(power)
    PROVE LaunchInv'
<1>1. CASE phase' = "menu"
  BY <1>1, BackToMenu DEF PatchAnswer, Error, console, seStore, ekses, LaunchInv, LaunchTypes
<1>2. CASE phase' # "menu"
  BY <1>2, GoesOnWithKeys DEF PatchAnswer, Error, console, seStore, ekses, LaunchInv, LaunchTypes
<1> QED
  BY <1>1, <1>2

\* The KIPs are patched.
LEMMA PatchStep ==
    ASSUME LaunchInv, NEW kips, NEW ini \in {"parsed", "missing"}, Patch(kips, ini)
    PROVE  LaunchInv'
<1>0. ext_patches' \in {"unparsed", "parsed", "missing"}
  BY DEF LaunchInv, LaunchTypes, Patch
<1>1. CASE phase' = "menu"
  BY <1>0, <1>1, BackToMenu DEF Patch, Error, console, seStore, ekses
<1>2. CASE phase' # "menu"
  <2>1. /\ phase = "patch" /\ phase' \in {"ask", "boot"}
        /\ ctxt'.e = ctxt.e /\ ctxt'.id = ctxt.id /\ ctxt'.from = ctxt.from
        /\ UNCHANGED <<console, seStore, ekses>> /\ NoTrouble
    BY <1>2 DEF Patch, Error
  <2> QED
    BY <1>0, <2>1, GoesOnWithKeys DEF console, seStore, ekses
<1> QED
  BY <1>1, <1>2

\* The slots that are cleared are none of those the monitor uses.
LEMMA BootStep == ASSUME LaunchInv, Boot PROVE LaunchInv'
<1>1. /\ phase = "boot" /\ phase' = "booted" /\ NoTrouble
      /\ slot' = [slot EXCEPT ![8] = Junk, ![9] = Junk, ![11] = Junk]
      /\ UNCHANGED <<console, sbk_is_set, ekses, ext_patches, ctxt>>
  BY DEF Boot
<1>2. DOMAIN slot' = Slots /\ \A s \in {10, 12, 13, 14, 15} : slot'[s] = slot[s]
  BY <1>1, SlotNumbers DEF LaunchInv, SeSound
<1>3. LaunchTypes' /\ Blobs' /\ Named' /\ Cleared' /\ Loading'
  BY <1>1 DEF LaunchInv, LaunchTypes, Blobs, Named, Cleared, Loading, NoTrouble, console, ekses
<1>4. SeSound'
  BY <1>1, <1>2 DEF LaunchInv, SeSound, console
<1>5. Filled'
  BY <1>1, <1>2 DEF LaunchInv, Filled, IsFresh, Fresh, mkey, console
<1> QED
  BY <1>3, <1>4, <1>5 DEF LaunchInv

\* package2 opens only with fresh keys; if it does not, the EKS is cleared.
LEMMA DecryptStep ==
    ASSUME LaunchInv, NEW intact \in BOOLEAN, NEW read \in BOOLEAN, NEW write \in BOOLEAN,
           DecryptPkg2(intact, read, write)
    PROVE  LaunchInv'
<1>0. PICK m \in Nat : m = mkey
  BY KeyNumber DEF DecryptPkg2
<1>1. PICK key : key = DecryptKey(slot, unit, mkey, ctxt.e)
  OBVIOUS
<1>2. /\ phase = "pkg2" /\ UNCHANGED <<console, sbk_is_set, ext_patches>>
      /\ slot' = slot \/ (~unit.t210b01 /\ slot' = [slot EXCEPT ![9] = key])
      /\ IsOpen <=> key = Pkg2Key(unit, mkey)
  BY <1>1 DEF DecryptPkg2, IsOpen, Opens
<1>3. DOMAIN slot' = Slots /\ \A s \in {10, 12, 13, 14, 15} : slot'[s] = slot[s]
  BY <1>2, SlotNumbers DEF LaunchInv, SeSound
<1>4. SeSound'
  BY <1>2, <1>3 DEF LaunchInv, SeSound, console
<1>5. CASE phase' = "patch"
  <2>1. IsOpen /\ UNCHANGED <<ctxt, ekses>> /\ NoTrouble
    BY <1>1, <1>2, <1>5 DEF DecryptPkg2, Error
  <2>2. LaunchTypes' /\ Blobs' /\ Named' /\ Cleared' /\ Loading'
    BY <1>2, <1>5, <2>1 DEF LaunchInv, LaunchTypes, Blobs, Named, Cleared, Loading, NoTrouble, console, ekses
  <2>3. Filled'
    BY <1>2, <1>3, <1>5, <2>1 DEF LaunchInv, Filled, IsFresh, Fresh, mkey, console
  <2> QED
    BY <1>4, <2>2, <2>3 DEF LaunchInv
<1>6. CASE phase' # "patch"
  <2>1. /\ ~(intact /\ IsOpen) /\ phase' = "menu" /\ EksClear(read, write)
        /\ \/ /\ read /\ write /\ UNCHANGED troubles
              /\ relapses' = IF intact /\ ctxt.from = "eks" THEN relapses + 1 ELSE relapses
           \/ Trouble
    BY <1>1, <1>2, <1>6 DEF DecryptPkg2, Error
  <2>2. PICK f \in BOOLEAN : f = FALSE
    OBVIOUS
  <2>3. PICK c : c = [eks EXCEPT !.enabled = f]
    OBVIOUS
  <2>4. c \in EksRecs /\ ~c.enabled
    BY <2>2, <2>3 DEF LaunchInv, Blobs, EksRecs
  <2>5. /\ eks' = IF EksClears /\ read THEN c ELSE eks
        /\ mbr_eks'.eks = IF EksClears /\ read /\ write THEN c ELSE mbr_eks.eks
    BY <2>1, <2>2, <2>3 DEF EksClear
  <2>6. Blobs'
    BY <2>4, <2>5 DEF LaunchInv, Blobs
  <2>7. troubles' \in 0 .. MaxTroubles
    BY <2>1, LaunchInputs DEF LaunchInv, LaunchTypes, Trouble
  <2>8. LaunchTypes' /\ Named' /\ Loading' /\ Filled'
    BY <1>2, <2>1, <2>7 DEF LaunchInv, LaunchTypes, Named, Loading, Filled, console
  <2>9. Cleared'
    <3>1. CASE Trouble
      BY <3>1 DEF Trouble, Cleared
    <3>2. CASE read /\ write /\ intact /\ ctxt.from = "eks" /\ relapses' = relapses + 1
      <4>1. EksClears
        BY <1>2, <3>2 DEF EksClears, LaunchInv, Loading, Blobs
      <4>2. relapses = 0
        <5>1. eks.keys # RightKeys
          BY <1>2, <2>1, <3>2 DEF LaunchInv, Filled
        <5> QED
          BY <1>2, <3>2, <5>1 DEF LaunchInv, Cleared, Loading
      <4> QED
        BY <2>1, <2>4, <2>5, <3>2, <4>1, <4>2 DEF Cleared
    <3>3. CASE relapses' = relapses
      BY <2>1, <2>4, <2>5, <3>3 DEF LaunchInv, Cleared
    <3> QED
      BY <2>1, <3>1, <3>2, <3>3
  <2> QED
    BY <1>4, <2>6, <2>8, <2>9 DEF LaunchInv
<1> QED
  BY <1>5, <1>6

\* A launch that is given up leaves everything alone.
LEMMA GivenUp ==
    ASSUME LaunchInv, LaunchRefused \/ TsecFails \/ Pkg2Missing \/ Pkg2Refused
    PROVE  LaunchInv'
BY BackToMenu DEF LaunchRefused, TsecFails, Pkg2Missing, Pkg2Refused, Error, console, seStore, ekses,
   LaunchInv, LaunchTypes

\* Every step keeps it.
LEMMA LaunchStepHolds == ASSUME LaunchInv, [LaunchNext]_launchVars PROVE LaunchInv'
<1>1. CASE UNCHANGED launchVars
  BY <1>1 DEF launchVars, LaunchInv, LaunchTypes, Blobs, SeSound, Named, Loading, Filled, Cleared,
              IsFresh, IsOpen, mkey
<1>2. CASE \E e \in Entries : hos_launch(e)
  BY <1>2, LaunchStep
<1>3. CASE LaunchRefused \/ TsecFails \/ Pkg2Missing \/ Pkg2Refused
  BY <1>3, GivenUp
<1>4. CASE ReadPkg1 \/ \E autorcm \in BOOLEAN : Pkg1Unknown(autorcm)
  BY <1>4, ReadPkg1Step, Pkg1UnknownStep
<1>5. CASE KeygenB01 \/ KeygenStale \/ \E read \in BOOLEAN : KeygenStart(read)
  BY <1>5, KeygenB01Step, KeygenStaleStep, KeygenStartStep
<1>6. CASE phase = "tsec" /\ \E tk \in {TsecKeys(mkey), WrongKeys} : TsecAnswers(tk)
  BY <1>6, TsecAnswersStep
<1>7. CASE Derive \/ \E read, write \in BOOLEAN : EksSave(read, write)
  BY <1>7, DeriveStep, EksSaveStep
<1>8. CASE \E intact, sc7exit \in BOOLEAN : UnpackPkg1(intact, sc7exit)
  BY <1>8, UnpackStep
<1>9. CASE \E power \in BOOLEAN : WarmbootAnswer(power) \/ PatchAnswer(power)
  BY <1>9, WarmbootStep, PatchAnswerStep
<1>10. CASE \E intact, read, write \in BOOLEAN : DecryptPkg2(intact, read, write)
  BY <1>10, DecryptStep
<1>11. CASE \E kips \in KipLists, ini \in {"parsed", "missing"} : Patch(kips, ini)
  BY <1>11, PatchStep
<1>12. CASE Boot
  BY <1>12, BootStep
<1>13. CASE Reboot
  BY <1>13, PowerOnStep DEF Reboot
<1> QED
  BY <1>1, <1>2, <1>3, <1>4, <1>5, <1>6, <1>7, <1>8, <1>9, <1>10, <1>11, <1>12, <1>13 DEF LaunchNext

\* The keys of a launch are those of a first one, or package2 stays shut.
THEOREM LaunchInvHolds == LaunchSpec => []LaunchInv
BY LaunchStarts, LaunchStepHolds, PTL DEF LaunchSpec

\* hos_launch starts the secure monitor with the keys a first launch after power-on
\* would have left, whatever was launched before and however it failed, unless the SBK
\* could not be put back: for any consoles, firmwares, entries and number of launches.
THEOREM KeysAlwaysFresh == LaunchSpec => []KeysAsFresh
<1>1. ASSUME LaunchInv PROVE KeysAsFresh
  <2>1. LaunchTypeOK
    <3>1. {eks.enabled, eks.found, mbr_eks.eks.enabled} \subseteq BOOLEAN
      BY <1>1 DEF LaunchInv, Blobs, EksRecs
    <3> QED
      BY <1>1, <3>1 DEF LaunchTypeOK, LaunchInv, LaunchTypes, SeSound, Cleared
  <2>2. sbk_is_set => slot[14] = SBK
    BY <1>1 DEF LaunchInv, SeSound
  <2>3. FreshSlots = FreshFor(unit, mkey, ctxt.e)
    BY DEF FreshSlots, FreshFor
  <2>4. phase = "booted" /\ ctxt.from # "stale" => IsFresh
    BY <1>1 DEF LaunchInv, Filled
  <2> QED
    BY <2>1, <2>2, <2>3, <2>4 DEF KeysAsFresh, IsFresh, Fresh
<1> QED
  BY <1>1, LaunchInvHolds, PTL

\* Wrong keys in the EKS refuse at most one package2: _hos_eks_clear disables them in
\* RAM and on the card, for any number of launches, reboots and card faults.
THEOREM BadKeysAlwaysOnce == LaunchSpec => []BadKeysOnce
<1>1. ASSUME LaunchInv PROVE BadKeysOnce
  BY <1>1 DEF LaunchInv, Cleared, BadKeysOnce
<1> QED
  BY <1>1, LaunchInvHolds, PTL

----------------------------------------------------------------------------
(* The patches.                                                            *)


\* What a run over the KIPs carries: the emuMMC, if it was asked for (w), is injected
\* or still selected.
ResultOK(r, w) ==
    \E f, a : \E i, s \in BOOLEAN :
        /\ r = [failed |-> f, applied |-> a, injected |-> i, selected |-> s]
        /\ w => i \/ s

\* One KIP carries it on: the emuMMC is deselected only when it is injected.
LEMMA PatchKipKeeps ==
    ASSUME NEW w \in BOOLEAN, NEW done, ResultOK(done, w), NEW kip, NEW ext
    PROVE  ResultOK(PatchKip(done, kip, ext), w)
<1>0. PICK f, a : \E i, s \in BOOLEAN :
        /\ done = [failed |-> f, applied |-> a, injected |-> i, selected |-> s]
        /\ w => i \/ s
  BY DEF ResultOK
<1>1. PICK i \in BOOLEAN, s \in BOOLEAN :
        /\ done = [failed |-> f, applied |-> a, injected |-> i, selected |-> s]
        /\ w => i \/ s
  BY <1>0
<1>2. PICK r : r = PatchKip(done, kip, ext)
  OBVIOUS
<1>3. PICK fs \in BOOLEAN : fs = (kip.name = "FS")
  OBVIOUS
<1>4. PICK i2 \in BOOLEAN : i2 = (i \/ (s /\ fs))
  OBVIOUS
<1>5. PICK s2 \in BOOLEAN : s2 = (s /\ ~(s /\ fs))
  OBVIOUS
<1>6. \/ \E f2, a2 : r = [done EXCEPT !.failed = f2, !.applied = a2]
      \/ \E f2 : r = [done EXCEPT !.failed = f2]
      \/ r = done
      \/ \E a2 : r = [done EXCEPT !.applied = a2, !.selected = s2, !.injected = i2]
  <2>1. done.selected = s /\ done.injected = i
    BY <1>1
  <2>2. s2 = (done.selected /\ ~(done.selected /\ kip.name = "FS"))
    BY <1>3, <1>5, <2>1
  <2>3. i2 = (done.injected \/ (done.selected /\ kip.name = "FS"))
    BY <1>3, <1>4, <2>1
  <2> QED
    BY <1>2, <2>2, <2>3, Zenon DEF PatchKip
<1>7. w => i2 \/ s2
  BY <1>1, <1>4, <1>5
<1>8. CASE r = [done EXCEPT !.failed = r.failed, !.applied = r.applied]
  BY <1>1, <1>2, <1>8 DEF ResultOK
<1> QED
  BY <1>1, <1>2, <1>6, <1>7, <1>8 DEF ResultOK

\* A set of positions has a first one.
LEMMA EarliestExists ==
    ASSUME NEW S \in SUBSET Nat, S # {}
    PROVE  Earliest(S) \in S /\ \A j \in S : Earliest(S) <= j
BY FirstExists DEF FirstOf, Earliest

\* The state of the run over the KIPs, as far as n of them.
Runs(none, kips, ext, n, g) ==
    g = [k \in 0 .. n |-> IF k = 0 THEN none ELSE PatchKip(g[k - 1], kips[k], ext)]

\* The recursion of pkg2_patch_kips is well founded.
LEMMA RunExists ==
    ASSUME NEW none, NEW kips, NEW ext, NEW len \in Nat
    PROVE  \E g : Runs(none, kips, ext, len, g)
<1> DEFINE B == {n \in Nat : ~\E g : Runs(none, kips, ext, n, g)}
<1>1. SUFFICES ASSUME B # {} PROVE FALSE
  OBVIOUS
<1>2. PICK n \in B : \A m \in B : n <= m
  <2>1. B \in SUBSET Nat
    OBVIOUS
  <2> HIDE DEF B
  <2> QED
    BY <1>1, <2>1, EarliestExists DEF Earliest
<1>3. n # 0
  <2>1. PICK g : g = [k \in 0 .. 0 |-> none]
    OBVIOUS
  <2>2. Runs(none, kips, ext, 0, g)
    BY <2>1 DEF Runs
  <2> QED
    BY <2>2
<1>4. n - 1 \in Nat /\ n - 1 \notin B
  BY <1>2, <1>3
<1>5. PICK g : Runs(none, kips, ext, n - 1, g)
  BY <1>4
<1>6. PICK h : h = [k \in 0 .. n |-> IF k = n THEN PatchKip(g[n - 1], kips[n], ext) ELSE g[k]]
  OBVIOUS
<1>7. Runs(none, kips, ext, n, h)
  <2>1. ASSUME NEW k \in 0 .. n
        PROVE  h[k] = IF k = 0 THEN none ELSE PatchKip(h[k - 1], kips[k], ext)
    <3>1. CASE k = n
      <4>1. h[k - 1] = g[n - 1]
        BY <1>3, <1>6, <3>1
      <4> QED
        BY <1>3, <1>6, <3>1, <4>1
    <3>2. CASE k # n
      <4>1. k \in 0 .. n - 1 /\ h[k] = g[k]
        BY <1>6, <3>2
      <4>2. k # 0 => h[k - 1] = g[k - 1]
        BY <1>6, <3>2
      <4>3. g[k] = IF k = 0 THEN none ELSE PatchKip(g[k - 1], kips[k], ext)
        BY <1>5, <4>1 DEF Runs
      <4> QED
        BY <4>1, <4>2, <4>3
    <3> QED
      BY <3>1, <3>2
  <2>2. h = [k \in 0 .. n |-> h[k]]
    BY <1>6
  <2>3. h = [k \in 0 .. n |-> IF k = 0 THEN none ELSE PatchKip(h[k - 1], kips[k], ext)]
    BY <2>1, <2>2, Zenon
  <2> QED
    BY <2>3 DEF Runs
<1> QED
  BY <1>2, <1>7

\* And carries on what holds before the first KIP.
LEMMA RunKeeps ==
    ASSUME NEW w \in BOOLEAN, NEW none, ResultOK(none, w), NEW kips, NEW ext, NEW len \in Nat, NEW g,
           Runs(none, kips, ext, len, g)
    PROVE  ResultOK(g[len], w)
<1> DEFINE B == {n \in 0 .. len : ~ResultOK(g[n], w)}
<1>1. SUFFICES ASSUME B # {} PROVE FALSE
  OBVIOUS
<1>2. PICK n \in B : \A m \in B : n <= m
  <2>1. B \in SUBSET Nat
    OBVIOUS
  <2> HIDE DEF B
  <2> QED
    BY <1>1, <2>1, EarliestExists DEF Earliest
<1>3. n # 0
  BY DEF Runs
<1>4. n - 1 \in 0 .. len /\ n - 1 \notin B
  BY <1>2, <1>3
<1>5. ResultOK(g[n - 1], w)
  BY <1>4
<1>6. g[n] = PatchKip(g[n - 1], kips[n], ext)
  BY <1>3 DEF Runs
<1> QED
  BY <1>5, <1>6, PatchKipKeeps

\* PatchKips is that state at the end.
LEMMA PatchKipsRuns ==
    ASSUME NEW w \in BOOLEAN, NEW none, ResultOK(none, w), NEW kips, NEW ext, Len(kips) \in Nat
    PROVE  ResultOK(PatchKips(none, kips, ext), w)
<1>1. PICK g : g = CHOOSE h : Runs(none, kips, ext, Len(kips), h)
  OBVIOUS
<1>2. Runs(none, kips, ext, Len(kips), g)
  BY <1>1, RunExists
<1>3. PatchKips(none, kips, ext) = g[Len(kips)]
  BY <1>1, Zenon DEF PatchKips, Runs
<1> QED
  BY <1>2, <1>3, RunKeeps

\* A complaint has a name, and without one nothing is left over.
LEMMA NothingLeft ==
    ASSUME NEW p, p = ctxt.patches, NEW names, p \in Seq(names), NoPatch \notin names,
           NEW done, Unapplied(done) = NoPatch
    PROVE  /\ \A i \in DOMAIN p : p[i] \in done.applied \cup {"emummc"}
           /\ ~done.selected
<1>0. DOMAIN p \subseteq Nat /\ \A i \in DOMAIN p : p[i] \in names
  OBVIOUS
<1>1. PICK S : S = {i \in DOMAIN p : p[i] \notin done.applied \cup {"emummc"}}
  OBVIOUS
<1>2. S = Left(done)
  BY <1>1 DEF Left
<1>3. S = {}
  <2>1. SUFFICES ASSUME S # {} PROVE FALSE
    OBVIOUS
  <2>2. S \in SUBSET Nat
    BY <1>0, <1>1
  <2>3. Earliest(S) \in S
    BY <2>1, <2>2, EarliestExists
  <2>4. p[Earliest(S)] \in names
    BY <1>0, <1>1, <2>3
  <2>5. done.failed = NoPatch
    BY Zenon DEF Unapplied
  <2>6. Unapplied(done) = p[Earliest(S)]
    BY <1>2, <2>1, <2>5, Zenon DEF Unapplied
  <2> QED
    BY <2>4, <2>6
<1>4. ~done.selected
  <2>1. done.failed = NoPatch
    BY Zenon DEF Unapplied
  <2>2. done.selected => Unapplied(done) = "emummc"
    BY <1>2, <1>3, <2>1, Zenon DEF Unapplied
  <2> QED
    BY <2>2 DEF NoPatch
<1> QED
  BY <1>1, <1>3, <1>4

\* What hos_launch gets from pkg2_patch_kips when it does not complain.
LEMMA PatchesApplied ==
    ASSUME NEW kips \in KipLists, NEW ext, NEW p, p = ctxt.patches,
           NEW names, p \in Seq(names), NoPatch \notin names,
           NEW r, r = pkg2_patch_kips(kips, ext), r.failed = NoPatch
    PROVE  /\ \A i \in DOMAIN p : p[i] \in r.applied \cup {"emummc"}
           /\ (\E i \in DOMAIN p : p[i] = "emummc") => r.injected
<1>1. PICK sel \in BOOLEAN : sel = \E i \in DOMAIN p : p[i] = "emummc"
  <2>1. CASE \E i \in DOMAIN p : p[i] = "emummc"
    BY <2>1
  <2>2. CASE ~\E i \in DOMAIN p : p[i] = "emummc"
    BY <2>2
  <2> QED
    BY <2>1, <2>2
<1>2. PICK no \in BOOLEAN : no = FALSE
  OBVIOUS
<1>3. PICK none : none = [failed |-> NoPatch, applied |-> {}, injected |-> no, selected |-> sel]
  OBVIOUS
<1>4. none = Unpatched
  BY <1>1, <1>2, <1>3, Zenon DEF Unpatched
<1>5. Len(kips) \in Nat
  BY LaunchInputs
<1>6. ResultOK(none, sel)
  BY <1>2, <1>3 DEF ResultOK
<1>7. PICK last : last = PatchKips(none, kips, ext)
  OBVIOUS
<1>8. ResultOK(last, sel)
  BY <1>5, <1>6, <1>7, PatchKipsRuns
<1>9. PICK f, a : \E i, s \in BOOLEAN :
        /\ last = [failed |-> f, applied |-> a, injected |-> i, selected |-> s]
        /\ sel => i \/ s
  BY <1>8 DEF ResultOK
<1>10. PICK i \in BOOLEAN, s \in BOOLEAN :
        /\ last = [failed |-> f, applied |-> a, injected |-> i, selected |-> s]
        /\ sel => i \/ s
  BY <1>9
<1>11. PICK u : u = Unapplied(last)
  OBVIOUS
<1>12. \/ r = [none EXCEPT !.failed = "too_many_patches"]
       \/ r = [last EXCEPT !.failed = u]
  BY <1>4, <1>7, <1>11, Zenon DEF pkg2_patch_kips
<1>13. r # [none EXCEPT !.failed = "too_many_patches"]
  BY <1>3 DEF NoPatch
<1>14. r = [failed |-> u, applied |-> a, injected |-> i, selected |-> s]
  BY <1>10, <1>12, <1>13
<1>15. u = NoPatch /\ r.applied = a /\ r.injected = i
  BY <1>14
<1>16. (\A j \in DOMAIN p : p[j] \in last.applied \cup {"emummc"}) /\ ~last.selected
  BY <1>11, <1>15, NothingLeft
<1>17. ~s /\ last.applied = a
  BY <1>10, <1>16
<1> QED
  BY <1>1, <1>10, <1>15, <1>16, <1>17


----------------------------------------------------------------------------
(* HOS is started as asked.                                                *)

PatchNames == (STRING \ {NoPatch}) \cup {"emummc", "nogc"}

\* The patches asked for hold those of the entry and what hos.c adds.
Wanted(e, fw, p) ==
    /\ p \in Seq(PatchNames)
    /\ \A i \in DOMAIN e.patches : \E j \in DOMAIN p : p[j] = e.patches[i]
    /\ Emu(e) => \E j \in DOMAIN p : p[j] = "emummc"
    /\ NeedsNogc(e, fw) => \E j \in DOMAIN p : p[j] = "nogc"
    /\ e.forced => e.emu

WantedSoFar == phase \notin {"menu", "pkg1"} => Wanted(ctxt.e, fuses, ctxt.patches)

\* What pkg2_patch_kips reported is what it did.
Reported ==
    phase \in {"ask", "boot", "booted"} =>
      /\ ctxt.failed # "emummc"
      /\ ctxt.failed = NoPatch =>
           /\ \A i \in DOMAIN ctxt.patches : ctxt.patches[i] \in ctxt.applied \cup {"emummc"}
           /\ (\E i \in DOMAIN ctxt.patches : ctxt.patches[i] = "emummc") => ctxt.injected

AskedInv == WantedSoFar /\ Reported

\* The list Requested builds.
LEMMA RequestedWanted ==
    ASSUME NEW e \in Entries, NEW fw, e.forced => e.emu PROVE Wanted(e, fw, Requested(e, fw))
<1>1. PICK names : names = PatchNames
  OBVIOUS
<1>2. PICK a \in Seq(names) : a = e.patches
  <2>1. e.patches \in Seq(STRING \ {NoPatch})
    BY LaunchInputs
  <2>2. e.patches \in Seq(names)
    BY <1>1, <2>1 DEF PatchNames
  <2> QED
    BY <2>2
<1>3. "emummc" \in names /\ "nogc" \in names
  BY <1>1 DEF PatchNames
<1>4. PICK b \in Seq(names) : b = IF Emu(e) THEN <<"emummc">> ELSE <<>>
  <2>1. <<"emummc">> \in Seq(names) /\ <<>> \in Seq(names)
    BY <1>3
  <2> QED
    BY <2>1, Zenon
<1>5. PICK c \in Seq(names) : c = IF NeedsNogc(e, fw) THEN <<"nogc">> ELSE <<>>
  <2>1. <<"nogc">> \in Seq(names) /\ <<>> \in Seq(names)
    BY <1>3
  <2> QED
    BY <2>1, Zenon
<1>6. PICK p : p = a \o b \o c
  OBVIOUS
<1>7. p \in Seq(names) /\ Len(p) = Len(a) + Len(b) + Len(c) /\ DOMAIN p = 1 .. Len(p)
  BY <1>6
<1>8. \A i \in DOMAIN a : i \in DOMAIN p /\ p[i] = a[i]
  BY <1>6, <1>7
<1>9. Emu(e) => \E j \in DOMAIN p : p[j] = "emummc"
  <2>1. SUFFICES ASSUME Emu(e) PROVE \E j \in DOMAIN p : p[j] = "emummc"
    OBVIOUS
  <2>2. b = <<"emummc">>
    BY <1>4, <2>1
  <2>3. Len(a) + 1 \in DOMAIN p /\ p[Len(a) + 1] = "emummc"
    BY <1>6, <1>7, <2>2
  <2> QED
    BY <2>3
<1>10. NeedsNogc(e, fw) => \E j \in DOMAIN p : p[j] = "nogc"
  <2>1. SUFFICES ASSUME NeedsNogc(e, fw) PROVE \E j \in DOMAIN p : p[j] = "nogc"
    OBVIOUS
  <2>2. c = <<"nogc">>
    BY <1>5, <2>1
  <2>3. Len(p) \in DOMAIN p /\ p[Len(p)] = "nogc"
    BY <1>6, <1>7, <2>2
  <2> QED
    BY <2>3
<1>11. p = Requested(e, fw)
  BY <1>2, <1>4, <1>5, <1>6, Zenon DEF Requested
<1> QED
  BY <1>1, <1>2, <1>7, <1>8, <1>9, <1>10, <1>11 DEF Wanted

\* It stays as it is for the rest of the launch.
LEMMA WantedCarried ==
    ASSUME WantedSoFar, phase \notin {"menu", "pkg1"}, unit' = unit,
           ctxt'.e = ctxt.e, ctxt'.id = ctxt.id, ctxt'.patches = ctxt.patches
    PROVE  WantedSoFar'
<1>1. PICK e, fw, p : e = ctxt.e /\ fw = fuses /\ p = ctxt.patches
  OBVIOUS
<1>2. e = ctxt'.e /\ fw = fuses' /\ p = ctxt'.patches
  BY <1>1 DEF fuses
<1>3. Wanted(e, fw, p)
  BY <1>1, Zenon DEF WantedSoFar
<1>4. NeedsNogc(e, fw)' <=> NeedsNogc(e, fw)
  BY DEF NeedsNogc, BelowV2, BelowV3, BelowV4, BelowV5, Emu
<1>5. Wanted(e, fw, p)'
  BY <1>3, <1>4 DEF Wanted, Emu
<1> QED
  BY <1>2, <1>5, Zenon DEF WantedSoFar


\* Before and without an answer of pkg2_patch_kips there is nothing to report.
LEMMA AskedCarried ==
    ASSUME AskedInv, unit' = unit, phase \notin {"menu", "pkg1"},
           \/ phase' = "menu"
           \/ /\ ctxt'.e = ctxt.e /\ ctxt'.id = ctxt.id /\ ctxt'.patches = ctxt.patches
              /\ phase' \notin {"ask", "boot", "booted"}
           \/ ctxt' = ctxt /\ phase \in {"ask", "boot", "booted"}
    PROVE  AskedInv'
<1>1. CASE phase' = "menu"
  BY <1>1 DEF AskedInv, WantedSoFar, Reported
<1>2. CASE /\ ctxt'.e = ctxt.e /\ ctxt'.id = ctxt.id /\ ctxt'.patches = ctxt.patches
           /\ phase' \notin {"ask", "boot", "booted"}
  <2>1. WantedSoFar'
    BY <1>2, WantedCarried DEF AskedInv
  <2> QED
    BY <1>2, <2>1 DEF AskedInv, Reported
<1>3. CASE ctxt' = ctxt /\ phase \in {"ask", "boot", "booted"}
  <2>1. WantedSoFar'
    BY <1>3, WantedCarried DEF AskedInv
  <2> QED
    BY <1>3, <2>1 DEF AskedInv, Reported
<1> QED
  BY <1>1, <1>2, <1>3

\* The patch step.
LEMMA PatchReports ==
    ASSUME AskedInv, NEW kips \in KipLists, NEW ini, Patch(kips, ini) PROVE AskedInv'
<1>1. PICK ext : ext = ext_patches'
  OBVIOUS
<1>2. PICK r : r = pkg2_patch_kips(kips, ext)
  OBVIOUS
<1>3. \/ phase' = "menu"
      \/ /\ r.failed # "emummc"
         /\ ctxt' = [e |-> ctxt.e, id |-> ctxt.id, patches |-> ctxt.patches,
                     from |-> ctxt.from, failed |-> r.failed, applied |-> r.applied,
                     injected |-> r.injected]
  BY <1>1, <1>2, Zenon DEF Patch, Error
<1>4. CASE phase' = "menu"
  BY <1>4 DEF AskedInv, WantedSoFar, Reported
<1>5. CASE /\ r.failed # "emummc"
           /\ ctxt' = [e |-> ctxt.e, id |-> ctxt.id, patches |-> ctxt.patches,
                       from |-> ctxt.from, failed |-> r.failed, applied |-> r.applied,
                       injected |-> r.injected]
  <2>0. PICK f, a, i : f = r.failed /\ a = r.applied /\ i = r.injected
    OBVIOUS
  <2>1. /\ ctxt'.e = ctxt.e /\ ctxt'.id = ctxt.id /\ ctxt'.patches = ctxt.patches
        /\ ctxt'.failed = f /\ ctxt'.applied = a /\ ctxt'.injected = i
    BY <1>5, <2>0, Zenon
  <2>2. unit' = unit /\ phase = "patch"
    BY Zenon DEF Patch, console
  <2>3. WantedSoFar'
    BY <2>1, <2>2, WantedCarried DEF AskedInv
  <2>4. PICK p : p = ctxt.patches
    OBVIOUS
  <2>5. p \in Seq(PatchNames)
    BY <2>2, <2>4 DEF AskedInv, WantedSoFar, Wanted
  <2>6. NoPatch \notin PatchNames
    BY DEF PatchNames, NoPatch
  <2>7. r.failed = NoPatch =>
          /\ \A j \in DOMAIN p : p[j] \in r.applied \cup {"emummc"}
          /\ (\E j \in DOMAIN p : p[j] = "emummc") => r.injected
    BY <1>2, <2>4, <2>5, <2>6, PatchesApplied
  <2>8. Reported'
    BY <1>5, <2>0, <2>1, <2>4, <2>7, Zenon DEF Reported
  <2> QED
    BY <2>3, <2>8 DEF AskedInv
<1> QED
  BY <1>3, <1>4, <1>5


\* Every step keeps it.  LaunchInv says that the entry is one of Entries.
LEMMA AskedStepHolds ==
    ASSUME LaunchInv, AskedInv, [LaunchNext]_launchVars PROVE AskedInv'
<1>0. unit' = unit
  BY DEF LaunchNext, launchVars, console, hos_launch, LaunchRefused, ReadPkg1, Pkg1Unknown, KeygenB01,
         KeygenStale, KeygenStart, TsecFails, TsecAnswers, EksSave, Derive, UnpackPkg1, WarmbootAnswer,
         DecryptPkg2, Pkg2Missing, Pkg2Refused, Patch, PatchAnswer, Boot, Reboot
<1>1. CASE UNCHANGED launchVars
  <2>1. CASE phase \in {"menu", "pkg1"}
    BY <1>1, <2>1 DEF launchVars, AskedInv, WantedSoFar, Reported
  <2>2. CASE phase \notin {"menu", "pkg1"}
    BY <1>0, <1>1, <2>2, AskedCarried DEF launchVars
  <2> QED
    BY <2>1, <2>2
<1>2. CASE phase' \in {"menu", "pkg1"}
  BY <1>2 DEF AskedInv, WantedSoFar, Reported
<1>3. CASE ReadPkg1 /\ phase' # "menu"
  <2>1. PICK e, id : /\ e = ctxt.e /\ id = IF Emu(ctxt.e) THEN hos.emu ELSE hos.sys
    OBVIOUS
  <2>2. /\ ~(~e.emu /\ e.forced) /\ phase' = "keys"
        /\ ctxt' = [e |-> e, id |-> id, patches |-> Requested(e, id[2])]
    BY <1>3, <2>1, Zenon DEF ReadPkg1, Error
  <2>3. PICK p : p = Requested(e, id[2])
    OBVIOUS
  <2>4. ctxt'.e = e /\ ctxt'.id = id /\ ctxt'.patches = p
    BY <2>2, <2>3, Zenon
  <2>5. e \in Entries
    BY <1>3, <2>1 DEF LaunchInv, Named, ReadPkg1
  <2>6. PICK fw : fw = id[2]
    OBVIOUS
  <2>7. Wanted(e, fw, p)
    BY <2>2, <2>3, <2>5, <2>6, RequestedWanted
  <2>8. NeedsNogc(e, fw)' <=> NeedsNogc(e, fw)
    BY <1>0 DEF NeedsNogc, BelowV2, BelowV3, BelowV4, BelowV5, Emu
  <2>9. Wanted(e, fw, p)'
    BY <2>7, <2>8 DEF Wanted, Emu
  <2>10. fuses' = fw
    BY <2>4, <2>6 DEF fuses
  <2>11. WantedSoFar'
    BY <2>4, <2>9, <2>10, Zenon DEF WantedSoFar
  <2> QED
    BY <2>2, <2>11 DEF AskedInv, Reported
<1>4. CASE KeygenB01 \/ KeygenStale \/ Derive
  <2>1. \E f : ctxt' = [e |-> ctxt.e, id |-> ctxt.id, patches |-> ctxt.patches, from |-> f]
    BY <1>4 DEF KeygenB01, KeygenStale, Derive, Keyed
  <2>2. /\ ctxt'.e = ctxt.e /\ ctxt'.id = ctxt.id /\ ctxt'.patches = ctxt.patches
        /\ phase \in {"keys", "derive"} /\ phase' = "unpack"
    BY <1>4, <2>1 DEF KeygenB01, KeygenStale, Derive
  <2> QED
    BY <1>0, <2>2, AskedCarried
<1>5. CASE (\E read \in BOOLEAN : KeygenStart(read)) \/ (\E tk : TsecAnswers(tk))
  <2>1. \/ ctxt' = ctxt
        \/ \E f, tk : ctxt' = [e |-> ctxt.e, id |-> ctxt.id, patches |-> ctxt.patches,
                               from |-> f, tk |-> tk]
    BY <1>5, Zenon DEF KeygenStart, TsecAnswers, KeyedWith
  <2>2. /\ ctxt'.e = ctxt.e /\ ctxt'.id = ctxt.id /\ ctxt'.patches = ctxt.patches
    BY <2>1
  <2>3. phase \in {"keys", "tsec"} /\ phase' \in {"tsec", "save", "derive"}
    BY <1>5 DEF KeygenStart, TsecAnswers
  <2> QED
    BY <1>0, <2>2, <2>3, AskedCarried
<1>6. CASE \/ \E read, write \in BOOLEAN : EksSave(read, write)
           \/ \E intact, sc7exit \in BOOLEAN : UnpackPkg1(intact, sc7exit)
           \/ \E power \in BOOLEAN : WarmbootAnswer(power)
           \/ \E intact, read, write \in BOOLEAN : DecryptPkg2(intact, read, write)
  <2>1. \/ phase' = "menu"
        \/ ctxt' = ctxt /\ phase' \in {"derive", "warmboot", "pkg2", "patch"}
    BY <1>6 DEF EksSave, UnpackPkg1, WarmbootAnswer, DecryptPkg2, Error
  <2>2. phase \in {"save", "unpack", "warmboot", "pkg2"}
    BY <1>6 DEF EksSave, UnpackPkg1, WarmbootAnswer, DecryptPkg2
  <2> QED
    BY <1>0, <2>1, <2>2, AskedCarried
<1>7. CASE \E kips \in KipLists, ini \in {"parsed", "missing"} : Patch(kips, ini)
  BY <1>7, PatchReports
<1>8. CASE Boot \/ \E power \in BOOLEAN : PatchAnswer(power)
  <2>1. phase \in {"ask", "boot"} /\ (phase' = "menu" \/ ctxt' = ctxt)
    BY <1>8 DEF Boot, PatchAnswer, Error
  <2> QED
    BY <1>0, <2>1, AskedCarried
<1>9. CASE \/ \E e \in Entries : hos_launch(e)
           \/ LaunchRefused \/ TsecFails \/ Pkg2Missing \/ Pkg2Refused \/ Reboot
           \/ \E autorcm \in BOOLEAN : Pkg1Unknown(autorcm)
  BY <1>2, <1>9 DEF hos_launch, LaunchRefused, TsecFails, Pkg2Missing, Pkg2Refused, Reboot,
                    Pkg1Unknown, LaunchPowerOn, Error
<1> QED
  BY <1>1, <1>2, <1>3, <1>4, <1>5, <1>6, <1>7, <1>8, <1>9 DEF LaunchNext

\* The LAFW revisions, counted.
LEMMA LafwVals ==
    ASSUME NEW n \in Nat
    PROVE  Lafw(n) = IF n >= 15 THEN 4 ELSE IF n >= 14 THEN 3 ELSE IF n >= 11 THEN 2
                     ELSE IF n >= 5 THEN 1 ELSE 0
<1>1. PICK S : S = {first \in {5, 11, 14, 15} : n >= first}
  OBVIOUS
<1>2. Lafw(n) = Cardinality(S)
  BY <1>1 DEF Lafw
<1>3. IsFiniteSet({}) /\ Cardinality({}) = 0
  BY FS_EmptySet
<1>4. PICK A : A = {} \cup {5}
  OBVIOUS
<1>5. IsFiniteSet(A) /\ Cardinality(A) = 1
  BY <1>3, <1>4, FS_AddElement
<1>6. PICK B : B = A \cup {11}
  OBVIOUS
<1>7. IsFiniteSet(B) /\ Cardinality(B) = 2
  <2>1. 11 \notin A
    BY <1>4
  <2> QED
    BY <1>5, <1>6, <2>1, FS_AddElement
<1>8. PICK C : C = B \cup {14}
  OBVIOUS
<1>9. IsFiniteSet(C) /\ Cardinality(C) = 3
  <2>1. 14 \notin B
    BY <1>4, <1>6
  <2> QED
    BY <1>7, <1>8, <2>1, FS_AddElement
<1>10. PICK D : D = C \cup {15}
  OBVIOUS
<1>11. Cardinality(D) = 4
  <2>1. 15 \notin C
    BY <1>4, <1>6, <1>8
  <2> QED
    BY <1>9, <1>10, <2>1, FS_AddElement
<1>12. S = IF n >= 15 THEN D ELSE IF n >= 14 THEN C ELSE IF n >= 11 THEN B
           ELSE IF n >= 5 THEN A ELSE {}
  BY <1>1, <1>4, <1>6, <1>8, <1>10
<1> QED
  BY <1>2, <1>3, <1>5, <1>7, <1>9, <1>11, <1>12

\* Auto NOGC asks for the patch whenever the game card controller would be updated, or
\* would be newer than the firmware.
LEMMA NogcWhenNeeded ==
    ASSUME unit.burnt \in Nat, fuses \in Nat, ~ctxt.e.stock, Updates \/ TooNew
    PROVE  NeedsNogc(ctxt.e, fuses)
<1>1. PICK b \in Nat, f \in Nat : b = unit.burnt /\ f = fuses
  OBVIOUS
<1>2. Lafw(b) = (IF b >= 15 THEN 4 ELSE IF b >= 14 THEN 3 ELSE IF b >= 11 THEN 2
                 ELSE IF b >= 5 THEN 1 ELSE 0)
      /\ Lafw(f) = (IF f >= 15 THEN 4 ELSE IF f >= 14 THEN 3 ELSE IF f >= 11 THEN 2
                    ELSE IF f >= 5 THEN 1 ELSE 0)
  BY <1>1, LafwVals
<1>3. CASE Updates
  <2>1. unit.autonogc /\ Lafw(f) > Lafw(b)
    BY <1>1, <1>3 DEF Updates
  <2>2. \/ b <= 4 /\ f >= 5
        \/ b <= 10 /\ f >= 11
        \/ b <= 13 /\ f >= 14
        \/ b <= 14 /\ f >= 15
    BY <1>1, <1>2, <2>1
  <2> QED
    BY <1>1, <2>1, <2>2 DEF NeedsNogc, BelowV2, BelowV3, BelowV4, BelowV5
<1>4. CASE TooNew
  <2>1. Emu(ctxt.e) /\ Lafw(b) > 1 /\ Lafw(b) > Lafw(f)
    BY <1>1, <1>4 DEF TooNew
  <2>2. \/ b > 10 /\ f <= 10
        \/ b > 13 /\ f <= 13
        \/ b > 14 /\ f <= 14
    BY <1>1, <1>2, <2>1
  <2> QED
    BY <1>1, <2>1, <2>2 DEF NeedsNogc, BelowV2, BelowV3, BelowV4, BelowV5
<1> QED
  BY <1>3, <1>4

\* HOS is started as asked, unless the user was told of a failed patch and pressed
\* POWER: every patch of the entry is in, the emuMMC code is injected, nogc is in where
\* the game card controller needs it; a failed emuMMC patch is never waved through.
\* For any entries, any KIPs in package2 and any fuses.
THEOREM BootedAlwaysAsAsked == LaunchSpec => []BootedAsAsked
<1>1. ASSUME LaunchInit PROVE AskedInv
  BY <1>1 DEF LaunchInit, AskedInv, WantedSoFar, Reported
<1>2. ASSUME LaunchInv, AskedInv PROVE BootedAsAsked
  <2>1. SUFFICES ASSUME phase = "booted"
                 PROVE  /\ ctxt.failed # "emummc"
                        /\ ctxt.e.forced /\ ~ctxt.e.disable => Emu(ctxt.e)
                        /\ ctxt.failed = NoPatch =>
                             /\ \A i \in DOMAIN ctxt.e.patches :
                                  ctxt.e.patches[i] \in ctxt.applied \cup {"emummc"}
                             /\ Emu(ctxt.e) => ctxt.injected
                             /\ ctxt.e.stock \/ ~(Updates \/ TooNew) \/ "nogc" \in ctxt.applied
    BY Zenon DEF BootedAsAsked
  <2>2. Wanted(ctxt.e, fuses, ctxt.patches)
    BY <1>2, <2>1 DEF AskedInv, WantedSoFar
  <2>3. /\ ctxt.failed # "emummc"
        /\ ctxt.failed = NoPatch =>
             /\ \A i \in DOMAIN ctxt.patches : ctxt.patches[i] \in ctxt.applied \cup {"emummc"}
             /\ (\E i \in DOMAIN ctxt.patches : ctxt.patches[i] = "emummc") => ctxt.injected
    BY <1>2, <2>1, Zenon DEF AskedInv, Reported
  <2>4. unit.burnt \in Nat /\ fuses \in Nat
    <3>1. unit.burnt \in Nat
      <4>1. unit \in Units
        BY <1>2 DEF LaunchInv, LaunchTypes
      <4>2. Units \subseteq [t210b01 : BOOLEAN, burnt : 0 .. 32, sbk : BOOLEAN, autonogc : BOOLEAN]
        BY LaunchInputs, Zenon
      <4>3. unit.burnt \in 0 .. 32
        BY <4>1, <4>2
      <4> QED
        BY <4>3
    <3>2. PICK id : id = ctxt.id
      OBVIOUS
    <3>3. id \in pkg1_ids
      BY <1>2, <2>1, <3>2 DEF LaunchInv, Named
    <3>4. id[2] \in Nat
      BY <3>3 DEF pkg1_ids
    <3> QED
      BY <3>1, <3>2, <3>4 DEF fuses
  <2>5. ctxt.e.forced /\ ~ctxt.e.disable => Emu(ctxt.e)
    BY <2>2 DEF Wanted, Emu
  <2>6. ASSUME ctxt.failed = NoPatch
        PROVE  /\ \A i \in DOMAIN ctxt.e.patches :
                    ctxt.e.patches[i] \in ctxt.applied \cup {"emummc"}
               /\ Emu(ctxt.e) => ctxt.injected
    BY <2>2, <2>3, <2>6, Zenon DEF Wanted
  <2>7. ASSUME ctxt.failed = NoPatch, ~ctxt.e.stock, Updates \/ TooNew
        PROVE  "nogc" \in ctxt.applied
    <3>1. NeedsNogc(ctxt.e, fuses)
      BY <2>4, <2>7, NogcWhenNeeded
    <3>2. "nogc" \in ctxt.applied \cup {"emummc"}
      BY <2>2, <2>3, <2>7, <3>1, Zenon DEF Wanted
    <3> QED
      BY <3>2
  <2> QED
    BY <2>3, <2>5, <2>6, <2>7, Zenon
<1> QED
  BY <1>1, <1>2, LaunchInvHolds, AskedStepHolds, PTL DEF LaunchSpec

=============================================================================
