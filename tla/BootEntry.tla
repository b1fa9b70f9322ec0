----------------------------- MODULE BootEntry -----------------------------
(***************************************************************************)
(* The choice of what hekate boots and with which settings: automatic boot *)
(* from the configuration or from a reboot reason (_auto_launch), and the  *)
(* text menus (_launch_config, _launch_ini_list, _launch_payloads) of      *)
(* bootloader/main.c, with the emuMMC selection of storage/emummc.c.       *)
(*                                                                         *)
(* The ini files are sequences of parsed sections.  A launch takes over    *)
(* the console or returns to its caller.  An emuMMC is named by its path;  *)
(* the sector of a raw one stands for the path it was read from.  The SD   *)
(* card stays usable: its faults are the subject of SdmmcStorage.          *)
(***************************************************************************)
EXTENDS Integers, Sequences, FiniteSets

CONSTANTS
    Main,        \* the sections of hekate_ipl.ini, in order
    IniList,        \* the sections of bootloader/ini/*.ini
    BootCfgs,    \* the boot storages a program may have left in the binary
    Configs,     \* the autoboot, autoboot_list pairs of the [config] section
    Raw, FileBased, BadRaw,  \* the emuMMC folders there are; BadRaw has sector 0
    EmuIni       \* what emummc.ini selects: a path, or None

NoName == "none"
Sections == {Main[n] : n \in DOMAIN Main} \cup {IniList[n] : n \in DOMAIN IniList}
Paths == Raw \cup FileBased \cup BadRaw

\* The boot storage: what to boot, a reason by id or emuMMC folder, and its flags.
IsBootCfg(b) ==
    b \in [autoboot_en : BOOLEAN, from_launch : BOOLEAN, from_id : BOOLEAN, to_emummc : BOOLEAN,
           autoboot : Nat, list : BOOLEAN, id : {b.id}, path : {b.path}]

\* Sections are records [kind, id, force, emupath]: "config", "hos", "payload"
\* or "l4t"; the id key; emummc_force_disable; emupath.
ASSUME EntryConstants ==
    /\ Main \in Seq(Sections) /\ IniList \in Seq(Sections)
    /\ \A s \in Sections : s.kind \in {"config", "hos", "payload", "l4t"} /\ s.force \in BOOLEAN
    /\ Raw \cap FileBased = {} /\ Raw \cap BadRaw = {} /\ FileBased \cap BadRaw = {}
    /\ EmuIni \in Raw \cup FileBased \cup {NoName}
    /\ NoName \notin Paths
    /\ \A b \in BootCfgs : IsBootCfg(b)

VARIABLES
    b_cfg,    \* the boot storage
    config,   \* the [config] section on the card
    force,    \* h_cfg.emummc_force_disable
    emu,      \* emu_cfg
    sd_up,  \* is the SD card mounted?
    menu,     \* where the program is
    cfg_sec,  \* the section chosen
    auto,     \* was it chosen by _auto_launch?
    back,     \* the menu a launch returns to
    listed,   \* history: an entry of _launch_ini_list that disables emuMMC was chosen
    launched, \* history: the last section handed to hos_launch, and how
    reasons   \* history: automatic launches by id since the reason was set

entryVars == <<b_cfg, config, force, emu, sd_up, menu, cfg_sec, auto, back,
               listed, launched, reasons>>

NoSection == [kind |-> NoName, id |-> NoName, force |-> FALSE, emupath |-> NoName]
NoLaunch == [sec |-> NoSection, force |-> FALSE, emu |-> NoName, auto |-> FALSE, to |-> FALSE,
             after |-> FALSE]
NoEmu == [enabled |-> FALSE, sector |-> NoName, path |-> NoName]

\* The emuMMC in effect.
Selected(e) == IF ~e.enabled THEN NoName ELSE IF e.sector # NoName THEN e.sector ELSE e.path

\* emummc_load_cfg: what emummc.ini says.
emummc_load_cfg ==
    IF EmuIni = NoName THEN NoEmu
    ELSE [enabled |-> TRUE, sector |-> IF EmuIni \in Raw THEN EmuIni ELSE NoName,
          path |-> IF EmuIni \in Raw THEN NoName ELSE EmuIni]

EntryInit ==
    /\ b_cfg \in BootCfgs /\ config \in Configs
    /\ force = FALSE /\ emu = NoEmu /\ sd_up = TRUE
    /\ menu = "auto" /\ cfg_sec = NoSection /\ auto = TRUE /\ back = "out"
    /\ listed = FALSE /\ launched = NoLaunch /\ reasons = 0

----------------------------------------------------------------------------
(* emummc_set_path.                                                        *)

PathFound(path) == sd_up /\ path \in Raw \cup FileBased

\* A raw emuMMC leaves the path alone, and one without a sector clears it.
SetPath(path) ==
    CASE sd_up /\ path \in Raw       -> [emu EXCEPT !.sector = path, !.enabled = TRUE]
      [] sd_up /\ path \in BadRaw    -> [emu EXCEPT !.sector = NoName]
      [] sd_up /\ path \in FileBased -> [enabled |-> TRUE, sector |-> NoName, path |-> path]
      [] OTHER                         -> emu

----------------------------------------------------------------------------
(* _auto_launch.                                                           *)

boot_from_id == b_cfg.from_id /\ b_cfg.autoboot_en

\* Override autoboot.
Autoboot == IF b_cfg.autoboot_en THEN b_cfg.autoboot ELSE config.autoboot
AutobootList == IF b_cfg.autoboot_en THEN b_cfg.list ELSE config.list

FirstOf(S) == CHOOSE n \in S : \A m \in S : n <= m

\* _get_ini_sec_from_id.
MatchesId(s) == b_cfg.id # NoName /\ s.id = b_cfg.id

ConfigAt == FirstOf({n \in DOMAIN Main : Main[n].kind = "config"})
HasConfig == \E n \in DOMAIN Main : Main[n].kind = "config"

\* The section the loop over hekate_ipl.ini ends with.
MainChoice ==
    LET byId  == {n \in DOMAIN Main : Main[n].kind # "config" /\ MatchesId(Main[n])}
        index == {n \in DOMAIN Main : HasConfig /\ n > ConfigAt /\ n - 1 = Autoboot}
        found == IF boot_from_id THEN byId ELSE IF HasConfig /\ AutobootList THEN {} ELSE index
    IN  IF found = {} THEN NoSection ELSE Main[FirstOf(found)]

\* The section the loop over bootloader/ini ends with.
ListChoice ==
    LET choices == {n \in DOMAIN IniList : IniList[n].kind # "config"}
        entry(n) == Cardinality({m \in choices : m <= n})
        found == {n \in choices : IF boot_from_id THEN MatchesId(IniList[n])
                                                  ELSE entry(n) = Autoboot}
    IN  IF found = {} THEN NoSection ELSE IniList[FirstOf(found)]

\* The list is read when asked for, and when an id was not found before.
Choice ==
    LET byList == (HasConfig /\ AutobootList) \/ (boot_from_id /\ MainChoice = NoSection)
    IN  IF byList /\ ~(boot_from_id /\ MainChoice # NoSection) THEN ListChoice ELSE MainChoice

_auto_launch ==
    /\ menu = "auto"
    /\ emu' = emummc_load_cfg
    /\ cfg_sec' = Choice /\ auto' = TRUE /\ back' = "out"
    /\ force' = (Choice # NoSection /\ Choice.force)
    /\ menu' = IF Choice = NoSection THEN "out" ELSE "wait"
    /\ UNCHANGED <<b_cfg, config, sd_up, listed, launched, reasons>>

\* The boot logo and the VOL- checks; a L4T entry always waits.
BootWait ==
    /\ menu = "wait"
    /\ \/ menu' = "launch"
       \/ (~b_cfg.from_launch \/ cfg_sec.kind = "l4t") /\ menu' = "out"
    /\ UNCHANGED <<b_cfg, config, force, emu, sd_up, cfg_sec, auto, back,
                   listed, launched, reasons>>

ClearReason_Missing == b_cfg

\* Clear boot reasons from binary: the id or path goes, the flags stay.
ClearReason ==
    IF b_cfg.from_id \/ b_cfg.to_emummc THEN [b_cfg EXCEPT !.id = NoName, !.path = NoName] ELSE b_cfg

\* The end of _auto_launch: Nyx takes over, or it is missing and the text menu
\* comes up (sd_end).
AutoOut ==
    /\ menu = "out"
    /\ b_cfg' = ClearReason
    /\ force' = FALSE /\ listed' = FALSE
    /\ \/ menu' = "nyx" /\ UNCHANGED sd_up
       \/ menu' = "top" /\ sd_up' = FALSE
    /\ UNCHANGED <<config, emu, cfg_sec, auto, back, launched, reasons>>

----------------------------------------------------------------------------
(* Launching cfg_sec.                                                      *)

\* Payloads and L4T: returned from, nothing has changed but the card, which is
\* released late.
LaunchSpecial ==
    /\ menu = "launch" /\ cfg_sec.kind \in {"payload", "l4t"}
    /\ menu' \in {"running", back}
    /\ UNCHANGED <<b_cfg, config, force, emu, sd_up, cfg_sec, auto, back,
                   listed, launched, reasons>>

\* The emuMMC folder an automatic boot is directed to is not checked.
ToEmummc == auto /\ b_cfg.to_emummc

\* The path to set before hos_launch, if any.
WantedPath == IF ToEmummc THEN b_cfg.path ELSE cfg_sec.emupath

\* "emupath is wrong!"
WrongPath ==
    /\ menu = "launch" /\ cfg_sec.kind = "hos"
    /\ ~ToEmummc /\ cfg_sec.emupath # NoName /\ ~PathFound(cfg_sec.emupath)
    /\ emu' = SetPath(cfg_sec.emupath)
    /\ menu' = "reload"
    /\ UNCHANGED <<b_cfg, config, force, sd_up, cfg_sec, auto, back, listed, launched, reasons>>

\* hos_launch: it runs, or returns.
LaunchHos ==
    LET e == IF WantedPath = NoName THEN emu ELSE SetPath(WantedPath) IN
    /\ menu = "launch" /\ cfg_sec.kind = "hos"
    /\ ToEmummc \/ cfg_sec.emupath = NoName \/ PathFound(cfg_sec.emupath)
    /\ emu' = e
    /\ launched' = [sec |-> cfg_sec, force |-> force, auto |-> auto, to |-> ToEmummc,
                    after |-> listed, emu |-> IF force THEN NoName ELSE Selected(e)]
    /\ reasons' = IF auto /\ boot_from_id THEN reasons + 1 ELSE reasons
    /\ menu' \in {"running", "reload"}
    \* emummc_storage_init_mmc mounts the card for an emuMMC.
    /\ sd_up' \in {sd_up} \cup (IF e.enabled /\ ~force THEN {TRUE} ELSE {})
    /\ UNCHANGED <<b_cfg, config, force, cfg_sec, auto, back, listed>>

\* Reload emuMMC config in case of emupath (sd_mount, emummc_load_cfg).
Reloaded_Never == emu

Reloaded ==
    IF cfg_sec.emupath # NoName \/ ToEmummc
      THEN emummc_load_cfg ELSE emu

Reload ==
    /\ menu = "reload"
    /\ emu' = Reloaded
    /\ sd_up' = (sd_up \/ cfg_sec.emupath # NoName \/ ToEmummc)
    /\ menu' = back
    /\ UNCHANGED <<b_cfg, config, force, cfg_sec, auto, back, listed, launched, reasons>>

----------------------------------------------------------------------------
(* The text menus.                                                         *)

\* _launch_config, to its menu.
_launch_config ==
    /\ menu = "top"
    /\ sd_up' = TRUE
    /\ emu' = emummc_load_cfg
    /\ menu' = "menu"
    /\ UNCHANGED <<b_cfg, config, force, cfg_sec, auto, back, listed, launched, reasons>>

\* An entry of either menu is chosen: its own emummc_force_disable key, if it
\* has one, is taken over.
ChooseEntry(s, from, return) ==
    /\ menu = from /\ s.kind # "config"
    /\ cfg_sec' = s /\ auto' = FALSE /\ back' = return
    /\ force' = (force \/ (s.kind = "hos" /\ s.force))
    /\ menu' = "launch"
    /\ UNCHANGED <<b_cfg, config, emu, sd_up, launched, reasons>>

ConfigEntry(s) == ChooseEntry(s, "menu", "menu_out") /\ UNCHANGED listed

\* The end of _launch_ini_list does not take the setting back.
ListEntry(s) ==
    ChooseEntry(s, "list", "menu") /\ listed' = (listed \/ (s.kind = "hos" /\ s.force))

ConfigReset_Missing == force

ConfigReset == FALSE

\* The end of _launch_config: sd_end, and the setting of the entry is dropped.
ConfigOut ==
    /\ menu = "menu_out"
    /\ sd_up' = FALSE /\ force' = ConfigReset /\ listed' = FALSE
    /\ menu' = "top"
    /\ UNCHANGED <<b_cfg, config, emu, cfg_sec, auto, back, launched, reasons>>

\* Back, out of _launch_config.
ConfigBack ==
    /\ menu = "menu"
    /\ sd_up' = FALSE /\ menu' = "top"
    /\ UNCHANGED <<b_cfg, config, force, emu, cfg_sec, auto, back, listed, launched, reasons>>

\* _launch_ini_list, a handler of the menu of _launch_config.
_launch_ini_list ==
    /\ menu = "menu"
    /\ sd_up' = TRUE /\ menu' = "list"
    /\ UNCHANGED <<b_cfg, config, force, emu, cfg_sec, auto, back, listed, launched, reasons>>

ListBack ==
    /\ menu = "list"
    /\ menu' = "menu"
    /\ UNCHANGED <<b_cfg, config, force, emu, sd_up, cfg_sec, auto, back, listed, launched, reasons>>

\* _launch_payloads, another one: Back and a failed launch both end with sd_end.
_launch_payloads ==
    /\ menu = "menu"
    /\ \/ menu' = "running" /\ UNCHANGED sd_up
       \/ sd_up' = FALSE /\ UNCHANGED menu
    /\ UNCHANGED <<b_cfg, config, force, emu, cfg_sec, auto, back, listed, launched, reasons>>

\* _ipl_reload: ipl_main again, with the boot storage as it is now.
_ipl_reload ==
    /\ menu = "top"
    /\ force' = FALSE /\ emu' = NoEmu /\ sd_up' = TRUE
    /\ cfg_sec' = NoSection /\ launched' = NoLaunch /\ listed' = FALSE
    /\ menu' = "auto"
    /\ UNCHANGED <<b_cfg, config, auto, back, reasons>>

EntryNext ==
    \/ _auto_launch \/ BootWait \/ AutoOut
    \/ LaunchSpecial \/ WrongPath \/ LaunchHos \/ Reload
    \/ _launch_config \/ ConfigOut \/ ConfigBack
    \/ \E n \in DOMAIN Main : ConfigEntry(Main[n])
    \/ _launch_ini_list \/ ListBack
    \/ \E n \in DOMAIN IniList : ListEntry(IniList[n])
    \/ _launch_payloads \/ _ipl_reload

EntrySpec == EntryInit /\ [][EntryNext]_entryVars

----------------------------------------------------------------------------
(* Properties.                                                             *)

\* An entry boots with the emuMMC it names, and without a name with the one of
\* emummc.ini, whatever was launched, refused or looked at in the menus before.
OwnEmuMMC ==
    launched.sec.kind = "hos" /\ ~launched.force /\ ~launched.to =>
        launched.emu = IF launched.sec.emupath # NoName THEN launched.sec.emupath ELSE EmuIni

\* With a reboot reason by id nothing but the entry with that id is booted
\* automatically, and it is tried at most once: the reason is gone when hekate
\* is reloaded.
IdOnlyOnce ==
    /\ reasons <= 1
    /\ launched.auto /\ boot_from_id /\ b_cfg.id # NoName => launched.sec.id = b_cfg.id

\* emummc_force_disable is a key of one entry (README.md): an entry with it boots
\* without emuMMC, and one without it boots with emuMMC as configured, unless an
\* entry of "More configs..." that has the key was chosen before and returned
\* to the menus: _launch_ini_list leaves the global set.
ForceIsOwn ==
    launched.sec.kind = "hos" =>
        /\ launched.sec.force => launched.force
        /\ launched.force => launched.sec.force \/ launched.after

\* What is launched depends on the entry and on emummc.ini, never on what earlier
\* launches, menus and reloads left in the globals, but for the setting an entry
\* of _launch_ini_list leaves behind.
LaunchIsOwn == OwnEmuMMC /\ IdOnlyOnce /\ ForceIsOwn

============================================================================
