----------------------------- MODULE HosLaunch -----------------------------
(***************************************************************************)
(* hos_launch of hos.c: package1, the keys, package2 and its patches, up   *)
(* to the jump into the secure monitor, or back to the menu, from where    *)
(* the next entry may be launched.  What outlives a launch that failed:    *)
(* the key slots of the security engine, sbk_is_set, the EKS blob (the     *)
(* TSEC keys, cached in RAM and in sector 0 of the SD card) and the parsed *)
(* patches.ini.                                                            *)
(*                                                                         *)
(* Abstractions.  A key is a term: an atom, or what decrypting another key *)
(* under it gives.  package2 opens with the key it was made with and with  *)
(* no other.  Of an entry what steers the launch is kept: stock, the       *)
(* emuMMC keys, kip1patch, and which files it brings; a secmon is taken to *)
(* be Exosphere.  Which KIPs package2 holds, and whether their patches     *)
(* match, is an input of the patch step.                                   *)
(***************************************************************************)
EXTENDS Integers, Sequences, FiniteSets

CONSTANTS
    Units,        \* the consoles: SoC, burnt fuses, readable SBK, Auto NOGC
    Installs,     \* what is installed: a row of _pkg1_ids on sysMMC and on the emuMMC
    Entries,      \* the boot entries
    KipLists,     \* the KIPs a package2 may hold, in order
    MaxPatches,   \* MAX_NUM_PATCHES_REQUESTED
    MaxLaunches,  \* bound: launches
    MaxTroubles   \* bound: SD faults and wrong TSEC answers

\* HOS_MKEY_VER_*
V301 == 2
V400 == 3
V600 == 5
V620 == 6
V700 == 7
V810 == 8

\* The rows of _pkg1_ids: master key and fuses.
pkg1_ids ==
    {<<0, 1>>, <<0, 2>>, <<1, 3>>, <<2, 4>>, <<3, 5>>, <<4, 6>>, <<5, 7>>, <<6, 8>>, <<7, 9>>,
     <<8, 10>>, <<9, 11>>, <<10, 12>>, <<10, 13>>, <<10, 14>>, <<10, 15>>, <<11, 15>>,
     <<12, 15>>, <<12, 16>>, <<13, 16>>, <<14, 17>>, <<15, 18>>, <<16, 19>>, <<17, 19>>,
     <<18, 20>>, <<19, 21>>, <<20, 22>>, <<21, 23>>, <<22, 24>>}

NoPatch == "none"   \* no patch has this name

ASSUME LaunchInputs ==
    /\ Units \subseteq [t210b01 : BOOLEAN, burnt : 0 .. 32, sbk : BOOLEAN, autonogc : BOOLEAN]
    /\ Installs \subseteq [sys : pkg1_ids, emu : pkg1_ids]
    /\ \A e \in Entries :
         e \in [stock : BOOLEAN, exo : BOOLEAN, warmboot : BOOLEAN, emu : BOOLEAN,
                disable : BOOLEAN, forced : BOOLEAN, patches : Seq(STRING \ {NoPatch})]
    /\ KipLists \subseteq Seq([name : STRING, known : BOOLEAN, decompresses : BOOLEAN,
                              injects : BOOLEAN,
                              sets : Seq([patch : STRING, ext : BOOLEAN, match : BOOLEAN])])
    /\ {MaxPatches, MaxLaunches, MaxTroubles} \subseteq Nat

VARIABLES
    unit,         \* the console
    hos,          \* what is installed
    slot,         \* the AES key slots 7 .. 15
    sbk_is_set,   \* is the SBK in slot 14?
    eks,          \* h_cfg.eks
    mbr_eks,      \* the EKS blob in sector 0 of the SD card
    ext_patches,  \* patches.ini: unparsed, or was parsed, or could not be
    phase,        \* where hos_launch is
    ctxt,         \* its launch_ctxt_t and locals
    relapses,     \* history: package2 refused for keys from the EKS, since the last trouble
    launches, troubles

launchVars == <<unit, hos, slot, sbk_is_set, eks, mbr_eks, ext_patches, phase, ctxt,
                relapses, launches, troubles>>
console == <<unit, hos, launches>>
ekses == <<eks, mbr_eks>>
seStore == <<slot, sbk_is_set>>

----------------------------------------------------------------------------
(* Keys.                                                                   *)

Atom(name, m) == <<"atom", name, m>>
Dec(k, x) == <<"dec", k, x>>           \* x decrypted under k

SBK == Atom("sbk", 0)
Junk == Atom("junk", 0)
Wrong == Atom("wrong", 0)              \* what a TSEC that lost the race leaves

Slots == 7 .. 15

\* What the boot ROM leaves.
PowerOnSlots(u) ==
    [s \in Slots |-> CASE s = 14 -> SBK
                       [] s = 13 /\ u.t210b01 -> Atom("bek", 0)
                       [] s = 12 /\ u.t210b01 -> Atom("kek", 0)
                       [] OTHER -> Junk]

\* se_aes_unwrap_key
Unwrap(sl, dst, src, seed) == [sl EXCEPT ![dst] = Dec(sl[src], seed)]

MasterSeed == Atom("master_keyseed_retail", 0)
Master4xxSeed == Atom("master_keyseed_4xx", 0)
Pkg2Seed == Atom("package2_keyseed", 0)
ConsoleSeed == Atom("console_keyseed", 0)
Console4xxSeed == Atom("console_keyseed_4xx", 0)
EksSeed(m) == Atom("eks_keyseeds", m)
Kek620Seed == Atom("master_kekseed_620", 0)
KekV4Seed(m) == Atom("master_kekseed_t210_tsec_v4", IF m >= V810 THEN m - V810 ELSE 0)
KekB01Seed(m) == Atom("master_kekseed_t210b01", m - V600)
Mkey7Vector == Atom("mkey_vector_7xx", 0)

\* What the TSEC gives when it is right, by firmware.
TsecKeys(m) ==
    CASE m <= V600 -> [tsec |-> Atom("tsec", 0), troot |-> Junk, dev |-> Junk]
      [] m = V620 -> [tsec |-> Atom("tsec", 6), troot |-> Atom("tsec_root", 6), dev |-> Junk]
      [] OTHER -> [tsec |-> Atom("tsec", 7), troot |-> Atom("tsec_root", 7),
                   dev |-> Atom("tsec_root_dev", 7)]
WrongKeys == [tsec |-> Wrong, troot |-> Wrong, dev |-> Wrong]

\* T210B01.
KeygenMariko(sl, m) ==
    LET a == Unwrap(sl, 10, 14, Console4xxSeed)
        b == Unwrap(Unwrap(a, 7, 12, KekB01Seed(m)), 7, 7, MasterSeed)
    IN  Unwrap(b, 8, 7, Pkg2Seed)

\* 6.2.0 and up with Exosphere 2, from the TSEC keys in slots 12 and 13.
KeygenExo(sl, kekseed) ==
    LET a == Unwrap(sl, 15, 14, Dec(sl[12], EksSeed(0)))
        b == Unwrap(Unwrap(a, 10, 15, Console4xxSeed), 15, 15, ConsoleSeed)
        c == Unwrap(b, 13, 13, kekseed)
        d == Unwrap(Unwrap(c, 12, 13, Master4xxSeed), 13, 13, MasterSeed)
    IN  Unwrap(d, 8, 13, Pkg2Seed)

\* 7.0.0 and up with the secure monitor of package1.
KeygenNew(sl, m) ==
    LET a == Unwrap(Unwrap(sl, 7, 13, KekV4Seed(m)), 7, 7, MasterSeed)
    IN  Unwrap(a, 8, 7, Pkg2Seed)

Keygen620(sl, tk, e) ==
    LET a == [sl EXCEPT ![12] = tk.tsec, ![13] = tk.troot]
        b == Unwrap(Unwrap([a EXCEPT ![8] = tk.troot], 8, 8, Kek620Seed), 8, 8, MasterSeed)
    IN  IF e.exo THEN KeygenExo(a, Kek620Seed) ELSE Unwrap(b, 8, 8, Pkg2Seed)

\* The keys in the eks of BOOT0, opened with the key in slot 13.
OldEksKey(m, tk) == Dec(SBK, Dec(tk.tsec, EksSeed(m)))
OldEks(key, m, name) == IF key = OldEksKey(m, TsecKeys(m)) THEN Atom(name, m) ELSE Wrong

\* Up to 6.1.0.
KeygenOld(sl, m, tk, e) ==
    LET a == Unwrap(Unwrap(sl, 15, 14, Dec(tk.tsec, EksSeed(0))),
                    13, 14, Dec(tk.tsec, EksSeed(m)))
        kek == OldEks(a[13], m, "master_kek")
        b == [a EXCEPT ![11] = OldEks(a[13], m, "package1_key"), ![12] = kek, ![13] = kek]
        c == CASE e.exo ->
                    Unwrap(Unwrap(Unwrap(Unwrap(b, 10, 15, Console4xxSeed), 15, 15, ConsoleSeed),
                                  13, 12, MasterSeed), 12, 12, Master4xxSeed)
               [] ~e.exo /\ m <= V301 ->
                    Unwrap(Unwrap(b, 13, 15, ConsoleSeed), 12, 12, MasterSeed)
               [] OTHER ->
                    Unwrap(Unwrap(Unwrap(Unwrap(b, IF m = V400 THEN 13 ELSE 10, 15, Console4xxSeed),
                                         15, 15, ConsoleSeed),
                                  14, 12, Master4xxSeed), 12, 12, MasterSeed)
    IN  Unwrap(c, 8, IF e.exo THEN 13 ELSE 12, Pkg2Seed)

\* The part of _hos_keygen that follows the TSEC.
Derived(sl, u, m, tk, e) ==
    CASE u.t210b01 -> KeygenMariko(sl, m)
      [] ~u.t210b01 /\ m >= V700 -> IF e.exo THEN KeygenExo(sl, KekV4Seed(m)) ELSE KeygenNew(sl, m)
      [] ~u.t210b01 /\ m = V620 -> Keygen620(sl, tk, e)
      [] OTHER -> KeygenOld(sl, m, tk, e)

\* Does it leave another key in slot 14?
LosesSbk_Only4(u, m, e) == ~u.t210b01 /\ ~e.exo /\ m = V400

LosesSbk(u, m, e) == ~u.t210b01 /\ ~e.exo /\ m \in V400 .. V600

\* The key package2 was made with.
Pkg2Key(u, m) ==
    LET master(kek) == Dec(kek, MasterSeed)
        v4 == master(Dec(TsecKeys(m).troot, KekV4Seed(m)))
    IN  Dec(CASE u.t210b01 -> master(Dec(Atom("kek", 0), KekB01Seed(m)))
              [] ~u.t210b01 /\ m <= V600 -> master(Atom("master_kek", m))
              [] ~u.t210b01 /\ m = V620 -> master(Dec(TsecKeys(m).troot, Kek620Seed))
              [] ~u.t210b01 /\ m = V700 -> Dec(v4, Mkey7Vector)
              [] OTHER -> v4,
            Pkg2Seed)

\* The key pkg2_decrypt uses: that of slot 8, or for 7.0.0 of slot 9, which it sets.
DecryptKey(sl, u, m, e) ==
    IF ~u.t210b01 /\ m = V700
      THEN Dec(Dec(sl[IF e.exo THEN 13 ELSE 7], Mkey7Vector), Pkg2Seed)
      ELSE sl[8]

----------------------------------------------------------------------------
(* Launching.                                                              *)

NoEks == [enabled |-> FALSE, keys |-> WrongKeys, found |-> FALSE]
NoBlob == [under |-> Junk, eks |-> NoEks]
NoCtxt == [idle |-> TRUE]

LaunchPowerOn ==
    /\ slot' = PowerOnSlots(unit) /\ sbk_is_set' = TRUE
    /\ eks' = NoEks /\ ext_patches' = "unparsed"
    /\ phase' = "menu" /\ ctxt' = NoCtxt

LaunchInit ==
    /\ unit \in Units /\ hos \in Installs
    /\ unit.t210b01 => hos.sys[1] >= V600 /\ hos.emu[1] >= V600
    /\ slot = PowerOnSlots(unit) /\ sbk_is_set = TRUE
    /\ eks = NoEks /\ mbr_eks = NoBlob /\ ext_patches = "unparsed"
    /\ phase = "menu" /\ ctxt = NoCtxt
    /\ relapses = 0 /\ launches = 0 /\ troubles = 0

Trouble == troubles < MaxTroubles /\ troubles' = troubles + 1 /\ relapses' = 0
NoTrouble == UNCHANGED <<relapses, troubles>>

\* emummc_enabled
Emu(e) == e.emu /\ ~e.disable

mkey == ctxt.id[1]
fuses == ctxt.id[2]

\* error: back to the menu.
Error == phase' = "menu" /\ ctxt' = NoCtxt

\* An entry is launched: the eMMC or emuMMC comes up and the entry is parsed.
hos_launch(e) ==
    /\ phase = "menu" /\ launches < MaxLaunches
    /\ launches' = launches + 1
    /\ phase' = "pkg1"
    /\ ctxt' = [e |-> e]
    /\ UNCHANGED <<unit, hos, seStore, ekses, ext_patches>> /\ NoTrouble

\* The storage does not come up, the card has a GPT only, or a file of the
\* entry is missing.
LaunchRefused ==
    /\ phase = "pkg1"
    /\ Error
    /\ UNCHANGED <<console, seStore, ekses, ext_patches>> /\ NoTrouble

\* LAFW: what the game card controller is updated to.
BelowV2 == unit.burnt <= 4       \* !(fuses & ~0xF)
BelowV3 == unit.burnt <= 10
BelowV4 == unit.burnt <= 13
BelowV5 == unit.burnt <= 14

\* Auto NOGC, and NOGC of an emuMMC when the fuses are burnt already.
NeedsNogc_FirstOnly(e, fw) ==
    /\ ~e.stock
    /\ \/ unit.autonogc /\ BelowV2 /\ fw >= 5
       \/ Emu(e) /\ \/ ~BelowV3 /\ fw <= 10
                    \/ ~BelowV4 /\ fw <= 13
                    \/ ~BelowV5 /\ fw <= 14

NeedsNogc(e, fw) ==
    /\ ~e.stock
    /\ \/ unit.autonogc /\ \/ BelowV2 /\ fw >= 5
                           \/ BelowV3 /\ fw >= 11
                           \/ BelowV4 /\ fw >= 14
                           \/ BelowV5 /\ fw >= 15
       \/ Emu(e) /\ \/ ~BelowV3 /\ fw <= 10
                    \/ ~BelowV4 /\ fw <= 13
                    \/ ~BelowV5 /\ fw <= 14

\* The patches asked for: hos_config_kip1patch appends to those of the entry.
Requested(e, fw) ==
    e.patches \o (IF Emu(e) THEN <<"emummc">> ELSE <<>>)
              \o (IF NeedsNogc(e, fw) THEN <<"nogc">> ELSE <<>>)

\* package1 is identified, the main one or the backup.
ReadPkg1 ==
    /\ phase = "pkg1"
    /\ LET e == ctxt.e
           id == IF Emu(e) THEN hos.emu ELSE hos.sys
       IN  IF (Emu(e) /\ e.stock) \/ (~e.emu /\ e.forced)
             THEN Error
             ELSE /\ phase' = "keys"
                  /\ ctxt' = [e |-> e, id |-> id, patches |-> Requested(e, id[2])]
    /\ UNCHANGED <<console, seStore, ekses, ext_patches>> /\ NoTrouble

\* It is not: stock reboots into the original firmware, if AutoRCM lets it.
Pkg1Unknown(autorcm) ==
    /\ phase = "pkg1"
    /\ IF ctxt.e.stock /\ (unit.t210b01 \/ ~autorcm)
         THEN LaunchPowerOn
         ELSE Error /\ UNCHANGED <<seStore, eks, ext_patches>>
    /\ UNCHANGED <<console, mbr_eks>> /\ NoTrouble

----------------------------------------------------------------------------
(* _hos_keygen.                                                            *)

\* Where the keys come from: T210B01's own, the EKS, the TSEC, or an earlier launch.
Keyed(from) == [e |-> ctxt.e, id |-> ctxt.id, patches |-> ctxt.patches, from |-> from]
KeyedWith(from, tk) ==
    [e |-> ctxt.e, id |-> ctxt.id, patches |-> ctxt.patches, from |-> from, tk |-> tk]

\* T210B01 needs no TSEC.
KeygenB01 ==
    /\ phase = "keys" /\ unit.t210b01
    /\ slot' = KeygenMariko(slot, mkey)
    /\ phase' = "unpack"
    /\ ctxt' = Keyed("kek")
    /\ UNCHANGED <<console, sbk_is_set, ekses, ext_patches>> /\ NoTrouble

\* "Continue with current SE keys."
KeygenStale ==
    /\ phase = "keys" /\ ~unit.t210b01 /\ ~sbk_is_set /\ ~unit.sbk
    /\ phase' = "unpack"
    /\ ctxt' = Keyed("stale")
    /\ UNCHANGED <<console, seStore, ekses, ext_patches>> /\ NoTrouble

\* The SBK is put back if it was lost (fuse_set_sbk).
WithSbk == IF sbk_is_set THEN slot ELSE [slot EXCEPT ![14] = SBK]

\* _hos_eks_get, when the sector could be read.  A blob is this unit's if its
\* SBK opens it.
EksGot == IF ~eks.found /\ mbr_eks.under = WithSbk[14] THEN mbr_eks.eks ELSE eks

UseTsec(k) == mkey <= V620 \/ ~k.enabled

EksToSlots(k) ==
    [WithSbk EXCEPT ![12] = k.keys.tsec, ![13] = k.keys.troot, ![11] = k.keys.dev]

KeygenStart(read) ==
    /\ phase = "keys" /\ ~unit.t210b01 /\ (sbk_is_set \/ unit.sbk)
    /\ sbk_is_set' = TRUE
    /\ eks' = IF read THEN EksGot ELSE eks
    /\ IF UseTsec(eks')
         THEN /\ slot' = WithSbk
              /\ phase' = "tsec" /\ UNCHANGED ctxt
         ELSE /\ slot' = EksToSlots(eks')
              /\ phase' = "derive"
              /\ ctxt' = KeyedWith("eks", eks'.keys)
    /\ IF read THEN NoTrouble ELSE ~eks.found /\ Trouble
    /\ UNCHANGED <<console, mbr_eks, ext_patches>>

\* thk.bin is missing, or the TSEC has failed sixteen times.
TsecFails ==
    /\ phase = "tsec"
    /\ Error
    /\ UNCHANGED <<console, seStore, ekses, ext_patches>> /\ NoTrouble

\* It answers.  thk.bin puts its keys into the slots itself.
TsecAnswers(tk) ==
    /\ phase = "tsec"
    /\ IF mkey >= V700
         THEN /\ slot' = [slot EXCEPT ![12] = tk.tsec, ![13] = tk.troot, ![11] = tk.dev]
              /\ phase' = "save"
         ELSE UNCHANGED slot /\ phase' = "derive"
    /\ ctxt' = KeyedWith("tsec", tk)
    /\ IF tk = WrongKeys THEN Trouble ELSE NoTrouble
    /\ UNCHANGED <<console, sbk_is_set, ekses, ext_patches>>

SlotKeys == [tsec |-> slot[12], troot |-> slot[13], dev |-> slot[11]]

\* _hos_eks_save: the keys are read back from their slots.
EksSave(read, write) ==
    /\ phase = "save"
    /\ eks' = IF read THEN [enabled |-> TRUE, keys |-> SlotKeys, found |-> TRUE] ELSE eks
    /\ mbr_eks' = IF read /\ write THEN [under |-> slot[14], eks |-> eks'] ELSE mbr_eks
    /\ IF read /\ write THEN NoTrouble ELSE Trouble
    /\ phase' = "derive"
    /\ UNCHANGED <<console, seStore, ext_patches, ctxt>>

Derive ==
    /\ phase = "derive"
    /\ slot' = Derived(slot, unit, mkey, ctxt.tk, ctxt.e)
    /\ sbk_is_set' = (sbk_is_set /\ ~LosesSbk(unit, mkey, ctxt.e))
    /\ phase' = "unpack"
    /\ ctxt' = Keyed(ctxt.from)
    /\ UNCHANGED <<console, ekses, ext_patches>> /\ NoTrouble

----------------------------------------------------------------------------
(* package1, warmboot, package2.                                           *)

\* Are parts of package1 needed, and can they be had?
Pkg1Ready(intact) ==
    \/ ctxt.e.warmboot /\ ctxt.e.exo
    \/ unit.t210b01 /\ intact
    \/ /\ mkey <= V600 => intact /\ slot[11] = Atom("package1_key", mkey)
       /\ ~unit.t210b01 /\ mkey <= V620 /\ ~Emu(ctxt.e)

\* intact: package1 decrypts with the right key; sc7exit: a warmboot binary for
\* the burnt fuses is on the card.
UnpackPkg1(intact, sc7exit) ==
    /\ phase = "unpack"
    /\ \/ ~Pkg1Ready(intact) /\ Error
       \/ /\ Pkg1Ready(intact)
          /\ phase' = IF unit.t210b01 /\ ~ctxt.e.warmboot /\ unit.burnt > fuses /\ ~sc7exit
                        THEN "warmboot" ELSE "pkg2"
          /\ UNCHANGED ctxt
    /\ UNCHANGED <<console, seStore, ekses, ext_patches>> /\ NoTrouble

\* "If you continue, sleep wont work!"
WarmbootAnswer(power) ==
    /\ phase = "warmboot"
    /\ IF power THEN phase' = "pkg2" /\ UNCHANGED ctxt ELSE Error
    /\ UNCHANGED <<console, seStore, ekses, ext_patches>> /\ NoTrouble

\* _hos_eks_clear
EksClears == ~unit.t210b01 /\ eks.found /\ mkey >= V700 /\ eks.enabled

EksClear_RamOnly(read, write) ==
    /\ eks' = IF EksClears /\ read THEN [eks EXCEPT !.enabled = FALSE] ELSE eks
    /\ UNCHANGED mbr_eks

EksClear(read, write) ==
    /\ eks' = IF EksClears /\ read THEN [eks EXCEPT !.enabled = FALSE] ELSE eks
    /\ mbr_eks' = IF EksClears /\ read /\ write THEN [under |-> slot[14], eks |-> eks'] ELSE mbr_eks

\* package2 is read and decrypted; intact: it is what was installed.
DecryptPkg2(intact, read, write) ==
    /\ phase = "pkg2"
    /\ LET key == DecryptKey(slot, unit, mkey, ctxt.e)
       IN  /\ slot' = IF ~unit.t210b01 /\ mkey = V700 THEN [slot EXCEPT ![9] = key] ELSE slot
           /\ \/ /\ intact /\ key = Pkg2Key(unit, mkey) /\ read /\ write
                 /\ phase' = "patch" /\ UNCHANGED <<ctxt, ekses>> /\ NoTrouble
              \/ /\ ~(intact /\ key = Pkg2Key(unit, mkey))
                 /\ Error /\ EksClear(read, write)
                 /\ IF read /\ write
                      THEN /\ relapses' = IF intact /\ ctxt.from = "eks" THEN relapses + 1 ELSE relapses
                           /\ UNCHANGED troubles
                      ELSE EksClears /\ Trouble
    /\ UNCHANGED <<console, sbk_is_set, ext_patches>>

\* The partition is not found.
Pkg2Missing ==
    /\ phase = "pkg2" /\ Error
    /\ UNCHANGED <<console, seStore, ekses, ext_patches>> /\ NoTrouble

\* INI1 does not parse, the kernel is not known, FS cannot read the exFAT card.
Pkg2Refused ==
    /\ phase = "patch" /\ Error
    /\ UNCHANGED <<console, seStore, ekses, ext_patches>> /\ NoTrouble

----------------------------------------------------------------------------
(* pkg2_patch_kips.                                                        *)

\* A name that is not built in makes it read patches.ini, once.
WantsIni == \E i \in DOMAIN ctxt.patches : ctxt.patches[i] \notin {"emummc", "nogc"}

Earliest(S) == CHOOSE i \in S : \A j \in S : i <= j

\* One KIP: its patchsets in order, then the emuMMC code.
PatchKip(done, kip, ext) ==
    LET asked == {i \in DOMAIN kip.sets :
                    /\ \E j \in DOMAIN ctxt.patches : ctxt.patches[j] = kip.sets[i].patch
                    /\ kip.sets[i].ext => ext = "parsed"}
        bad == {i \in asked : ~kip.sets[i].match}
        emu == done.selected /\ kip.name = "FS"
        applied(I) == done.applied \cup {kip.sets[i].patch : i \in I}
    IN  IF done.failed # NoPatch \/ ~kip.known \/ (asked = {} /\ ~emu) THEN done
        ELSE IF ~kip.decompresses THEN [done EXCEPT !.failed = kip.name]
        ELSE IF bad # {}
          THEN [done EXCEPT !.failed = kip.sets[Earliest(bad)].patch,
                            !.applied = applied({i \in asked : i < Earliest(bad)})]
        ELSE IF emu /\ ~kip.injects
          THEN [done EXCEPT !.failed = "emummc", !.applied = applied(asked)]
        ELSE [done EXCEPT !.applied = applied(asked),
                          !.selected = @ /\ ~emu, !.injected = @ \/ emu]

\* What is left to complain about at the end: the first failure, or the first
\* patch that was not applied, or the emuMMC.
Left(done) == {i \in DOMAIN ctxt.patches : ctxt.patches[i] \notin done.applied \cup {"emummc"}}

Unapplied_NoEmu(done) ==
    IF done.failed # NoPatch THEN done.failed
    ELSE IF Left(done) # {} THEN ctxt.patches[Earliest(Left(done))]
    ELSE NoPatch

Unapplied(done) ==
    IF done.failed # NoPatch THEN done.failed
    ELSE IF Left(done) # {} THEN ctxt.patches[Earliest(Left(done))]
    ELSE IF done.selected THEN "emummc" ELSE NoPatch

\* The KIPs of package2 in order, from the state before the first.
PatchKips(none, kips, ext) ==
    LET done[n \in 0 .. Len(kips)] ==
            IF n = 0 THEN none ELSE PatchKip(done[n - 1], kips[n], ext)
    IN  done[Len(kips)]

Unpatched ==
    [failed |-> NoPatch, applied |-> {}, injected |-> FALSE,
     selected |-> \E i \in DOMAIN ctxt.patches : ctxt.patches[i] = "emummc"]

pkg2_patch_kips(kips, ext) ==
    LET last == PatchKips(Unpatched, kips, ext)
    IN  IF Len(ctxt.patches) >= MaxPatches
          THEN [Unpatched EXCEPT !.failed = "too_many_patches"]
          ELSE [last EXCEPT !.failed = Unapplied(last)]

Patch(kips, ini) ==
    /\ phase = "patch"
    /\ ext_patches' = IF WantsIni /\ Len(ctxt.patches) < MaxPatches /\ ext_patches = "unparsed"
                        THEN ini ELSE ext_patches
    /\ LET r == pkg2_patch_kips(kips, ext_patches')
       IN  \/ r.failed = "emummc" /\ Error
           \/ /\ r.failed # "emummc"
              /\ phase' = IF r.failed = NoPatch THEN "boot" ELSE "ask"
              /\ ctxt' = [e |-> ctxt.e, id |-> ctxt.id, patches |-> ctxt.patches,
                          from |-> ctxt.from, failed |-> r.failed, applied |-> r.applied,
                          injected |-> r.injected]
    /\ UNCHANGED <<console, seStore, ekses>> /\ NoTrouble

\* "Press POWER to continue.  Press VOL to go to the menu."
PatchAnswer(power) ==
    /\ phase = "ask"
    /\ IF power THEN phase' = "boot" /\ UNCHANGED ctxt ELSE Error
    /\ UNCHANGED <<console, seStore, ekses, ext_patches>> /\ NoTrouble

\* package2 is rebuilt, its keys are cleared, the secure monitor starts.
Boot ==
    /\ phase = "boot"
    /\ phase' = "booted"
    /\ slot' = [slot EXCEPT ![8] = Junk, ![9] = Junk, ![11] = Junk]
    /\ UNCHANGED <<console, sbk_is_set, ekses, ext_patches, ctxt>> /\ NoTrouble

\* Off and on again, from the menu or from HOS.
Reboot ==
    /\ phase \in {"menu", "booted"}
    /\ launches \in 1 .. MaxLaunches - 1
    /\ LaunchPowerOn
    /\ UNCHANGED <<console, mbr_eks>> /\ NoTrouble

LaunchNext ==
    \/ \E e \in Entries : hos_launch(e)
    \/ LaunchRefused
    \/ ReadPkg1
    \/ \E autorcm \in BOOLEAN : Pkg1Unknown(autorcm)
    \/ KeygenB01
    \/ KeygenStale
    \/ \E read \in BOOLEAN : KeygenStart(read)
    \/ TsecFails
    \/ phase = "tsec" /\ \E tk \in {TsecKeys(mkey), WrongKeys} : TsecAnswers(tk)
    \/ \E read, write \in BOOLEAN : EksSave(read, write)
    \/ Derive
    \/ \E intact, sc7exit \in BOOLEAN : UnpackPkg1(intact, sc7exit)
    \/ \E power \in BOOLEAN : WarmbootAnswer(power)
    \/ \E intact, read, write \in BOOLEAN : DecryptPkg2(intact, read, write)
    \/ Pkg2Missing
    \/ Pkg2Refused
    \/ \E kips \in KipLists, ini \in {"parsed", "missing"} : Patch(kips, ini)
    \/ \E power \in BOOLEAN : PatchAnswer(power)
    \/ Boot
    \/ Reboot

LaunchSpec == LaunchInit /\ [][LaunchNext]_launchVars

----------------------------------------------------------------------------
(* Properties.                                                             *)

LaunchTypeOK ==
    /\ unit \in Units /\ hos \in Installs
    /\ DOMAIN slot = Slots /\ sbk_is_set \in BOOLEAN
    /\ {eks.enabled, eks.found, mbr_eks.eks.enabled} \subseteq BOOLEAN
    /\ ext_patches \in {"unparsed", "parsed", "missing"}
    /\ phase \in {"menu", "pkg1", "keys", "tsec", "save", "derive", "unpack", "warmboot",
                  "pkg2", "patch", "ask", "boot", "booted"}
    /\ relapses \in Nat /\ launches \in 0 .. MaxLaunches /\ troubles \in 0 .. MaxTroubles

\* What the slots hold after a keygen that nothing preceded, with a TSEC that is right.
FreshSlots ==
    LET tk == TsecKeys(mkey)
        on == PowerOnSlots(unit)
        sl == IF ~unit.t210b01 /\ mkey >= V700
                THEN [on EXCEPT ![12] = tk.tsec, ![13] = tk.troot, ![11] = tk.dev] ELSE on
    IN  Derived(sl, unit, mkey, tk, ctxt.e)

\* The secure monitor is started with the keys a first launch after power-on would
\* have left, whatever was launched before and however it failed (other master keys,
\* other monitors, a lost SBK, a TSEC that was wrong): unless the SBK could not be
\* put back, when hos.c continues with what is there.  And sbk_is_set is true only
\* while slot 14 holds the SBK.
KeysAsFresh ==
    /\ LaunchTypeOK
    /\ sbk_is_set => slot[14] = SBK
    /\ phase = "booted" /\ ctxt.from # "stale" =>
         \A s \in {10, 12, 13, 14, 15} : FreshSlots[s] # Junk => slot[s] = FreshSlots[s]

\* Wrong keys in the EKS stop at most one launch: when package2 does not open with
\* them, _hos_eks_clear disables them in RAM and on the card, and neither the next
\* launch nor one after a reboot uses them again (unless the card failed meanwhile).
BadKeysOnce == relapses <= 1

\* LAFW revision of a fuse count, as the comments of hos.c have it: v2 from 4.0.0,
\* v3 from 9.0.0, v4 from 11.0.0, v5 from 12.0.2.
Lafw(n) == Cardinality({first \in {5, 11, 14, 15} : n >= first})

\* What a non-stock boot does to the game card controller: updates it, or meets one
\* that is newer than the emuMMC's firmware.
Updates == unit.autonogc /\ Lafw(fuses) > Lafw(unit.burnt)
TooNew == Emu(ctxt.e) /\ Lafw(unit.burnt) > 1 /\ Lafw(unit.burnt) > Lafw(fuses)

\* HOS is started as asked, unless the user was told of a failed patch and pressed
\* POWER: every patch of the entry is in, the emuMMC code is injected, a game card
\* controller that Auto NOGC protects meets the nogc patch.  A failed emuMMC patch
\* cannot be waved through, and an entry that forces the emuMMC boots it.
BootedAsAsked ==
    phase = "booted" =>
      LET e == ctxt.e
          waved == ctxt.failed # NoPatch
      IN  /\ ctxt.failed # "emummc"
          /\ e.forced /\ ~e.disable => Emu(e)
          /\ waved \/ \A i \in DOMAIN e.patches : e.patches[i] \in ctxt.applied \cup {"emummc"}
          /\ waved \/ (Emu(e) => ctxt.injected)
          /\ waved \/ e.stock \/ ~(Updates \/ TooNew) \/ "nogc" \in ctxt.applied

\* What the code says of the emuMMC patch: if it failed, "MUST stop here".
EmuIsInjected == phase = "booted" /\ Emu(ctxt.e) => ctxt.injected

=============================================================================
