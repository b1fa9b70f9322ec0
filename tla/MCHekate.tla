----------------------------- MODULE MCHekate -----------------------------
(***************************************************************************)
(* hekate for TLC.  The drivers below it: the front ends of the SD card    *)
(* and the eMMC (SdmmcStorage), the bring-up of every card, good and       *)
(* faulty (SdmmcInit), the tap scan of every tuning result (SdmmcTuning)   *)
(* and the heap (Heap).  The boot chain up to the menu (BootChain), and    *)
(* what autoboot and the menus launch (BootEntry), which starts where the  *)
(* chain has settled, and the launch of HOS itself (HosLaunch).  They      *)
(* share no state; a behaviour runs one of them while the others rest.     *)
(***************************************************************************)
EXTENDS MCSdmmcStorage, SdmmcInit, SdmmcTuning, Heap, MCBootChain, MCBootEntry,
        MCHosLaunch

VARIABLE part   \* which of them a behaviour is about

drivers == <<frontVars, cardVars, tapVars, vars>>
boot == <<chainVars, entryVars, launchVars>>
mcVars == <<part, drivers, boot>>

SdCaps == [kind : {"sd"}, faulty : BOOLEAN, v1 : {FALSE},
           s18 : BOOLEAN, w4 : BOOLEAN, sda : BOOLEAN, power : BOOLEAN,
           access : SUBSET {"HS", "SDR25", "SDR50", "SDR104"}]

\* A card of version 1.x knows neither CMD8 nor 1.8 V and UHS.
SdV1Caps == [kind : {"sd"}, faulty : BOOLEAN, v1 : {TRUE},
             s18 : {FALSE}, w4 : BOOLEAN, sda : BOOLEAN, power : BOOLEAN,
             access : SUBSET {"HS"}]

MmcCaps == [kind : {"emmc"}, faulty : BOOLEAN,
            vsn4 : BOOLEAN, types : SUBSET {"HS52", "HS200", "HS400"}]

MCCaps == SdCaps \cup SdV1Caps \cup MmcCaps

RestCard == CHOOSE c \in MmcCaps : ~c.faulty
RestTaps == [t \in Taps |-> FALSE]
RestBoot == CHOOSE b \in BootCfgs : TRUE
RestUnit == CHOOSE u \in Units : ~u.t210b01
RestInstall == CHOOSE inst \in Installs : TRUE
RestConfig == CHOOSE c \in Configs : TRUE

MCInit ==
    /\ part \in {"front", "card", "tap", "heap", "chain", "entry", "launch"}
    /\ IF part = "front" THEN TRUE ELSE kind = "emmc" /\ flaky = FALSE
    /\ IF part = "card" THEN TRUE ELSE caps = RestCard
    /\ IF part = "tap" THEN TRUE ELSE result = RestTaps
    \* With FileFaults the ini file may be misread either way.
    /\ autokeys = TRUE
    /\ IF part = "chain" THEN TRUE ELSE update = Absent /\ bundle = FALSE /\ keys = FALSE
    /\ IF part = "entry" THEN TRUE ELSE b_cfg = RestBoot /\ config = RestConfig
    /\ IF part = "launch" THEN TRUE ELSE unit = RestUnit /\ hos = RestInstall
    /\ FrontInit /\ CardInit /\ TapInit /\ Init /\ ChainInit /\ EntryInit /\ LaunchInit

MCNext ==
    \/ part = "front" /\ FrontNext /\ UNCHANGED <<part, cardVars, tapVars, vars, boot>>
    \/ part = "card" /\ CardNext /\ UNCHANGED <<part, frontVars, tapVars, vars, boot>>
    \/ part = "tap" /\ TapNext /\ UNCHANGED <<part, frontVars, cardVars, vars, boot>>
    \/ part = "heap" /\ Next /\ UNCHANGED <<part, frontVars, cardVars, tapVars, boot>>
    \/ part = "chain" /\ ChainNext /\ UNCHANGED <<part, drivers, entryVars, launchVars>>
    \/ part = "entry" /\ EntryNext /\ UNCHANGED <<part, drivers, chainVars, launchVars>>
    \/ part = "launch" /\ LaunchNext /\ UNCHANGED <<part, drivers, chainVars, entryVars>>

\* The fairness of FrontFairSpec and of ChainFairSpec.
MCSpec ==
    /\ MCInit /\ [][MCNext]_mcVars
    /\ WF_mcVars(/\ part = "front" /\ CallStep
                 /\ UNCHANGED <<kind, flaky, part, cardVars, tapVars, vars, boot>>)
    /\ WF_mcVars(part = "chain" /\ ChainStep /\ UNCHANGED <<part, drivers, entryVars, launchVars>>)

=============================================================================
