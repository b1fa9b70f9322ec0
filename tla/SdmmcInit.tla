----------------------------- MODULE SdmmcInit -----------------------------
(***************************************************************************)
(* The bring-up of a memory card: the command sequences of                 *)
(* sdmmc_storage_init_sd and sdmmc_storage_init_mmc (bdk/storage/sdmmc.c)  *)
(* and the bus settings they make on the host (sdmmc_driver.c), against a  *)
(* card that only answers a command that is legal in its state and that    *)
(* reaches it at a voltage, width and clock it is set up for.  Each mode   *)
(* of sd_init_retry / emmc_init_retry is a bring-up from power off.        *)
(*                                                                         *)
(* Abstractions.  Register contents are the capabilities they report.  A   *)
(* loop that polls until a timeout is one step with both results.          *)
(***************************************************************************)
EXTENDS Integers, FiniteSets

CONSTANT Caps   \* the cards to bring up, records of capabilities

\* Of every card: which controller it is on, and whether a command to it or a
\* host operation may fail by itself.
ASSUME CapsAssumption ==
    \A c \in Caps : c.kind \in {"sd", "emmc"} /\ c.faulty \in BOOLEAN

VARIABLES
    caps,     \* the card in use
    speed,    \* sd_mode, emmc_mode of the bring-up in progress
    stage,    \* the next step of the sequence
    host,     \* signalling voltage, bus width and timing of the host
    mem,      \* state, voltage, width and timing of the card
    lv,       \* storage->is_low_voltage
    type,     \* the timing asked for, as set_uhs_bus_speed narrows it
    reached   \* history: the rate each mode was brought up with, 0 before

cardVars == <<caps, speed, stage, host, mem, lv, type, reached>>

Modes == 1 .. 4

\* The parameters sd_init_retry and emmc_init_retry choose for a mode.
BusWidth(m) == IF m = 1 THEN 1 ELSE IF caps.kind = "sd" THEN 4 ELSE 8

Timing_SameHs400(m) == IF caps.kind = "sd" THEN <<"HS25", "HS25", "SDR82", "SDR104">>[m]
                       ELSE <<"HS52", "HS52", "HS400", "HS400">>[m]

Timing(m) == IF caps.kind = "sd" THEN <<"HS25", "HS25", "SDR82", "SDR104">>[m]
             ELSE <<"HS52", "HS52", "HS200", "HS400">>[m]

\* clock_sdmmc_get_card_clock_div, in MHz, doubled for DDR.
Clock ==
    [ID |-> 0, DS12 |-> 25, SDR12 |-> 25, HS25 |-> 50, SDR25 |-> 50, SDR50 |-> 100,
     SDR82 |-> 164, SDR104 |-> 208,
     LS26 |-> 26, HS52 |-> 52, HS200 |-> 200, HS400 |-> 400]

Off == [volt |-> "off", width |-> 1, timing |-> "ID"]

CardInit ==
    /\ caps \in Caps
    /\ speed = 4 /\ stage = "off" /\ lv = FALSE /\ type = "ID"
    /\ host = Off
    /\ mem = [st |-> "off", volt |-> "off", width |-> 1, timing |-> "ID"]
    /\ reached = [m \in Modes |-> 0]

----------------------------------------------------------------------------
(* What both sequences are made of.                                        *)

\* The command reaches the card.
Heard == host.volt = mem.volt /\ Clock[host.timing] <= Clock[mem.timing]

\* With data the width has to agree as well.
DataOk == host.width = mem.width /\ Clock[host.timing] = Clock[mem.timing]

\* A command sent in step at: legal in state st only, leaves the card as new.
Command(at, st, new, next) ==
    /\ stage = at
    /\ \/ /\ Heard /\ mem.st = st
          /\ mem' = new /\ stage' = next
       \/ /\ caps.faulty \/ ~Heard \/ mem.st # st
          /\ stage' = "failed" /\ UNCHANGED mem
    /\ UNCHANGED <<caps, speed, host, lv, type, reached>>

DataCommand(at, new, next) ==
    /\ stage = at
    /\ \/ /\ Heard /\ DataOk /\ mem.st = "tran"
          /\ mem' = new /\ stage' = next
       \/ /\ caps.faulty \/ ~Heard \/ ~DataOk \/ mem.st # "tran"
          /\ stage' = "failed" /\ UNCHANGED mem
    /\ UNCHANGED <<caps, speed, host, lv, type, reached>>

\* A host setting.
Set(at, new, next) ==
    /\ stage = at
    /\ \/ host' = new /\ stage' = next
       \/ caps.faulty /\ host' = new /\ stage' = "failed"
    /\ UNCHANGED <<caps, speed, mem, lv, type, reached>>

\* sdmmc_init after the power cycle of the retry, then CMD0 (its reset takes
\* the card from any state to idle).
sdmmc_init ==
    /\ stage = "start"
    /\ host' = [volt |-> IF caps.kind = "sd" THEN "3.3" ELSE "1.8", width |-> 1, timing |-> "ID"]
    /\ \/ /\ mem' = [st |-> "idle", volt |-> IF caps.kind = "sd" THEN "3.3" ELSE "1.8",
                      width |-> 1, timing |-> "ID"]
          /\ stage' = IF caps.kind = "sd" THEN "if_cond" ELSE "op_cond"
       \/ /\ caps.faulty
          /\ mem' = [mem EXCEPT !.st = "off", !.volt = "off"]
          /\ stage' = "failed"
    /\ lv' = FALSE /\ type' = Timing(speed)
    /\ UNCHANGED <<caps, speed, reached>>

\* sd_init_retry, emmc_init_retry: a bring-up in mode m, the next lower one
\* after a failure or an I/O error.
Retry(m) ==
    /\ \/ stage = "off" /\ m = 4
       \/ stage \in {"failed", "done"} /\ m = speed - 1 /\ m > 0
    /\ speed' = m /\ stage' = "start"
    /\ host' = Off /\ mem' = [st |-> "off", volt |-> "off", width |-> 1, timing |-> "ID"]
    /\ UNCHANGED <<caps, lv, type, reached>>

----------------------------------------------------------------------------
(* The SD sequence.                                                        *)

\* _sd_storage_send_if_cond: no response to CMD8 is taken for a card of version
\* 1.x (*is_sd_v1), any other error and a wrong pattern fail.
_sd_storage_send_if_cond_V1Fails ==
    /\ caps.kind = "sd" /\ stage = "if_cond"
    /\ \/ ~caps.v1 /\ Heard /\ mem.st = "idle" /\ stage' = "acmd41"
       \/ (caps.v1 \/ caps.faulty \/ ~Heard \/ mem.st # "idle") /\ stage' = "failed"
    /\ UNCHANGED <<caps, speed, host, mem, lv, type, reached>>

_sd_storage_send_if_cond ==
    /\ caps.kind = "sd" /\ stage = "if_cond"
    /\ \/ ~caps.v1 /\ Heard /\ mem.st = "idle" /\ stage' = "acmd41"
       \/ (caps.v1 \/ caps.faulty \/ ~Heard \/ mem.st # "idle") /\ stage' = "acmd41v1"
       \/ caps.faulty /\ stage' = "failed"
    /\ UNCHANGED <<caps, speed, host, mem, lv, type, reached>>

_sd_storage_get_bus_uhs_support == BusWidth(speed) = 4 /\ Timing(speed) \in {"SDR82", "SDR104"}

\* _sd_storage_get_op_cond, up to the voltage switch, which a card taken for
\* version 1.x is not asked for.
_sd_storage_get_op_cond ==
    \/ stage = "acmd41" /\ Command("acmd41", "idle", [mem EXCEPT !.st = "ready"],
            IF _sd_storage_get_bus_uhs_support /\ caps.s18 THEN "cmd11" ELSE "cid")
    \/ Command("acmd41v1", "idle", [mem EXCEPT !.st = "ready"], "cid")

\* SD_VOLTAGE_SWITCH: when the response is lost the sequence goes on at 3.3 V.
VoltageSwitch ==
    /\ stage = "cmd11"
    /\ \/ mem' = [mem EXCEPT !.volt = "1.8", !.timing = "SDR12"] /\ stage' = "sdr12"
       \/ /\ caps.faulty
          /\ mem' \in {mem, [mem EXCEPT !.volt = "1.8", !.timing = "SDR12"]}
          /\ stage' = "cid"
    /\ UNCHANGED <<caps, speed, host, lv, type, reached>>

\* sdmmc_setup_clock(SDR12), then sdmmc_enable_low_voltage.
LowVoltage_HostOnlyClock ==
    /\ stage = "sdr12"
    /\ host' = [host EXCEPT !.timing = "SDR12"]
    /\ \/ lv' = TRUE /\ stage' = "cid"
       \/ caps.faulty /\ UNCHANGED lv /\ stage' = "failed"
    /\ UNCHANGED <<caps, speed, mem, type, reached>>

LowVoltage ==
    /\ stage = "sdr12"
    /\ host' = [host EXCEPT !.timing = "SDR12", !.volt = "1.8"]
    /\ \/ lv' = TRUE /\ stage' = "cid"
       \/ caps.faulty /\ UNCHANGED lv /\ stage' = "failed"
    /\ UNCHANGED <<caps, speed, mem, type, reached>>

_sdmmc_storage_get_cid == Command("cid", "ready", [mem EXCEPT !.st = "ident"], "rca")

\* _sd_storage_get_rca and _mmc_storage_set_relative_addr, then the CSD.
RelativeAddr ==
    Command("rca", "ident",
            [mem EXCEPT !.st = "stby",
                         !.timing = IF lv THEN @ ELSE IF caps.kind = "sd" THEN "DS12" ELSE "LS26"],
            IF lv THEN "select" ELSE "slow")

\* sdmmc_setup_clock to the default speed.
SlowClock == Set("slow", [host EXCEPT !.timing = IF caps.kind = "sd" THEN "DS12" ELSE "LS26"],
                 "select")

_sdmmc_storage_select_card == Command("select", "stby", [mem EXCEPT !.st = "tran"], "blocklen")

_sdmmc_storage_set_blocklen ==
    stage = "blocklen" /\ Command("blocklen", "tran", mem,
            IF caps.kind = "sd" THEN "scr" ELSE IF caps.vsn4 THEN "mmcwidth" ELSE "powersave")

\* Card detect, sd_storage_get_scr: data, on the 1-bit bus.
sd_storage_get_scr ==
    stage = "scr" /\ DataCommand("scr", mem,
                IF BusWidth(speed) = 4 /\ caps.w4 /\ caps.sda THEN "width"
                ELSE IF lv THEN "uhs"
                ELSE IF caps.sda THEN "hs25" ELSE "powersave")

\* SD_APP_SET_BUS_WIDTH and _mmc_storage_switch_buswidth set the card first.
CardWidth ==
    \/ Command("width", "tran", [mem EXCEPT !.width = 4], "hostwidth")
    \/ /\ stage = "mmcwidth" /\ BusWidth(speed) = 1
       /\ stage' = "extcsd"
       /\ UNCHANGED <<caps, speed, host, mem, lv, type, reached>>
    \/ BusWidth(speed) # 1 /\ Command("mmcwidth", "tran",
                                     [mem EXCEPT !.width = BusWidth(speed)], "hostwidth")

HostWidth ==
    Set("hostwidth", [host EXCEPT !.width = BusWidth(speed)],
        IF caps.kind = "emmc" THEN "extcsd" ELSE IF lv THEN "uhs" ELSE "hs25")

\* The fall-through of the switch in _sd_storage_set_uhs_bus_speed.  SDR82 and
\* SDR104 are one case, and the type is overwritten before it is told apart.
UhsType ==
    CASE "SDR104" \in caps.access -> "SDR104"
      [] "SDR104" \notin caps.access /\ "SDR50" \in caps.access -> "SDR50"
      [] caps.access \cap {"SDR104", "SDR50"} = {} /\ "SDR25" \in caps.access -> "SDR25"
      [] OTHER -> "SDR12"

\* _sd_storage_set_uhs_bus_speed, to the CMD6 that switches the card: fails on
\* a narrow bus and above the power limit.
UhsCard ==
    /\ stage = "uhs"
    /\ type' = UhsType
    /\ \/ /\ host.width = 4 /\ DataOk /\ UhsType = "SDR12"
          /\ stage' = "powersave" /\ UNCHANGED mem
       \/ /\ host.width = 4 /\ DataOk /\ UhsType # "SDR12" /\ caps.power
          /\ mem' = [mem EXCEPT !.timing = UhsType]
          /\ stage' = "uhsclock"
       \/ /\ host.width # 4 \/ ~DataOk \/ ~caps.power \/ caps.faulty
          /\ stage' = "failed" /\ UNCHANGED mem
    /\ UNCHANGED <<caps, speed, host, lv, reached>>

\* sdmmc_setup_clock(type), tuning.
UhsClock == Set("uhsclock", [host EXCEPT !.timing = type], "status")

\* _sd_storage_set_hs25_bus_speed: without High Speed it stays at default speed.
Hs25Card_IgnoresSupport ==
    /\ stage = "hs25"
    /\ DataCommand("hs25", [mem EXCEPT !.timing = IF "HS" \in caps.access THEN "HS25" ELSE @],
                   "hs25clock")

Hs25Card ==
    /\ stage = "hs25"
    /\ \/ /\ "HS" \in caps.access /\ caps.power
          /\ DataCommand("hs25", [mem EXCEPT !.timing = "HS25"], "hs25clock")
       \/ /\ "HS" \notin caps.access
          /\ DataCommand("hs25", mem, "powersave")
       \/ /\ "HS" \in caps.access /\ ~caps.power
          /\ stage' = "failed"
          /\ UNCHANGED <<caps, speed, host, mem, lv, type, reached>>

Hs25Clock == Set("hs25clock", [host EXCEPT !.timing = "HS25"], "powersave")

----------------------------------------------------------------------------
(* The eMMC sequence.                                                      *)

_mmc_storage_get_op_cond ==
    caps.kind = "emmc" /\ Command("op_cond", "idle", [mem EXCEPT !.st = "ready"], "cid")

mmc_storage_get_ext_csd == DataCommand("extcsd", mem, "highspeed")

\* _mmc_storage_enable_highspeed chooses by width, card type and timing.
HighSpeed ==
    /\ stage = "highspeed"
    /\ stage' = IF host.width = 8 /\ "HS400" \in caps.types /\ type = "HS400" THEN "hs200"
             ELSE IF host.width \in {4, 8} /\ "HS200" \in caps.types
                     /\ type \in {"HS400", "HS200"} THEN "hs200"
             ELSE IF "HS52" \in caps.types THEN "hs52" ELSE "powersave"
    /\ UNCHANGED <<caps, speed, host, mem, lv, type, reached>>

To400 == host.width = 8 /\ "HS400" \in caps.types /\ type = "HS400"

\* _mmc_storage_enable_HS200.
Hs200Card == Command("hs200", "tran", [mem EXCEPT !.timing = "HS200"], "hs200clock")
Hs200Clock ==
    stage = "hs200clock" /\ Set("hs200clock", [host EXCEPT !.timing = "HS200"],
                            IF To400 THEN "to52" ELSE "status")

\* _mmc_storage_enable_HS400: back to HS52 (the clock follows the card without
\* a status check in between), then DDR and HS400.
To52Card == Command("to52", "tran", [mem EXCEPT !.timing = "HS52"], "to52clock")
To52Clock == Set("to52clock", [host EXCEPT !.timing = "HS52"], "ddr")
Hs400Card == Command("ddr", "tran", [mem EXCEPT !.timing = "HS400"], "hs400clock")
Hs400Clock == Set("hs400clock", [host EXCEPT !.timing = "HS400"], "status")

\* _mmc_storage_enable_HS(true).
Hs52Card == Command("hs52", "tran", [mem EXCEPT !.timing = "HS52"], "hs52clock")
Hs52Clock == Set("hs52clock", [host EXCEPT !.timing = "HS52"], "powersave")

----------------------------------------------------------------------------

_sdmmc_storage_check_status == Command("status", "tran", mem, "powersave")

\* Powersave and storage->initialized = 1.
Initialized ==
    /\ stage = "powersave"
    /\ stage' = "done"
    /\ reached' = [reached EXCEPT ![speed] = host.width * Clock[host.timing]]
    /\ UNCHANGED <<caps, speed, host, mem, lv, type>>

CardNext ==
    \/ \E m \in Modes : Retry(m)
    \/ sdmmc_init \/ RelativeAddr \/ SlowClock
    \/ _sdmmc_storage_get_cid \/ _sdmmc_storage_select_card \/ _sdmmc_storage_set_blocklen
    \/ _sd_storage_send_if_cond \/ _sd_storage_get_op_cond \/ VoltageSwitch \/ LowVoltage
    \/ sd_storage_get_scr \/ CardWidth \/ HostWidth \/ UhsCard \/ UhsClock
    \/ Hs25Card \/ Hs25Clock
    \/ _mmc_storage_get_op_cond \/ mmc_storage_get_ext_csd \/ HighSpeed
    \/ Hs200Card \/ Hs200Clock \/ To52Card \/ To52Clock \/ Hs400Card \/ Hs400Clock
    \/ Hs52Card \/ Hs52Clock
    \/ _sdmmc_storage_check_status \/ Initialized

CardSpec == CardInit /\ [][CardNext]_cardVars

----------------------------------------------------------------------------
(* Properties.                                                             *)

\* A storage marked initialized can transfer: the card is in the transfer state
\* and host and card agree on voltage, width and clock, in spite of every
\* command that may have failed on the way.
InitializedAgrees ==
    stage = "done" => mem.st = "tran" /\ Heard /\ host.width = mem.width /\
                   Clock[host.timing] <= Clock[mem.timing]

InSpec ==
    IF caps.kind = "sd" THEN caps.power /\ (caps.s18 => caps.w4 /\ caps.sda) ELSE TRUE

\* Without faults every card within its specification comes up in every mode:
\* no command is sent in a wrong state, on the wrong bus or at a clock the card
\* has not been switched to.
GoodCardComesUp == ~caps.faulty /\ InSpec => stage # "failed"

\* A bring-up ends as it should: with a storage that can transfer, or with a
\* failure that the card is the cause of.
BringUpSound == InitializedAgrees /\ GoodCardComesUp

\* A card that supports every speed.  A failing SD card may lose the answer to
\* CMD8 or CMD11, which leaves one bring-up at 3.3 V whatever its mode.
FullSpeedCard ==
    IF caps.kind = "sd"
      THEN {"HS", "SDR25", "SDR50", "SDR104"} \subseteq caps.access
           /\ caps.s18 /\ caps.w4 /\ caps.sda /\ ~caps.v1 /\ ~caps.faulty
      ELSE {"HS52", "HS200", "HS400"} \subseteq caps.types /\ caps.vsn4

\* _sd_storage_set_uhs_bus_speed brings both of these up as SDR104.
SameTiming(m, n) == caps.kind = "sd" /\ m = 3 /\ n = 4

\* "Reinit SD/EMMC to a lower speed." (sdmmc.c): for a card that supports every
\* speed, each lower mode of the retry ladder of sd.c and emmc.c really is
\* slower, but for SDR82, which runs as SDR104.
LowerModeIsSlower ==
    FullSpeedCard => \A m, n \in Modes :
        m < n /\ ~SameTiming(m, n) /\ reached[m] # 0 /\ reached[n] # 0 =>
            reached[m] < reached[n]

=============================================================================
