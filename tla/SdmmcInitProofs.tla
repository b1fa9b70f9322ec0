-------------------------- MODULE SdmmcInitProofs --------------------------
(***************************************************************************)
(* Proofs about SdmmcInit: at every step of a bring-up host and card are   *)
(* where the step expects them, for any set of cards and any faults.       *)
(***************************************************************************)
EXTENDS SdmmcInit, TLAPS

Timings == {"ID", "DS12", "SDR12", "HS25", "SDR25", "SDR50", "SDR82", "SDR104", "LS26", "HS52",
            "HS200", "HS400"}
Widths == {1, 4, 8}
Volts == {"off", "3.3", "1.8"}
CardStates == {"off", "idle", "ready", "ident", "stby", "tran"}

CardTypes ==
    /\ caps \in Caps /\ speed \in Modes /\ lv \in BOOLEAN /\ type \in Timings
    /\ host \in [volt : Volts, width : Widths, timing : Timings]
    /\ mem \in [st : CardStates, volt : Volts, width : Widths, timing : Timings]
    /\ reached \in [Modes -> Nat]

Sd == caps.kind = "sd"

\* Voltage and clocks before the card has an address, and after.
Volt   == IF Sd /\ ~lv THEN "3.3" ELSE "1.8"
First  == IF lv THEN "SDR12" ELSE "ID"
Second == IF lv THEN "SDR12" ELSE IF Sd THEN "DS12" ELSE "LS26"

\* The card is in state st, host and card are set to the timings t and u.
Lines(st, t, u) ==
    /\ host.volt = Volt /\ mem.volt = Volt /\ mem.st = st
    /\ host.timing = t /\ mem.timing = u

Narrow == host.width = 1 /\ mem.width = 1
\* Both use the width asked for, if an SD card has it at all.
SameWidth ==
    /\ host.width = mem.width
    /\ Sd => IF caps.w4 /\ caps.sda /\ BusWidth(speed) = 4 THEN host.width = 4 ELSE host.width = 1
    /\ ~Sd => host.width = IF caps.vsn4 THEN BusWidth(speed) ELSE 1

\* A low voltage was asked for.
WantsUhs == _sd_storage_get_bus_uhs_support /\ caps.s18

Identify ==
    /\ stage \in {"if_cond", "acmd41", "acmd41v1"} => Sd /\ ~lv /\ Narrow /\ Lines("idle", "ID", "ID")
    /\ stage = "acmd41v1" => caps.v1 \/ caps.faulty
    /\ stage = "op_cond" => ~Sd /\ ~lv /\ Narrow /\ Lines("idle", "ID", "ID")
    /\ stage = "cmd11" => Sd /\ ~lv /\ WantsUhs /\ Narrow /\ Lines("ready", "ID", "ID")
    /\ stage = "sdr12" =>
         /\ Sd /\ ~lv /\ WantsUhs /\ Narrow
         /\ host.volt = "3.3" /\ host.timing = "ID"
         /\ mem.volt = "1.8" /\ mem.st = "ready" /\ mem.timing = "SDR12"
    /\ stage = "cid" =>
         /\ Narrow
         /\ \/ Lines("ready", First, First)
            \/ /\ caps.faulty /\ Sd /\ ~lv /\ host.volt = "3.3" /\ host.timing = "ID"
               /\ mem.volt = "1.8"
    /\ stage = "rca" => Narrow /\ Lines("ident", First, First)
    /\ stage = "slow" => ~lv /\ Narrow /\ Lines("stby", "ID", Second)
    /\ stage = "select" => Narrow /\ Lines("stby", Second, Second)

Transfer ==
    /\ stage \in {"blocklen", "scr", "width", "mmcwidth"} => Narrow /\ Lines("tran", Second, Second)
    /\ stage \in {"scr", "width", "uhs", "hs25", "uhsclock", "hs25clock"} => Sd
    /\ stage \in {"width", "hs25", "hs25clock"} => caps.sda
    /\ stage = "width" => caps.w4 /\ BusWidth(speed) = 4
    /\ stage = "hostwidth" =>
         /\ host.width = 1 /\ mem.width = BusWidth(speed) /\ Lines("tran", Second, Second)
         /\ BusWidth(speed) # 1 /\ (Sd => caps.w4 /\ caps.sda) /\ (~Sd => caps.vsn4)
    /\ stage \in {"uhs", "hs25", "extcsd", "highspeed", "hs200", "hs52"} =>
         SameWidth /\ Lines("tran", Second, Second)
    /\ stage \in {"uhs", "uhsclock"} => lv
    /\ stage \in {"hs25", "hs25clock"} => ~lv
    /\ stage = "uhsclock" =>
         /\ SameWidth /\ host.width = 4 /\ type = UhsType /\ Lines("tran", "SDR12", type)
    /\ stage = "hs25clock" => SameWidth /\ Lines("tran", "DS12", "HS25")

\* The eMMC ends with the timing its mode and its types allow.
FastMmc == host.width \in {4, 8} /\ type \in {"HS400", "HS200"}
Mmc ==
    /\ stage \in {"mmcwidth", "extcsd", "highspeed", "hs200", "hs200clock", "to52", "to52clock",
                  "ddr", "hs400clock", "hs52", "hs52clock"} => ~Sd /\ caps.vsn4
    /\ stage \in {"hs200clock", "to52", "to52clock", "ddr", "hs400clock", "hs52clock"} => SameWidth
    /\ stage \in {"hs200", "hs200clock"} => FastMmc
    /\ stage \in {"to52", "to52clock", "ddr", "hs400clock"} => To400
    /\ stage = "hs200clock" => Lines("tran", "LS26", "HS200")
    /\ stage = "to52" => Lines("tran", "HS200", "HS200")
    /\ stage = "to52clock" => Lines("tran", "HS200", "HS52")
    /\ stage = "ddr" => Lines("tran", "HS52", "HS52")
    /\ stage = "hs400clock" => Lines("tran", "HS52", "HS400")
    /\ stage \in {"hs52", "hs52clock"} =>
         ~(FastMmc /\ "HS200" \in caps.types) /\ ~To400
    /\ stage = "hs52clock" => Lines("tran", "LS26", "HS52")

\* The stages before the card's address is asked for.
Early == {"if_cond", "acmd41", "acmd41v1", "cmd11", "sdr12"}
Late == {"status", "powersave", "done"}
Ready ==
    /\ stage \in Late => SameWidth /\ Lines("tran", mem.timing, mem.timing)
    /\ stage \notin {"off", "start", "failed"} /\ ~Sd => ~lv /\ type = Timing(speed)
    /\ stage \notin {"off", "start"} /\ lv => Sd /\ WantsUhs

\* A failure has a cause.
Failed == stage = "failed" => caps.faulty \/ ~InSpec

\* The rate of a mode, for a card that supports every speed.
Rate(m) == IF Sd THEN <<50, 200, 832, 832>>[m] ELSE <<52, 416, 1600, 3200>>[m]
Rates ==
    FullSpeedCard =>
        /\ \A m \in Modes : reached[m] \in {0, Rate(m)}
        /\ stage \notin {"off", "start", "failed"} \cup Early /\ Sd =>
             (lv <=> speed \in {3, 4})
        /\ stage \in Late => host.width * Clock[host.timing] = Rate(speed)

BringUpInv == CardTypes /\ Identify /\ Transfer /\ Mmc /\ Ready /\ Failed /\ Rates

----------------------------------------------------------------------------

\* The clocks the proofs compare.
LEMMA ClockVals ==
    /\ \A t \in Timings : Clock[t] \in Nat
    /\ Clock["ID"] = 0 /\ Clock["DS12"] = 25 /\ Clock["SDR12"] = 25 /\ Clock["HS25"] = 50
    /\ Clock["SDR104"] = 208 /\ Clock["LS26"] = 26 /\ Clock["HS52"] = 52
    /\ Clock["HS200"] = 200 /\ Clock["HS400"] = 400
BY DEF Clock, Timings

\* The card may fail when it is faulty or not within its specification.
LEMMA FailedStep ==
    ASSUME BringUpInv, CardTypes', stage \notin {"off", "start"}, stage' = "failed",
           caps.faulty \/ ~InSpec,
           UNCHANGED <<caps, speed, lv, type, reached>>
    PROVE  BringUpInv'
<1>1. Identify' /\ Transfer' /\ Mmc'
  BY DEF Identify, Transfer, Mmc
<1>2. Ready' /\ Failed'
  BY DEF BringUpInv, Ready, Failed, Late, InSpec, WantsUhs, Sd, _sd_storage_get_bus_uhs_support,
         BusWidth, Timing
<1>3. Rates'
  BY DEF BringUpInv, Rates, FullSpeedCard, Rate, Sd, Late, Early
<1> QED
  BY <1>1, <1>2, <1>3 DEF BringUpInv

\* Before the first bring-up.
LEMMA StartHolds == ASSUME CardInit PROVE BringUpInv
<1>1. CardTypes
  <2>1. caps \in Caps /\ speed \in Modes /\ type \in Timings
    BY DEF CardInit, Modes, Timings
  <2>0. lv \in BOOLEAN
    BY Zenon DEF CardInit
  <2>2. host \in [volt : Volts, width : Widths, timing : Timings]
    BY DEF CardInit, Off, Timings, Volts, Widths
  <2>3. mem \in [st : CardStates, volt : Volts, width : Widths, timing : Timings]
    BY DEF CardInit, Timings, Volts, Widths, CardStates
  <2>4. reached \in [Modes -> Nat]
    BY DEF CardInit
  <2> QED
    BY <2>0, <2>1, <2>2, <2>3, <2>4 DEF CardTypes
<1>2. Identify /\ Transfer /\ Mmc /\ Ready /\ Failed
  BY DEF CardInit, Identify, Transfer, Mmc, Ready, Failed, Late
<1>3. Rates
  BY DEF CardInit, Rates, Late, Modes
<1> QED
  BY <1>1, <1>2, <1>3 DEF BringUpInv

\* A step that leaves the choices alone and does not end the sequence.
LEMMA GoesOn ==
    ASSUME BringUpInv, UNCHANGED <<caps, speed, lv, type, reached>>,
           stage \notin {"off", "start", "failed"},
           stage' \notin Late \cup {"failed", "off", "start"},
           Sd /\ stage \in Early => stage' \in Early
    PROVE  Ready' /\ Failed' /\ Rates'
<1>1. Ready' /\ Failed'
  BY DEF BringUpInv, Ready, Failed, WantsUhs, Sd, _sd_storage_get_bus_uhs_support, BusWidth, Timing
<1>2. Rates'
  BY DEF BringUpInv, Rates, FullSpeedCard, Rate, Sd, Early
<1> QED
  BY <1>1, <1>2

\* A card is on one of the two controllers, and the width asked for is a bus width.
LEMMA KindAndWidth ==
    ASSUME BringUpInv
    PROVE  caps.kind \in {"sd", "emmc"} /\ BusWidth(speed) \in Widths
BY CapsAssumption DEF BringUpInv, CardTypes, BusWidth, Widths

\* CMD8 keeps the card idle.
LEMMA IfCond ==
    ASSUME BringUpInv, _sd_storage_send_if_cond
    PROVE  BringUpInv'
<1>1. CardTypes'
  BY DEF BringUpInv, CardTypes, _sd_storage_send_if_cond
<1>2. CASE stage' = "failed"
  BY <1>1, <1>2, FailedStep DEF _sd_storage_send_if_cond
<1>3. CASE stage' # "failed"
  <2>1. /\ stage = "if_cond" /\ mem' = mem /\ stage' \in {"acmd41", "acmd41v1"}
        /\ UNCHANGED <<caps, speed, host, lv, type, reached>>
    BY <1>3 DEF _sd_storage_send_if_cond
  <2>2. stage' = "acmd41v1" => caps.v1 \/ caps.faulty
    BY <2>1, ClockVals DEF BringUpInv, CardTypes, Identify, Lines, Volt, Heard,
       _sd_storage_send_if_cond
  <2>3. Identify'
    BY <2>1, <2>2 DEF BringUpInv, Identify, Narrow, Lines, Volt, Sd
  <2>4. Transfer' /\ Mmc'
    BY <2>1 DEF Transfer, Mmc
  <2>5. Ready' /\ Failed' /\ Rates'
    BY <2>1, GoesOn DEF Late, Early
  <2> QED
    BY <1>1, <2>3, <2>4, <2>5 DEF BringUpInv
<1> QED
  BY <1>2, <1>3

\* CMD2: a faulty card may be left at another voltage here, and then does not answer.
LEMMA GetCid ==
    ASSUME BringUpInv, _sdmmc_storage_get_cid
    PROVE  BringUpInv'
<1>1. CardTypes'
  BY DEF BringUpInv, CardTypes, _sdmmc_storage_get_cid, Command, CardStates, Timings, Volts, Widths
<1>2. CASE stage' = "failed"
  <2>1. caps.faulty
    BY <1>2, ClockVals DEF BringUpInv, CardTypes, Identify, Transfer, Mmc, Narrow, Lines, Volt,
       First, Second, Sd, SameWidth, BusWidth, _sdmmc_storage_get_cid, Command, Heard
  <2> QED
    BY <1>1, <1>2, <2>1, FailedStep DEF _sdmmc_storage_get_cid, Command
<1>3. CASE stage' # "failed"
  <2>1. stage = "cid" /\ Heard /\ mem.st = "ready"
        /\ mem' = [mem EXCEPT !.st = "ident"] /\ stage' = "rca"
        /\ UNCHANGED <<caps, speed, host, lv, type, reached>>
    BY <1>3 DEF _sdmmc_storage_get_cid, Command
  <2>2. Identify' /\ Transfer' /\ Mmc'
    <3>1. Identify'
      BY <1>1, <2>1, ClockVals, KindAndWidth DEF BringUpInv, CardTypes, Identify, Transfer, Mmc,
         Narrow, Lines, Volt, First, Second, Sd, SameWidth, BusWidth, Ready, Heard
    <3>2. Transfer'
      BY <2>1 DEF Transfer
    <3>3. Mmc'
      BY <2>1 DEF Mmc
    <3> QED
      BY <3>1, <3>2, <3>3
  <2>3. Ready' /\ Failed' /\ Rates'
    BY <2>1, GoesOn DEF Late, Early
  <2> QED
    BY <1>1, <2>2, <2>3 DEF BringUpInv
<1> QED
  BY <1>2, <1>3

\* CMD1 makes an eMMC ready.
LEMMA MmcOpCond ==
    ASSUME BringUpInv, _mmc_storage_get_op_cond
    PROVE  BringUpInv'
<1>1. CardTypes'
  BY DEF BringUpInv, CardTypes, _mmc_storage_get_op_cond, Command, CardStates, Timings, Volts,
     Widths
<1>2. CASE stage' = "failed"
  <2>1. caps.faulty
    BY <1>2, ClockVals DEF BringUpInv, CardTypes, Identify, Transfer, Mmc, Narrow, Lines, Volt,
       First, Second, Sd, SameWidth, BusWidth, _mmc_storage_get_op_cond, Command, Heard
  <2> QED
    BY <1>1, <1>2, <2>1, FailedStep DEF _mmc_storage_get_op_cond, Command
<1>3. CASE stage' # "failed"
  <2>1. stage = "op_cond" /\ Heard /\ mem.st = "idle"
        /\ mem' = [mem EXCEPT !.st = "ready"] /\ (caps.kind = "emmc" /\ stage' = "cid")
        /\ UNCHANGED <<caps, speed, host, lv, type, reached>>
    BY <1>3 DEF _mmc_storage_get_op_cond, Command
  <2>2. Identify' /\ Transfer' /\ Mmc'
    <3>1. Identify'
      BY <1>1, <2>1, ClockVals, KindAndWidth DEF BringUpInv, CardTypes, Identify, Transfer, Mmc,
         Narrow, Lines, Volt, First, Second, Sd, SameWidth, BusWidth, Ready, Heard
    <3>2. Transfer'
      BY <2>1 DEF Transfer
    <3>3. Mmc'
      BY <2>1 DEF Mmc
    <3> QED
      BY <3>1, <3>2, <3>3
  <2>3. Ready' /\ Failed' /\ Rates'
    BY <2>1, GoesOn DEF Late, Early, Sd
  <2> QED
    BY <1>1, <2>2, <2>3 DEF BringUpInv
<1> QED
  BY <1>2, <1>3

\* The host follows the card to the default speed.
LEMMA SetSlowClock ==
    ASSUME BringUpInv, SlowClock
    PROVE  BringUpInv'
<1>1. CardTypes'
  BY DEF BringUpInv, CardTypes, SlowClock, Set, CardStates, Timings, Volts, Widths
<1>2. CASE stage' = "failed"
  <2>1. caps.faulty
    BY <1>2, ClockVals DEF BringUpInv, CardTypes, Identify, Transfer, Mmc, Narrow, Lines, Volt,
       First, Second, Sd, SameWidth, BusWidth, SlowClock, Set
  <2> QED
    BY <1>1, <1>2, <2>1, FailedStep DEF SlowClock, Set
<1>3. CASE stage' # "failed"
  <2>1. stage = "slow" /\ stage' = "select"
        /\ host' = [host EXCEPT !.timing = IF caps.kind = "sd" THEN "DS12" ELSE "LS26"]
        /\ UNCHANGED <<caps, speed, mem, lv, type, reached>>
    BY <1>3 DEF SlowClock, Set
  <2>2. Identify' /\ Transfer' /\ Mmc'
    <3>1. Identify'
      BY <1>1, <2>1, ClockVals, KindAndWidth DEF BringUpInv, CardTypes, Identify, Transfer, Mmc,
         Narrow, Lines, Volt, First, Second, Sd, SameWidth, BusWidth, Ready, Heard
    <3>2. Transfer'
      BY <2>1 DEF Transfer
    <3>3. Mmc'
      BY <2>1 DEF Mmc
    <3> QED
      BY <3>1, <3>2, <3>3
  <2>3. Ready' /\ Failed' /\ Rates'
    BY <2>1, GoesOn DEF Late, Early
  <2> QED
    BY <1>1, <2>2, <2>3 DEF BringUpInv
<1> QED
  BY <1>2, <1>3

\* CMD7 takes the card to the transfer state.
LEMMA SelectCard ==
    ASSUME BringUpInv, _sdmmc_storage_select_card
    PROVE  BringUpInv'
<1>1. CardTypes'
  BY DEF BringUpInv, CardTypes, _sdmmc_storage_select_card, Command, CardStates, Timings, Volts,
     Widths
<1>2. CASE stage' = "failed"
  <2>1. caps.faulty
    BY <1>2, ClockVals DEF BringUpInv, CardTypes, Identify, Transfer, Mmc, Narrow, Lines, Volt,
       First, Second, Sd, SameWidth, BusWidth, _sdmmc_storage_select_card, Command, Heard
  <2> QED
    BY <1>1, <1>2, <2>1, FailedStep DEF _sdmmc_storage_select_card, Command
<1>3. CASE stage' # "failed"
  <2>1. stage = "select" /\ Heard /\ mem.st = "stby"
        /\ mem' = [mem EXCEPT !.st = "tran"] /\ stage' = "blocklen"
        /\ UNCHANGED <<caps, speed, host, lv, type, reached>>
    BY <1>3 DEF _sdmmc_storage_select_card, Command
  <2>2. Identify' /\ Transfer' /\ Mmc'
    <3>1. Identify'
      BY <2>1 DEF Identify
    <3>2. Transfer'
      BY <1>1, <2>1, ClockVals, KindAndWidth DEF BringUpInv, CardTypes, Identify, Transfer, Mmc,
         Narrow, Lines, Volt, First, Second, Sd, SameWidth, BusWidth, Ready, Heard
    <3>3. Mmc'
      BY <2>1 DEF Mmc
    <3> QED
      BY <3>1, <3>2, <3>3
  <2>3. Ready' /\ Failed' /\ Rates'
    BY <2>1, GoesOn DEF Late, Early
  <2> QED
    BY <1>1, <2>2, <2>3 DEF BringUpInv
<1> QED
  BY <1>2, <1>3

\* The EXT_CSD is read on a bus both sides agree on.
LEMMA ExtCsd ==
    ASSUME BringUpInv, mmc_storage_get_ext_csd
    PROVE  BringUpInv'
<1>1. CardTypes'
  BY DEF BringUpInv, CardTypes, mmc_storage_get_ext_csd, DataCommand, CardStates, Timings, Volts,
     Widths
<1>2. CASE stage' = "failed"
  <2>1. caps.faulty
    BY <1>2, ClockVals DEF BringUpInv, CardTypes, Identify, Transfer, Mmc, Narrow, Lines, Volt,
       First, Second, Sd, SameWidth, BusWidth, mmc_storage_get_ext_csd, DataCommand, Heard, DataOk
  <2> QED
    BY <1>1, <1>2, <2>1, FailedStep DEF mmc_storage_get_ext_csd, DataCommand
<1>3. CASE stage' # "failed"
  <2>1. stage = "extcsd" /\ Heard /\ mem.st = "tran" /\ mem' = mem /\ stage' = "highspeed"
        /\ UNCHANGED <<caps, speed, host, lv, type, reached>>
    BY <1>3 DEF mmc_storage_get_ext_csd, DataCommand
  <2>2. Identify' /\ Transfer' /\ Mmc'
    <3>1. Identify'
      BY <2>1 DEF Identify
    <3>2. Transfer'
      BY <1>1, <2>1, ClockVals, KindAndWidth DEF BringUpInv, CardTypes, Identify, Transfer, Mmc,
         Narrow, Lines, Volt, First, Second, Sd, SameWidth, BusWidth, Ready, Heard
    <3>3. Mmc'
      BY <1>1, <2>1, ClockVals, KindAndWidth DEF BringUpInv, CardTypes, Identify, Transfer, Mmc,
         Narrow, Lines, Volt, First, Second, Sd, SameWidth, BusWidth, Ready, Heard
    <3> QED
      BY <3>1, <3>2, <3>3
  <2>3. Ready' /\ Failed' /\ Rates'
    BY <2>1, GoesOn DEF Late, Early
  <2> QED
    BY <1>1, <2>2, <2>3 DEF BringUpInv
<1> QED
  BY <1>2, <1>3

\* The eMMC is switched to HS200, ahead of the host.
LEMMA Hs200CardStep ==
    ASSUME BringUpInv, Hs200Card
    PROVE  BringUpInv'
<1>1. CardTypes'
  BY DEF BringUpInv, CardTypes, Hs200Card, Command, CardStates, Timings, Volts, Widths
<1>2. CASE stage' = "failed"
  <2>1. caps.faulty
    BY <1>2, ClockVals DEF BringUpInv, CardTypes, Identify, Transfer, Mmc, Narrow, Lines, Volt,
       First, Second, Sd, SameWidth, BusWidth, Hs200Card, Command, Heard, FastMmc
  <2> QED
    BY <1>1, <1>2, <2>1, FailedStep DEF Hs200Card, Command
<1>3. CASE stage' # "failed"
  <2>1. stage = "hs200" /\ Heard /\ mem.st = "tran"
        /\ mem' = [mem EXCEPT !.timing = "HS200"] /\ stage' = "hs200clock"
        /\ UNCHANGED <<caps, speed, host, lv, type, reached>>
    BY <1>3 DEF Hs200Card, Command, FastMmc
  <2>2. Identify' /\ Transfer' /\ Mmc'
    <3>1. Identify'
      BY <2>1 DEF Identify
    <3>2. Transfer'
      BY <2>1 DEF Transfer
    <3>3. Mmc'
      BY <1>1, <2>1, ClockVals, KindAndWidth DEF BringUpInv, CardTypes, Identify, Transfer, Mmc,
         Narrow, Lines, Volt, First, Second, Sd, SameWidth, BusWidth, Ready, Heard, FastMmc
    <3> QED
      BY <3>1, <3>2, <3>3
  <2>3. Ready' /\ Failed' /\ Rates'
    BY <2>1, GoesOn DEF Late, Early
  <2> QED
    BY <1>1, <2>2, <2>3 DEF BringUpInv
<1> QED
  BY <1>2, <1>3

\* On the way to HS400 the card goes back to HS52 first ...
LEMMA To52CardStep ==
    ASSUME BringUpInv, To52Card
    PROVE  BringUpInv'
<1>1. CardTypes'
  BY DEF BringUpInv, CardTypes, To52Card, Command, CardStates, Timings, Volts, Widths
<1>2. CASE stage' = "failed"
  <2>1. caps.faulty
    BY <1>2, ClockVals DEF BringUpInv, CardTypes, Identify, Transfer, Mmc, Narrow, Lines, Volt,
       First, Second, Sd, SameWidth, BusWidth, To52Card, Command, Heard, To400
  <2> QED
    BY <1>1, <1>2, <2>1, FailedStep DEF To52Card, Command
<1>3. CASE stage' # "failed"
  <2>1. stage = "to52" /\ Heard /\ mem.st = "tran"
        /\ mem' = [mem EXCEPT !.timing = "HS52"] /\ stage' = "to52clock"
        /\ UNCHANGED <<caps, speed, host, lv, type, reached>>
    BY <1>3 DEF To52Card, Command, To400
  <2>2. Identify' /\ Transfer' /\ Mmc'
    <3>1. Identify'
      BY <2>1 DEF Identify
    <3>2. Transfer'
      BY <2>1 DEF Transfer
    <3>3. Mmc'
      BY <1>1, <2>1, ClockVals, KindAndWidth DEF BringUpInv, CardTypes, Identify, Transfer, Mmc,
         Narrow, Lines, Volt, First, Second, Sd, SameWidth, BusWidth, Ready, Heard, To400
    <3> QED
      BY <3>1, <3>2, <3>3
  <2>3. Ready' /\ Failed' /\ Rates'
    BY <2>1, GoesOn DEF Late, Early
  <2> QED
    BY <1>1, <2>2, <2>3 DEF BringUpInv
<1> QED
  BY <1>2, <1>3

\* ... and the host follows before the next command.
LEMMA To52ClockStep ==
    ASSUME BringUpInv, To52Clock
    PROVE  BringUpInv'
<1>1. CardTypes'
  BY DEF BringUpInv, CardTypes, To52Clock, Set, CardStates, Timings, Volts, Widths
<1>2. CASE stage' = "failed"
  <2>1. caps.faulty
    BY <1>2, ClockVals DEF BringUpInv, CardTypes, Identify, Transfer, Mmc, Narrow, Lines, Volt,
       First, Second, Sd, SameWidth, BusWidth, To52Clock, Set, To400
  <2> QED
    BY <1>1, <1>2, <2>1, FailedStep DEF To52Clock, Set
<1>3. CASE stage' # "failed"
  <2>1. stage = "to52clock" /\ host' = [host EXCEPT !.timing = "HS52"] /\ stage' = "ddr"
        /\ UNCHANGED <<caps, speed, mem, lv, type, reached>>
    BY <1>3 DEF To52Clock, Set, To400
  <2>2. Identify' /\ Transfer' /\ Mmc'
    <3>1. Identify'
      BY <2>1 DEF Identify
    <3>2. Transfer'
      BY <2>1 DEF Transfer
    <3>3. Mmc'
      BY <1>1, <2>1, ClockVals, KindAndWidth DEF BringUpInv, CardTypes, Identify, Transfer, Mmc,
         Narrow, Lines, Volt, First, Second, Sd, SameWidth, BusWidth, Ready, Heard, To400
    <3> QED
      BY <3>1, <3>2, <3>3
  <2>3. Ready' /\ Failed' /\ Rates'
    BY <2>1, GoesOn DEF Late, Early
  <2> QED
    BY <1>1, <2>2, <2>3 DEF BringUpInv
<1> QED
  BY <1>2, <1>3

\* DDR and HS400 on the card.
LEMMA Hs400CardStep ==
    ASSUME BringUpInv, Hs400Card
    PROVE  BringUpInv'
<1>1. CardTypes'
  BY DEF BringUpInv, CardTypes, Hs400Card, Command, CardStates, Timings, Volts, Widths
<1>2. CASE stage' = "failed"
  <2>1. caps.faulty
    BY <1>2, ClockVals DEF BringUpInv, CardTypes, Identify, Transfer, Mmc, Narrow, Lines, Volt,
       First, Second, Sd, SameWidth, BusWidth, Hs400Card, Command, Heard, To400
  <2> QED
    BY <1>1, <1>2, <2>1, FailedStep DEF Hs400Card, Command
<1>3. CASE stage' # "failed"
  <2>1. stage = "ddr" /\ Heard /\ mem.st = "tran"
        /\ mem' = [mem EXCEPT !.timing = "HS400"] /\ stage' = "hs400clock"
        /\ UNCHANGED <<caps, speed, host, lv, type, reached>>
    BY <1>3 DEF Hs400Card, Command, To400
  <2>2. Identify' /\ Transfer' /\ Mmc'
    <3>1. Identify'
      BY <2>1 DEF Identify
    <3>2. Transfer'
      BY <2>1 DEF Transfer
    <3>3. Mmc'
      BY <1>1, <2>1, ClockVals, KindAndWidth DEF BringUpInv, CardTypes, Identify, Transfer, Mmc,
         Narrow, Lines, Volt, First, Second, Sd, SameWidth, BusWidth, Ready, Heard, To400
    <3> QED
      BY <3>1, <3>2, <3>3
  <2>3. Ready' /\ Failed' /\ Rates'
    BY <2>1, GoesOn DEF Late, Early
  <2> QED
    BY <1>1, <2>2, <2>3 DEF BringUpInv
<1> QED
  BY <1>2, <1>3

\* An eMMC without a faster mode is switched to HS52.
LEMMA Hs52CardStep ==
    ASSUME BringUpInv, Hs52Card
    PROVE  BringUpInv'
<1>1. CardTypes'
  BY DEF BringUpInv, CardTypes, Hs52Card, Command, CardStates, Timings, Volts, Widths
<1>2. CASE stage' = "failed"
  <2>1. caps.faulty
    BY <1>2, ClockVals DEF BringUpInv, CardTypes, Identify, Transfer, Mmc, Narrow, Lines, Volt,
       First, Second, Sd, SameWidth, BusWidth, Hs52Card, Command, Heard, To400, FastMmc
  <2> QED
    BY <1>1, <1>2, <2>1, FailedStep DEF Hs52Card, Command
<1>3. CASE stage' # "failed"
  <2>1. stage = "hs52" /\ Heard /\ mem.st = "tran"
        /\ mem' = [mem EXCEPT !.timing = "HS52"] /\ stage' = "hs52clock"
        /\ UNCHANGED <<caps, speed, host, lv, type, reached>>
    BY <1>3 DEF Hs52Card, Command, To400, FastMmc
  <2>2. Identify' /\ Transfer' /\ Mmc'
    <3>1. Identify'
      BY <2>1 DEF Identify
    <3>2. Transfer'
      BY <2>1 DEF Transfer
    <3>3. Mmc'
      BY <1>1, <2>1, ClockVals, KindAndWidth DEF BringUpInv, CardTypes, Identify, Transfer, Mmc,
         Narrow, Lines, Volt, First, Second, Sd, SameWidth, BusWidth, Ready, Heard, To400, FastMmc
    <3> QED
      BY <3>1, <3>2, <3>3
  <2>3. Ready' /\ Failed' /\ Rates'
    BY <2>1, GoesOn DEF Late, Early
  <2> QED
    BY <1>1, <2>2, <2>3 DEF BringUpInv
<1> QED
  BY <1>2, <1>3

\* The card has an address: at low voltage its clock stays.
LEMMA RelativeAddrStep ==
    ASSUME BringUpInv, RelativeAddr
    PROVE  BringUpInv'
<1>1. CardTypes'
  <2>1. PICK t \in Timings :
           t = IF lv THEN mem.timing ELSE IF caps.kind = "sd" THEN "DS12" ELSE "LS26"
    BY DEF BringUpInv, CardTypes, Timings
  <2>2. mem' = mem \/ mem' = [mem EXCEPT !.st = "stby", !.timing = t]
    BY <2>1 DEF RelativeAddr, Command
  <2> QED
    BY <2>2 DEF BringUpInv, CardTypes, RelativeAddr, Command, CardStates
<1>2. CASE stage' = "failed"
  <2>1. caps.faulty
    BY <1>2, ClockVals DEF BringUpInv, CardTypes, Identify, Transfer, Mmc, Narrow, Lines, Volt,
       First, Second, Sd, SameWidth, BusWidth, RelativeAddr, Command, Heard
  <2> QED
    BY <1>1, <1>2, <2>1, FailedStep DEF RelativeAddr, Command
<1>3. CASE stage' # "failed"
  <2>1. stage = "rca" /\ Heard /\ mem.st = "ident" /\ mem' = [mem EXCEPT !.st = "stby",
                            !.timing = IF lv THEN @ ELSE IF caps.kind = "sd" THEN "DS12" ELSE "LS26"]
        /\ (stage' = IF lv THEN "select" ELSE "slow")
        /\ UNCHANGED <<caps, speed, host, lv, type, reached>>
    BY <1>3 DEF RelativeAddr, Command
  <2>2. Identify' /\ Transfer' /\ Mmc'
    <3>1. Identify'
      BY <1>1, <2>1, ClockVals, KindAndWidth DEF BringUpInv, CardTypes, Identify, Transfer, Mmc,
         Narrow, Lines, Volt, First, Second, Sd, SameWidth, BusWidth, Ready, Heard
    <3>2. Transfer'
      BY <2>1 DEF Transfer
    <3>3. Mmc'
      BY <2>1 DEF Mmc
    <3> QED
      BY <3>1, <3>2, <3>3
  <2>3. Ready' /\ Failed' /\ Rates'
    BY <2>1, GoesOn DEF Late, Early
  <2> QED
    BY <1>1, <2>2, <2>3 DEF BringUpInv
<1> QED
  BY <1>2, <1>3

\* CMD16: an old eMMC is done here.
LEMMA SetBlocklen ==
    ASSUME BringUpInv, _sdmmc_storage_set_blocklen
    PROVE  BringUpInv'
<1>1. CardTypes'
  BY DEF BringUpInv, CardTypes, _sdmmc_storage_set_blocklen, Command, CardStates, Timings, Volts,
     Widths
<1>2. CASE stage' = "failed"
  <2>1. caps.faulty
    BY <1>2, ClockVals DEF BringUpInv, CardTypes, Identify, Transfer, Mmc, Narrow, Lines, Volt,
       First, Second, Sd, SameWidth, BusWidth, _sdmmc_storage_set_blocklen, Command, Heard
  <2> QED
    BY <1>1, <1>2, <2>1, FailedStep DEF _sdmmc_storage_set_blocklen, Command
<1>3. CASE stage' # "failed"
  <2>1. stage = "blocklen" /\ Heard /\ mem.st = "tran"
        /\ mem' = mem
        /\ (stage' = IF caps.kind = "sd" THEN "scr" ELSE IF caps.vsn4 THEN "mmcwidth" ELSE "powersave")
        /\ UNCHANGED <<caps, speed, host, lv, type, reached>>
    BY <1>3 DEF _sdmmc_storage_set_blocklen, Command
  <2>2. Identify' /\ Transfer' /\ Mmc'
    <3>1. Identify'
      BY <2>1 DEF Identify
    <3>2. Transfer'
      BY <1>1, <2>1, ClockVals, KindAndWidth DEF BringUpInv, CardTypes, Identify, Transfer, Mmc,
         Narrow, Lines, Volt, First, Second, Sd, SameWidth, BusWidth, Ready, Heard
    <3>3. Mmc'
      BY <1>1, <2>1, ClockVals, KindAndWidth DEF BringUpInv, CardTypes, Identify, Transfer, Mmc,
         Narrow, Lines, Volt, First, Second, Sd, SameWidth, BusWidth, Ready, Heard
    <3> QED
      BY <3>1, <3>2, <3>3
  <2>3. Ready'
    BY <1>1, <2>1, <2>2 DEF BringUpInv, CardTypes, Identify, Transfer, Mmc, Ready, Late, Narrow,
       Lines, Volt, First, Second, Sd, SameWidth, BusWidth, Timing, WantsUhs,
       _sd_storage_get_bus_uhs_support
  <2>4. Failed'
    BY <2>1 DEF Failed
  <2>5. Rates'
    BY <2>1 DEF BringUpInv, Rates, FullSpeedCard, Rate, Sd, Late, Early
  <2> QED
    BY <1>1, <2>2, <2>3, <2>4, <2>5 DEF BringUpInv
<1> QED
  BY <1>2, <1>3

\* The SCR is read on the narrow bus.
LEMMA GetScr ==
    ASSUME BringUpInv, sd_storage_get_scr
    PROVE  BringUpInv'
<1>1. CardTypes'
  BY DEF BringUpInv, CardTypes, sd_storage_get_scr, DataCommand, CardStates, Timings, Volts, Widths
<1>2. CASE stage' = "failed"
  <2>1. caps.faulty
    BY <1>2, ClockVals DEF BringUpInv, CardTypes, Identify, Transfer, Mmc, Narrow, Lines, Volt,
       First, Second, Sd, SameWidth, BusWidth, sd_storage_get_scr, DataCommand, Heard, DataOk
  <2> QED
    BY <1>1, <1>2, <2>1, FailedStep DEF sd_storage_get_scr, DataCommand
<1>3. CASE stage' # "failed"
  <2>1. stage = "scr" /\ Heard /\ mem.st = "tran"
        /\ mem' = mem /\ (stage' = IF BusWidth(speed) = 4 /\ caps.w4 /\ caps.sda THEN "width"
                        ELSE IF lv THEN "uhs"
                        ELSE IF caps.sda THEN "hs25" ELSE "powersave")
        /\ UNCHANGED <<caps, speed, host, lv, type, reached>>
    BY <1>3 DEF sd_storage_get_scr, DataCommand
  <2>2. Identify' /\ Transfer' /\ Mmc'
    <3>1. Identify'
      BY <2>1 DEF Identify
    <3>2. Transfer'
      BY <1>1, <2>1, ClockVals, KindAndWidth DEF BringUpInv, CardTypes, Identify, Transfer, Mmc,
         Narrow, Lines, Volt, First, Second, Sd, SameWidth, BusWidth, Ready, Heard
    <3>3. Mmc'
      BY <2>1 DEF Mmc
    <3> QED
      BY <3>1, <3>2, <3>3
  <2>3. Ready'
    BY <1>1, <2>1, <2>2 DEF BringUpInv, CardTypes, Identify, Transfer, Mmc, Ready, Late, Narrow,
       Lines, Volt, First, Second, Sd, SameWidth, BusWidth, Timing, WantsUhs,
       _sd_storage_get_bus_uhs_support
  <2>4. Failed'
    BY <2>1 DEF Failed
  <2>5. Rates'
    BY <2>1 DEF BringUpInv, Rates, FullSpeedCard, Rate, Sd, Late, Early, Transfer
  <2> QED
    BY <1>1, <2>2, <2>3, <2>4, <2>5 DEF BringUpInv
<1> QED
  BY <1>2, <1>3

\* ACMD41: the voltage switch is asked for if both sides can.
LEMMA OpCond ==
    ASSUME BringUpInv, _sd_storage_get_op_cond
    PROVE  BringUpInv'
<1>1. CardTypes'
  BY DEF BringUpInv, CardTypes, _sd_storage_get_op_cond, Command, CardStates, Timings, Volts, Widths
<1>2. CASE stage' = "failed"
  <2>1. caps.faulty
    BY <1>2, ClockVals DEF BringUpInv, CardTypes, Identify, Transfer, Mmc, Narrow, Lines, Volt,
       First, Second, Sd, SameWidth, BusWidth, _sd_storage_get_op_cond, Command, Heard, WantsUhs,
       _sd_storage_get_bus_uhs_support, Timing
  <2> QED
    BY <1>1, <1>2, <2>1, FailedStep DEF _sd_storage_get_op_cond, Command
<1>3. CASE stage' # "failed"
  <2>1. stage \in {"acmd41", "acmd41v1"} /\ Heard /\ mem.st = "idle"
        /\ mem' = [mem EXCEPT !.st = "ready"]
        /\ (stage' = IF WantsUhs /\ stage = "acmd41" THEN "cmd11" ELSE "cid")
        /\ UNCHANGED <<caps, speed, host, lv, type, reached>>
    BY <1>3 DEF _sd_storage_get_op_cond, Command, WantsUhs, _sd_storage_get_bus_uhs_support, Timing
  <2>2. Identify' /\ Transfer' /\ Mmc'
    <3>1. Identify'
      BY <1>1, <2>1, ClockVals, KindAndWidth DEF BringUpInv, CardTypes, Identify, Transfer, Mmc,
         Narrow, Lines, Volt, First, Second, Sd, SameWidth, BusWidth, Ready, Heard, WantsUhs,
         _sd_storage_get_bus_uhs_support, Timing
    <3>2. Transfer'
      BY <2>1 DEF Transfer
    <3>3. Mmc'
      BY <2>1 DEF Mmc
    <3> QED
      BY <3>1, <3>2, <3>3
  <2>3. Ready'
    BY <1>1, <2>1, <2>2 DEF BringUpInv, CardTypes, Identify, Transfer, Mmc, Ready, Late, Narrow,
       Lines, Volt, First, Second, Sd, SameWidth, BusWidth, Timing, WantsUhs,
       _sd_storage_get_bus_uhs_support
  <2>4. Failed'
    BY <2>1 DEF Failed
  <2>5. Rates'
    BY <2>1 DEF BringUpInv, CardTypes, Rates, FullSpeedCard, Rate, Sd, Late, Early, Identify, Modes,
              WantsUhs, _sd_storage_get_bus_uhs_support, BusWidth, Timing
  <2> QED
    BY <1>1, <2>2, <2>3, <2>4, <2>5 DEF BringUpInv
<1> QED
  BY <1>2, <1>3

\* The host follows the card to its bus width.
LEMMA HostWidthStep ==
    ASSUME BringUpInv, HostWidth
    PROVE  BringUpInv'
<1>1. CardTypes'
  BY KindAndWidth DEF BringUpInv, CardTypes, HostWidth, Set, CardStates, Timings, Volts, Widths
<1>2. CASE stage' = "failed"
  <2>1. caps.faulty
    BY <1>2, ClockVals DEF BringUpInv, CardTypes, Identify, Transfer, Mmc, Narrow, Lines, Volt,
       First, Second, Sd, SameWidth, BusWidth, HostWidth, Set
  <2> QED
    BY <1>1, <1>2, <2>1, FailedStep DEF HostWidth, Set
<1>3. CASE stage' # "failed"
  <2>1. stage = "hostwidth" /\ host' = [host EXCEPT !.width = BusWidth(speed)]
        /\ (stage' = IF caps.kind = "emmc" THEN "extcsd" ELSE IF lv THEN "uhs" ELSE "hs25")
        /\ UNCHANGED <<caps, speed, mem, lv, type, reached>>
    BY <1>3 DEF HostWidth, Set
  <2>2. Identify' /\ Transfer' /\ Mmc'
    <3>1. Identify'
      BY <2>1 DEF Identify
    <3>2. Transfer'
      BY <1>1, <2>1, ClockVals, KindAndWidth DEF BringUpInv, CardTypes, Identify, Transfer, Mmc,
         Narrow, Lines, Volt, First, Second, Sd, SameWidth, BusWidth, Ready, Heard
    <3>3. Mmc'
      BY <1>1, <2>1, ClockVals, KindAndWidth DEF BringUpInv, CardTypes, Identify, Transfer, Mmc,
         Narrow, Lines, Volt, First, Second, Sd, SameWidth, BusWidth, Ready, Heard
    <3> QED
      BY <3>1, <3>2, <3>3
  <2>3. Ready' /\ Failed' /\ Rates'
    BY <2>1, GoesOn DEF Late, Early
  <2> QED
    BY <1>1, <2>2, <2>3 DEF BringUpInv
<1> QED
  BY <1>2, <1>3

\* CMD13 changes nothing.
LEMMA CheckStatus ==
    ASSUME BringUpInv, _sdmmc_storage_check_status
    PROVE  BringUpInv'
<1>1. CardTypes'
  BY DEF BringUpInv, CardTypes, _sdmmc_storage_check_status, Command, CardStates, Timings, Volts,
     Widths
<1>2. CASE stage' = "failed"
  <2>1. caps.faulty
    BY <1>2, ClockVals DEF BringUpInv, CardTypes, Identify, Transfer, Mmc, Narrow, Lines, Volt,
       First, Second, Sd, SameWidth, BusWidth, _sdmmc_storage_check_status, Command, Heard, Ready,
       Late
  <2> QED
    BY <1>1, <1>2, <2>1, FailedStep DEF _sdmmc_storage_check_status, Command
<1>3. CASE stage' # "failed"
  <2>1. stage = "status" /\ Heard /\ mem.st = "tran" /\ mem' = mem /\ stage' = "powersave"
        /\ UNCHANGED <<caps, speed, host, lv, type, reached>>
    BY <1>3 DEF _sdmmc_storage_check_status, Command, Ready, Late
  <2>2. Identify' /\ Transfer' /\ Mmc'
    <3>1. Identify'
      BY <2>1 DEF Identify
    <3>2. Transfer'
      BY <2>1 DEF Transfer
    <3>3. Mmc'
      BY <2>1 DEF Mmc
    <3> QED
      BY <3>1, <3>2, <3>3
  <2>3. Ready'
    BY <1>1, <2>1, <2>2 DEF BringUpInv, CardTypes, Identify, Transfer, Mmc, Ready, Late, Narrow,
       Lines, Volt, First, Second, Sd, SameWidth, BusWidth, Timing, WantsUhs,
       _sd_storage_get_bus_uhs_support
  <2>4. Failed'
    BY <2>1 DEF Failed
  <2>5. Rates'
    BY <2>1 DEF BringUpInv, Rates, FullSpeedCard, Rate, Sd, Late, Early
  <2> QED
    BY <1>1, <2>2, <2>3, <2>4, <2>5 DEF BringUpInv
<1> QED
  BY <1>2, <1>3

\* The rates of the modes.
LEMMA RateVals ==
    /\ Sd => Rate(1) = 50 /\ Rate(2) = 200 /\ Rate(3) = 832 /\ Rate(4) = 832
    /\ ~Sd => Rate(1) = 52 /\ Rate(2) = 416 /\ Rate(3) = 1600 /\ Rate(4) = 3200
BY DEF Rate

\* The timings of the modes.
LEMMA TimingVals ==
    ASSUME BringUpInv
    PROVE  /\ speed \in {1, 2, 3, 4}
           /\ Sd => /\ Timing(1) = "HS25" /\ Timing(2) = "HS25"
                    /\ Timing(3) = "SDR82" /\ Timing(4) = "SDR104"
           /\ ~Sd => /\ Timing(1) = "HS52" /\ Timing(2) = "HS52"
                     /\ Timing(3) = "HS200" /\ Timing(4) = "HS400"
BY DEF BringUpInv, CardTypes, Modes, Timing, Sd

\* The host follows the card to its UHS clock.
LEMMA UhsClockStep ==
    ASSUME BringUpInv, UhsClock
    PROVE  BringUpInv'
<1>1. CardTypes'
  BY DEF BringUpInv, CardTypes, UhsClock, Set, CardStates, Timings, Volts, Widths
<1>2. CASE stage' = "failed"
  <2>1. caps.faulty
    BY <1>2, ClockVals DEF BringUpInv, CardTypes, Identify, Transfer, Mmc, Narrow, Lines, Volt,
       First, Second, Sd, SameWidth, BusWidth, UhsClock, Set
  <2> QED
    BY <1>1, <1>2, <2>1, FailedStep DEF UhsClock, Set
<1>3. CASE stage' # "failed"
  <2>1. stage = "uhsclock" /\ host' = [host EXCEPT !.timing = type] /\ stage' = "status"
        /\ UNCHANGED <<caps, speed, mem, lv, type, reached>>
    BY <1>3 DEF UhsClock, Set
  <2>2. Identify' /\ Transfer' /\ Mmc'
    <3>1. Identify'
      BY <2>1 DEF Identify
    <3>2. Transfer'
      BY <2>1 DEF Transfer
    <3>3. Mmc'
      BY <2>1 DEF Mmc
    <3> QED
      BY <3>1, <3>2, <3>3
  <2>3. Ready'
    BY <1>1, <2>1, <2>2 DEF BringUpInv, CardTypes, Identify, Transfer, Mmc, Ready, Late, Narrow,
       Lines, Volt, First, Second, Sd, SameWidth, BusWidth, Timing, WantsUhs,
       _sd_storage_get_bus_uhs_support
  <2>4. Failed'
    BY <2>1 DEF Failed
  <2>5. Rates'
    <3>1. FullSpeedCard => host'.width * Clock[host'.timing] = Rate(speed)
      BY <1>1, <2>1, ClockVals, RateVals, TimingVals, KindAndWidth DEF BringUpInv, CardTypes,
         Identify, Transfer, Mmc, Narrow, Lines, Volt, First, Second, Sd, SameWidth, BusWidth,
         Ready, Rates, Late, Early, FullSpeedCard, UhsType
    <3> QED
      BY <2>1, <3>1 DEF BringUpInv, Rates, FullSpeedCard, Rate, Sd, Late, Early
  <2> QED
    BY <1>1, <2>2, <2>3, <2>4, <2>5 DEF BringUpInv
<1> QED
  BY <1>2, <1>3

\* The host follows the card to High Speed.
LEMMA Hs25ClockStep ==
    ASSUME BringUpInv, Hs25Clock
    PROVE  BringUpInv'
<1>1. CardTypes'
  BY DEF BringUpInv, CardTypes, Hs25Clock, Set, CardStates, Timings, Volts, Widths
<1>2. CASE stage' = "failed"
  <2>1. caps.faulty
    BY <1>2, ClockVals DEF BringUpInv, CardTypes, Identify, Transfer, Mmc, Narrow, Lines, Volt,
       First, Second, Sd, SameWidth, BusWidth, Hs25Clock, Set
  <2> QED
    BY <1>1, <1>2, <2>1, FailedStep DEF Hs25Clock, Set
<1>3. CASE stage' # "failed"
  <2>1. stage = "hs25clock" /\ host' = [host EXCEPT !.timing = "HS25"] /\ stage' = "powersave"
        /\ UNCHANGED <<caps, speed, mem, lv, type, reached>>
    BY <1>3 DEF Hs25Clock, Set
  <2>2. Identify' /\ Transfer' /\ Mmc'
    <3>1. Identify'
      BY <2>1 DEF Identify
    <3>2. Transfer'
      BY <2>1 DEF Transfer
    <3>3. Mmc'
      BY <2>1 DEF Mmc
    <3> QED
      BY <3>1, <3>2, <3>3
  <2>3. Ready'
    BY <1>1, <2>1, <2>2 DEF BringUpInv, CardTypes, Identify, Transfer, Mmc, Ready, Late, Narrow,
       Lines, Volt, First, Second, Sd, SameWidth, BusWidth, Timing, WantsUhs,
       _sd_storage_get_bus_uhs_support
  <2>4. Failed'
    BY <2>1 DEF Failed
  <2>5. Rates'
    <3>1. FullSpeedCard => host'.width * Clock[host'.timing] = Rate(speed)
      BY <1>1, <2>1, ClockVals, RateVals, TimingVals, KindAndWidth DEF BringUpInv, CardTypes,
         Identify, Transfer, Mmc, Narrow, Lines, Volt, First, Second, Sd, SameWidth, BusWidth,
         Ready, Rates, Late, Early, FullSpeedCard
    <3> QED
      BY <2>1, <3>1 DEF BringUpInv, Rates, FullSpeedCard, Rate, Sd, Late, Early
  <2> QED
    BY <1>1, <2>2, <2>3, <2>4, <2>5 DEF BringUpInv
<1> QED
  BY <1>2, <1>3

\* The host follows the card to HS200, where HS400 goes on.
LEMMA Hs200ClockStep ==
    ASSUME BringUpInv, Hs200Clock
    PROVE  BringUpInv'
<1>1. CardTypes'
  BY DEF BringUpInv, CardTypes, Hs200Clock, Set, CardStates, Timings, Volts, Widths
<1>2. CASE stage' = "failed"
  <2>1. caps.faulty
    BY <1>2, ClockVals DEF BringUpInv, CardTypes, Identify, Transfer, Mmc, Narrow, Lines, Volt,
       First, Second, Sd, SameWidth, BusWidth, Hs200Clock, Set, To400
  <2> QED
    BY <1>1, <1>2, <2>1, FailedStep DEF Hs200Clock, Set
<1>3. CASE stage' # "failed"
  <2>1. stage = "hs200clock" /\ host' = [host EXCEPT !.timing = "HS200"]
        /\ (stage' = IF To400 THEN "to52" ELSE "status")
        /\ UNCHANGED <<caps, speed, mem, lv, type, reached>>
    BY <1>3 DEF Hs200Clock, Set, To400
  <2>2. Identify' /\ Transfer' /\ Mmc'
    <3>1. Identify'
      BY <2>1 DEF Identify
    <3>2. Transfer'
      BY <2>1 DEF Transfer
    <3>3. Mmc'
      BY <1>1, <2>1, ClockVals, KindAndWidth DEF BringUpInv, CardTypes, Identify, Transfer, Mmc,
         Narrow, Lines, Volt, First, Second, Sd, SameWidth, BusWidth, Ready, Heard, To400
    <3> QED
      BY <3>1, <3>2, <3>3
  <2>3. Ready'
    BY <1>1, <2>1, <2>2 DEF BringUpInv, CardTypes, Identify, Transfer, Mmc, Ready, Late, Narrow,
       Lines, Volt, First, Second, Sd, SameWidth, BusWidth, Timing, WantsUhs,
       _sd_storage_get_bus_uhs_support
  <2>4. Failed'
    BY <2>1 DEF Failed
  <2>5. Rates'
    <3>1. CASE stage' = "to52"
      BY <2>1, <3>1 DEF BringUpInv, Rates, FullSpeedCard, Rate, Sd, Late, Early
    <3>2. CASE stage' = "status"
      <4>1. FullSpeedCard => host'.width * Clock[host'.timing] = Rate(speed)
        BY <1>1, <2>1, <3>2, ClockVals, RateVals, TimingVals, KindAndWidth DEF BringUpInv,
           CardTypes, Transfer, Mmc, Ready, SameWidth, Sd, BusWidth, FullSpeedCard, FastMmc, To400
      <4> QED
        BY <2>1, <3>2, <4>1 DEF BringUpInv, Rates, FullSpeedCard, Rate, Sd, Late, Early
    <3> QED
      BY <2>1, <3>1, <3>2
  <2> QED
    BY <1>1, <2>2, <2>3, <2>4, <2>5 DEF BringUpInv
<1> QED
  BY <1>2, <1>3

\* The host follows the card to HS400.
LEMMA Hs400ClockStep ==
    ASSUME BringUpInv, Hs400Clock
    PROVE  BringUpInv'
<1>1. CardTypes'
  BY DEF BringUpInv, CardTypes, Hs400Clock, Set, CardStates, Timings, Volts, Widths
<1>2. CASE stage' = "failed"
  <2>1. caps.faulty
    BY <1>2, ClockVals DEF BringUpInv, CardTypes, Identify, Transfer, Mmc, Narrow, Lines, Volt,
       First, Second, Sd, SameWidth, BusWidth, Hs400Clock, Set
  <2> QED
    BY <1>1, <1>2, <2>1, FailedStep DEF Hs400Clock, Set
<1>3. CASE stage' # "failed"
  <2>1. stage = "hs400clock" /\ host' = [host EXCEPT !.timing = "HS400"] /\ stage' = "status"
        /\ UNCHANGED <<caps, speed, mem, lv, type, reached>>
    BY <1>3 DEF Hs400Clock, Set
  <2>2. Identify' /\ Transfer' /\ Mmc'
    <3>1. Identify'
      BY <2>1 DEF Identify
    <3>2. Transfer'
      BY <2>1 DEF Transfer
    <3>3. Mmc'
      BY <2>1 DEF Mmc
    <3> QED
      BY <3>1, <3>2, <3>3
  <2>3. Ready'
    BY <1>1, <2>1, <2>2 DEF BringUpInv, CardTypes, Identify, Transfer, Mmc, Ready, Late, Narrow,
       Lines, Volt, First, Second, Sd, SameWidth, BusWidth, Timing, WantsUhs,
       _sd_storage_get_bus_uhs_support
  <2>4. Failed'
    BY <2>1 DEF Failed
  <2>5. Rates'
    <3>1. FullSpeedCard => host'.width * Clock[host'.timing] = Rate(speed)
      BY <1>1, <2>1, ClockVals, RateVals, TimingVals, KindAndWidth DEF BringUpInv, CardTypes,
         Identify, Transfer, Mmc, Narrow, Lines, Volt, First, Second, Sd, SameWidth, BusWidth,
         Ready, Rates, Late, Early, FullSpeedCard, To400
    <3> QED
      BY <2>1, <3>1 DEF BringUpInv, Rates, FullSpeedCard, Rate, Sd, Late, Early
  <2> QED
    BY <1>1, <2>2, <2>3, <2>4, <2>5 DEF BringUpInv
<1> QED
  BY <1>2, <1>3

\* The host follows the card to HS52.
LEMMA Hs52ClockStep ==
    ASSUME BringUpInv, Hs52Clock
    PROVE  BringUpInv'
<1>1. CardTypes'
  BY DEF BringUpInv, CardTypes, Hs52Clock, Set, CardStates, Timings, Volts, Widths
<1>2. CASE stage' = "failed"
  <2>1. caps.faulty
    BY <1>2, ClockVals DEF BringUpInv, CardTypes, Identify, Transfer, Mmc, Narrow, Lines, Volt,
       First, Second, Sd, SameWidth, BusWidth, Hs52Clock, Set
  <2> QED
    BY <1>1, <1>2, <2>1, FailedStep DEF Hs52Clock, Set
<1>3. CASE stage' # "failed"
  <2>1. stage = "hs52clock" /\ host' = [host EXCEPT !.timing = "HS52"] /\ stage' = "powersave"
        /\ UNCHANGED <<caps, speed, mem, lv, type, reached>>
    BY <1>3 DEF Hs52Clock, Set
  <2>2. Identify' /\ Transfer' /\ Mmc'
    <3>1. Identify'
      BY <2>1 DEF Identify
    <3>2. Transfer'
      BY <2>1 DEF Transfer
    <3>3. Mmc'
      BY <2>1 DEF Mmc
    <3> QED
      BY <3>1, <3>2, <3>3
  <2>3. Ready'
    BY <1>1, <2>1, <2>2 DEF BringUpInv, CardTypes, Identify, Transfer, Mmc, Ready, Late, Narrow,
       Lines, Volt, First, Second, Sd, SameWidth, BusWidth, Timing, WantsUhs,
       _sd_storage_get_bus_uhs_support
  <2>4. Failed'
    BY <2>1 DEF Failed
  <2>5. Rates'
    <3>1. FullSpeedCard => host'.width * Clock[host'.timing] = Rate(speed)
      BY <1>1, <2>1, ClockVals, RateVals, TimingVals, KindAndWidth DEF BringUpInv, CardTypes,
         Identify, Transfer, Mmc, Narrow, Lines, Volt, First, Second, Sd, SameWidth, BusWidth,
         Ready, Rates, Late, Early, FullSpeedCard, To400, FastMmc
    <3> QED
      BY <2>1, <3>1 DEF BringUpInv, Rates, FullSpeedCard, Rate, Sd, Late, Early
  <2> QED
    BY <1>1, <2>2, <2>3, <2>4, <2>5 DEF BringUpInv
<1> QED
  BY <1>2, <1>3

\* The choice of the eMMC timing.
LEMMA HighSpeedStep ==
    ASSUME BringUpInv, HighSpeed
    PROVE  BringUpInv'
<1>1. CardTypes'
  BY DEF BringUpInv, CardTypes, HighSpeed
<1>2. Identify'
  BY DEF HighSpeed, Identify
<1>3. Transfer'
  BY DEF BringUpInv, HighSpeed, Transfer, SameWidth, Lines, Volt, Second, Sd, BusWidth
<1>4. Mmc'
  BY DEF BringUpInv, HighSpeed, Mmc, FastMmc, To400, Sd
<1>5. Ready'
  BY DEF BringUpInv, HighSpeed, Ready, Transfer, Late, SameWidth, Lines, Volt, Second, Sd, BusWidth,
         Timing, WantsUhs, _sd_storage_get_bus_uhs_support
<1>6. Failed'
  BY DEF HighSpeed, Failed
<1>7. Rates'
  <2>1. stage' = "powersave" => ~FullSpeedCard
    BY DEF BringUpInv, HighSpeed, Mmc, Sd, FullSpeedCard
  <2> QED
    BY <2>1 DEF BringUpInv, HighSpeed, Rates, FullSpeedCard, Rate, Sd, Late, Early, Mmc
<1> QED
  BY <1>1, <1>2, <1>3, <1>4, <1>5, <1>6, <1>7 DEF BringUpInv

\* The storage is marked initialized, with the rate of its mode.
LEMMA InitializedStep ==
    ASSUME BringUpInv, Initialized
    PROVE  BringUpInv'
<1>1. PICK r \in Nat : r = host.width * Clock[host.timing]
  BY ClockVals DEF BringUpInv, CardTypes, Widths
<1>2. CardTypes'
  BY <1>1 DEF BringUpInv, CardTypes, Initialized
<1>3. Identify' /\ Transfer' /\ Mmc' /\ Failed'
  BY DEF Initialized, Identify, Transfer, Mmc, Failed
<1>4. Ready'
  BY DEF BringUpInv, Initialized, Ready, Late, SameWidth, Lines, Volt, Sd, BusWidth,
         Timing, WantsUhs, _sd_storage_get_bus_uhs_support
<1>5. Rates'
  <2>1. SUFFICES ASSUME FullSpeedCard PROVE Rates'
    BY DEF Rates, Initialized, FullSpeedCard
  <2>2. r = Rate(speed)
    BY <1>1, <2>1 DEF BringUpInv, Rates, Initialized, Late
  <2>3. \A m \in Modes : reached'[m] \in {0, Rate(m)}
    BY <1>1, <2>1, <2>2 DEF BringUpInv, CardTypes, Rates, Initialized
  <2> QED
    BY <2>1, <2>3 DEF BringUpInv, Rates, Initialized, Late, Early, Rate, Sd
<1> QED
  BY <1>2, <1>3, <1>4, <1>5 DEF BringUpInv

\* Every mode has a timing.
LEMMA TimingType == ASSUME BringUpInv PROVE Timing(speed) \in Timings
BY TimingVals DEF Timings

\* sdmmc_init and CMD0 put both sides on the same lines.
LEMMA PowerOn ==
    ASSUME BringUpInv, sdmmc_init
    PROVE  BringUpInv'
<1>1. PICK v \in {"3.3", "1.8"} : v = IF caps.kind = "sd" THEN "3.3" ELSE "1.8"
  OBVIOUS
<1>2. host' = [volt |-> v, width |-> 1, timing |-> "ID"]
  BY <1>1 DEF sdmmc_init
<1>3. \/ /\ mem' = [st |-> "idle", volt |-> v, width |-> 1, timing |-> "ID"]
         /\ stage' = IF caps.kind = "sd" THEN "if_cond" ELSE "op_cond"
      \/ /\ mem' = [mem EXCEPT !.st = "off", !.volt = "off"]
         /\ stage' = "failed" /\ caps.faulty
  BY <1>1 DEF sdmmc_init
<1>4. CardTypes'
  <2>1. type' \in Timings
    BY TimingType DEF sdmmc_init
  <2>2. lv' \in BOOLEAN
    BY Zenon DEF sdmmc_init
  <2>3. host' \in [volt : Volts, width : Widths, timing : Timings]
    BY <1>2 DEF Volts, Widths, Timings
  <2>4. mem' \in [st : CardStates, volt : Volts, width : Widths, timing : Timings]
    <3>1. [st |-> "idle", volt |-> v, width |-> 1, timing |-> "ID"]
            \in [st : CardStates, volt : Volts, width : Widths, timing : Timings]
      BY DEF CardStates, Volts, Widths, Timings
    <3>2. [mem EXCEPT !.st = "off", !.volt = "off"]
            \in [st : CardStates, volt : Volts, width : Widths, timing : Timings]
      BY DEF BringUpInv, CardTypes, CardStates, Volts
    <3> QED
      BY <1>3, <3>1, <3>2
  <2> QED
    BY <2>1, <2>2, <2>3, <2>4 DEF BringUpInv, CardTypes, sdmmc_init
<1>5. Identify'
  BY <1>1, <1>2, <1>3 DEF sdmmc_init, Identify, Sd, Narrow, Lines, Volt
<1>6. Transfer' /\ Mmc' /\ Failed'
  BY <1>3 DEF sdmmc_init, Transfer, Mmc, Failed
<1>7. Ready'
  BY <1>3 DEF sdmmc_init, Ready, Late, Sd, Timing
<1>8. Rates'
  BY <1>3 DEF BringUpInv, sdmmc_init, Rates, FullSpeedCard, Rate, Sd, Late, Early
<1> QED
  BY <1>4, <1>5, <1>6, <1>7, <1>8 DEF BringUpInv

\* The power cycle of the retry.
LEMMA RetryStep ==
    ASSUME BringUpInv, NEW m \in Modes, Retry(m)
    PROVE  BringUpInv'
<1>1. CardTypes'
  BY DEF BringUpInv, CardTypes, Retry, Off, CardStates, Volts, Widths, Timings
<1>2. Identify' /\ Transfer' /\ Mmc' /\ Ready' /\ Failed'
  BY DEF Retry, Identify, Transfer, Mmc, Ready, Failed, Late
<1>3. Rates'
  BY DEF BringUpInv, Retry, Rates, FullSpeedCard, Rate, Sd, Late, Early
<1> QED
  BY <1>1, <1>2, <1>3 DEF BringUpInv

\* CMD11: a lost answer leaves a faulty card at 1.8 V.
LEMMA VoltageSwitchStep ==
    ASSUME BringUpInv, VoltageSwitch
    PROVE  BringUpInv'
<1>1. CardTypes'
  <2>1. [mem EXCEPT !.volt = "1.8", !.timing = "SDR12"]
          \in [st : CardStates, volt : Volts, width : Widths, timing : Timings]
    BY DEF BringUpInv, CardTypes, Volts, Timings
  <2> QED
    BY <2>1 DEF BringUpInv, CardTypes, VoltageSwitch
<1>2. Identify'
  BY DEF BringUpInv, CardTypes, VoltageSwitch, Identify, Narrow, Lines, Volt, First, Sd, WantsUhs,
         BusWidth, Timing, _sd_storage_get_bus_uhs_support
<1>3. Transfer' /\ Mmc' /\ Failed'
  BY DEF VoltageSwitch, Transfer, Mmc, Failed
<1>4. Ready'
  BY DEF BringUpInv, VoltageSwitch, Ready, Late, Sd, Identify, Timing
<1>5. Rates'
  BY DEF BringUpInv, VoltageSwitch, Rates, FullSpeedCard, Rate, Sd, Late, Early, Identify
<1> QED
  BY <1>1, <1>2, <1>3, <1>4, <1>5 DEF BringUpInv

\* The host follows the card to 1.8 V and SDR12.
LEMMA LowVoltageStep ==
    ASSUME BringUpInv, LowVoltage
    PROVE  BringUpInv'
<1>1. CardTypes'
  <2>1. lv' \in BOOLEAN
    BY Zenon DEF BringUpInv, CardTypes, LowVoltage
  <2> QED
    BY <2>1 DEF BringUpInv, CardTypes, LowVoltage, Volts, Timings
<1>2. Identify'
  BY DEF BringUpInv, CardTypes, LowVoltage, Identify, Narrow, Lines, Volt, First, Sd
<1>3. Transfer' /\ Mmc' /\ Failed'
  BY DEF LowVoltage, Transfer, Mmc, Failed
<1>4. Ready'
  BY DEF BringUpInv, LowVoltage, Ready, Late, Sd, Identify, Timing, WantsUhs, BusWidth,
         _sd_storage_get_bus_uhs_support
<1>5. Rates'
  <2>1. speed \in {3, 4}
    BY TimingVals DEF BringUpInv, LowVoltage, Identify, WantsUhs, _sd_storage_get_bus_uhs_support
  <2> QED
    BY <2>1 DEF BringUpInv, LowVoltage, Rates, FullSpeedCard, Rate, Sd, Late, Early
<1> QED
  BY <1>1, <1>2, <1>3, <1>4, <1>5 DEF BringUpInv

\* The switch of the card to its UHS speed is tried at low voltage only.
LEMMA UhsCardStep ==
    ASSUME BringUpInv, UhsCard
    PROVE  BringUpInv'
<1>0. PICK u \in {"SDR104", "SDR50", "SDR25", "SDR12"} : u = UhsType
  BY DEF UhsType
<1>1. /\ stage = "uhs" /\ type' = u
      /\ UNCHANGED <<caps, speed, host, lv, reached>>
      /\ Sd /\ lv /\ SameWidth /\ Lines("tran", "SDR12", "SDR12") /\ WantsUhs
  BY <1>0 DEF UhsCard, BringUpInv, Transfer, Ready, Second
<1>2. \/ stage' = "powersave" /\ UNCHANGED mem /\ host.width = 4 /\ u = "SDR12"
      \/ stage' = "uhsclock" /\ mem' = [mem EXCEPT !.timing = u] /\ host.width = 4
      \/ stage' = "failed" /\ UNCHANGED mem
  BY <1>0 DEF UhsCard
<1>3. CardTypes'
  <2>1. u \in Timings
    BY DEF Timings
  <2> QED
    BY <1>1, <1>2, <2>1 DEF BringUpInv, CardTypes
<1>4. Identify' /\ Mmc'
  BY <1>2 DEF Identify, Mmc
<1>5. Transfer'
  <2>1. UhsType' = u
    BY <1>0, <1>1 DEF UhsType
  <2> QED
    BY <1>1, <1>2, <2>1 DEF BringUpInv, CardTypes, Transfer, SameWidth, Lines, Volt, Second, Sd,
       BusWidth
<1>6. Ready'
  BY <1>1, <1>2 DEF BringUpInv, CardTypes, Ready, Late, SameWidth, Lines, Volt, Sd, BusWidth,
     Timing,
                    WantsUhs, _sd_storage_get_bus_uhs_support
<1>7. Failed'
  <2>1. SUFFICES ASSUME stage' = "failed" PROVE caps.faulty \/ ~InSpec
    BY <1>1 DEF Failed, InSpec
  <2>2. DataOk
    BY <1>1 DEF DataOk, SameWidth, Lines
  <2>3. host.width # 4 \/ ~caps.power \/ caps.faulty
    BY <2>1, <2>2 DEF UhsCard
  <2> QED
    BY <1>1, <2>3 DEF SameWidth, InSpec, WantsUhs, Sd, _sd_storage_get_bus_uhs_support
<1>8. Rates'
  <2>1. stage' = "powersave" => ~FullSpeedCard
    BY <1>0, <1>1, <1>2 DEF FullSpeedCard, Sd, UhsType
  <2> QED
    BY <1>1, <1>2, <2>1 DEF BringUpInv, Rates, FullSpeedCard, Rate, Sd, Late, Early
<1> QED
  BY <1>3, <1>4, <1>5, <1>6, <1>7, <1>8 DEF BringUpInv

\* An SD card is switched to High Speed, if it has it.
LEMMA Hs25CardStep ==
    ASSUME BringUpInv, Hs25Card
    PROVE  BringUpInv'
<1>1. /\ stage = "hs25" /\ UNCHANGED <<caps, speed, host, lv, type, reached>>
      /\ Sd /\ ~lv /\ caps.sda /\ SameWidth /\ Lines("tran", "DS12", "DS12")
  BY DEF Hs25Card, DataCommand, BringUpInv, Transfer, Second
<1>2. Heard /\ DataOk /\ mem.st = "tran"
  BY <1>1, ClockVals DEF Heard, DataOk, SameWidth, Lines
<1>3. \/ stage' = "hs25clock" /\ mem' = [mem EXCEPT !.timing = "HS25"]
      \/ stage' = "powersave" /\ UNCHANGED mem /\ "HS" \notin caps.access
      \/ stage' = "failed" /\ UNCHANGED mem /\ (caps.faulty \/ ~caps.power)
  BY <1>2 DEF Hs25Card, DataCommand
<1>4. CardTypes'
  BY <1>1, <1>3 DEF BringUpInv, CardTypes, Timings
<1>5. Identify' /\ Mmc'
  BY <1>3 DEF Identify, Mmc
<1>6. Transfer'
  BY <1>1, <1>3 DEF BringUpInv, CardTypes, Transfer, SameWidth, Lines, Volt, Second, Sd, BusWidth
<1>7. Ready'
  BY <1>1, <1>3 DEF BringUpInv, Ready, Late, SameWidth, Lines, Volt, Sd, BusWidth, Timing,
                    WantsUhs, _sd_storage_get_bus_uhs_support
<1>8. Failed'
  BY <1>1, <1>3 DEF Failed, InSpec, Sd
<1>9. Rates'
  BY <1>1, <1>3 DEF BringUpInv, Rates, FullSpeedCard, Rate, Sd, Late, Early
<1> QED
  BY <1>4, <1>5, <1>6, <1>7, <1>8, <1>9 DEF BringUpInv

\* The card is switched to the bus width, ahead of the host.
LEMMA CardWidthStep ==
    ASSUME BringUpInv, CardWidth
    PROVE  BringUpInv'
<1>0. PICK w \in Widths : w = BusWidth(speed)
  BY KindAndWidth
<1>1. /\ stage \in {"width", "mmcwidth"} /\ UNCHANGED <<caps, speed, host, lv, type, reached>>
      /\ Narrow /\ Lines("tran", Second, Second)
      /\ stage = "width" => Sd /\ caps.sda /\ caps.w4 /\ w = 4
      /\ stage = "mmcwidth" => ~Sd /\ caps.vsn4
  BY <1>0 DEF CardWidth, Command, BringUpInv, Transfer, Mmc
<1>2. Heard /\ mem.st = "tran"
  <2>1. Second \in Timings
    BY DEF Second, Timings
  <2> QED
    BY <1>1, <2>1, ClockVals DEF Heard, Lines
<1>3. \/ stage' = "hostwidth" /\ mem' = [mem EXCEPT !.width = w] /\ w # 1
      \/ stage = "mmcwidth" /\ stage' = "extcsd" /\ UNCHANGED mem /\ w = 1
      \/ stage' = "failed" /\ UNCHANGED mem /\ caps.faulty
  BY <1>0, <1>1, <1>2 DEF CardWidth, Command
<1>4. CardTypes'
  BY <1>1, <1>3 DEF BringUpInv, CardTypes
<1>5. Identify'
  BY <1>3 DEF Identify
<1>6. Transfer'
  BY <1>0, <1>1, <1>3 DEF BringUpInv, CardTypes, Transfer, SameWidth, Narrow, Lines, Volt, Second,
     Sd,
                          BusWidth
<1>7. Mmc'
  BY <1>1, <1>3 DEF Mmc, Sd
<1>8. CASE stage' = "failed"
  BY <1>1, <1>3, <1>4, <1>8, FailedStep
<1>9. CASE stage' # "failed"
  <2>1. Ready' /\ Failed' /\ Rates'
    BY <1>1, <1>3, <1>9, GoesOn DEF Late, Early
  <2> QED
    BY <1>4, <1>5, <1>6, <1>7, <2>1 DEF BringUpInv
<1> QED
  BY <1>8, <1>9

\* Every step keeps the invariant.
LEMMA StepHolds ==
    ASSUME BringUpInv, [CardNext]_cardVars
    PROVE  BringUpInv'
<1>1. CASE UNCHANGED cardVars
  <2>1. CardTypes' /\ Identify' /\ Transfer' /\ Mmc'
    BY <1>1 DEF cardVars, BringUpInv, CardTypes, Identify, Transfer, Mmc, Narrow, Lines, Volt,
       First,
                Second, Sd, SameWidth, BusWidth, Timing, WantsUhs, _sd_storage_get_bus_uhs_support,
                UhsType, FastMmc, To400
  <2>2. Ready' /\ Failed' /\ Rates'
    BY <1>1 DEF cardVars, BringUpInv, Ready, Failed, Rates, Late, Lines, Volt, Sd, SameWidth,
       BusWidth,
                Timing, WantsUhs, _sd_storage_get_bus_uhs_support, InSpec, FullSpeedCard, Rate
  <2> QED
    BY <2>1, <2>2 DEF BringUpInv
<1>2. CASE CardNext
  BY <1>2, RetryStep, PowerOn, RelativeAddrStep, SetSlowClock, GetCid, SelectCard, SetBlocklen,
     IfCond,
     OpCond, VoltageSwitchStep, LowVoltageStep, GetScr, CardWidthStep, HostWidthStep, UhsCardStep,
     UhsClockStep, Hs25CardStep, Hs25ClockStep, MmcOpCond, ExtCsd, HighSpeedStep, Hs200CardStep,
     Hs200ClockStep, To52CardStep, To52ClockStep, Hs400CardStep, Hs400ClockStep, Hs52CardStep,
     Hs52ClockStep, CheckStatus, InitializedStep DEF CardNext
<1> QED
  BY <1>1, <1>2

\* Host and card are where the next step of the sequence expects them.
THEOREM BringUpAlwaysInStep == CardSpec => []BringUpInv
BY StartHolds, StepHolds, PTL DEF CardSpec

----------------------------------------------------------------------------
(* The results.                                                            *)

\* A storage marked initialized (sdmmc_storage_init_sd, sdmmc_storage_init_mmc)
\* can transfer, and a bring-up that fails has a faulty card or one outside its
\* specification: for any set of cards and any faults.
THEOREM BringUpAlwaysSound == CardSpec => []BringUpSound
<1>1. ASSUME BringUpInv PROVE BringUpSound
  <2>1. InitializedAgrees
    BY <1>1, ClockVals DEF InitializedAgrees, BringUpInv, CardTypes, Ready, Late, Lines, SameWidth,
                           Heard
  <2>2. GoodCardComesUp
    BY <1>1 DEF GoodCardComesUp, BringUpInv, Failed
  <2> QED
    BY <2>1, <2>2 DEF BringUpSound
<1> QED
  BY <1>1, BringUpAlwaysInStep, PTL

\* A lower mode of the retry ladder (sd_init_retry, emmc_init_retry) is slower,
\* for any card that supports every speed.
THEOREM LowerModeAlwaysSlower == CardSpec => []LowerModeIsSlower
<1>1. ASSUME BringUpInv PROVE LowerModeIsSlower
  <2>1. SUFFICES ASSUME FullSpeedCard, NEW m \in Modes, NEW n \in Modes,
                        m < n, ~SameTiming(m, n), reached[m] # 0, reached[n] # 0
                 PROVE  reached[m] < reached[n]
    BY DEF LowerModeIsSlower
  <2>2. reached[m] = Rate(m) /\ reached[n] = Rate(n)
    BY <1>1, <2>1 DEF BringUpInv, Rates
  <2>3. m \in {1, 2, 3} /\ n \in {2, 3, 4} /\ ~(Sd /\ m = 3 /\ n = 4)
    BY <2>1 DEF Modes, SameTiming, Sd
  <2> QED
    BY <2>1, <2>2, <2>3, RateVals
<1> QED
  BY <1>1, BringUpAlwaysInStep, PTL
=============================================================================
