------------------------------- MODULE UsbUms -------------------------------
(***************************************************************************)
(* The USB mass storage gadget (bdk/usb/usb_gadget_ums.c) on either device *)
(* controller (bdk/usb/usbd.c, bdk/usb/xusbd.c), and the host it talks to. *)
(*                                                                         *)
(* A command goes CBW, data, CSW.  All lengths are in units of one sector; *)
(* the short replies (INQUIRY, sense, capacity) are one unit long.  The    *)
(* length h a host asks for is rounded up, and odd says that its last unit *)
(* is no whole sector.  (A read of less than one sector, which sends what  *)
(* the last status left in bulk_in_length, is not modelled.)  What         *)
(* travels is named by where it comes from: sector s of the medium is s,   *)
(* padding is ZERO, and on the way out HOST is data the host sent for this *)
(* command and STALE what the buffer held before.  Of a tag all that is    *)
(* kept is cur: is it that of the last command the host sent?              *)
(*                                                                         *)
(* inq is the IN endpoint: transfers the device queued and the host has    *)
(* not taken.  USB2 holds one (a new transfer flushes the old), XUSB a     *)
(* ring (usbd_flush_endpoint is NULL there).                               *)
(***************************************************************************)
EXTENDS Integers, Sequences

CONSTANTS
    NumSectors, \* lun.num_sectors, the size of the exposed partition
    InMax,      \* sectors per IN transfer (UMS_DISK_MAX_IO_TRANSFER)
    OutMax,     \* sectors per big OUT transfer (UMS_EP_OUT_MAX_XFER)
    EpMax,      \* sectors per endpoint buffer (USB_EP_BUFFER_MAX_SIZE)
    Sessions,   \* the controllers and access modes a session may have
    Commands,   \* the CBWs the host may send
    MaxResets   \* how often the host may give up and reset (model bound)

\* The SCSI commands told apart; "bad" is any other.
ScsiOps == {"inquiry", "sense", "capacity", "mode", "read", "write", "ready", "verify",
            "prevent", "allow", "eject", "bad"}

ASSUME UmsAssumption ==
    /\ {NumSectors, InMax, OutMax, EpMax} \subseteq Nat \ {0}
    /\ InMax <= EpMax
    /\ MaxResets \in Nat
    /\ Commands \subseteq [op : ScsiOps, lba : Nat, n : Nat, h : Nat, odd : BOOLEAN,
                           dir : {"in", "out"}]
    /\ \A c \in Commands : c.op \in {"read", "write"} => c.n > 0
    /\ \A c \in Commands : c.odd => c.h > 0 /\ (c.op = "read" => c.h > 1)
    /\ Sessions \subseteq [xusb : BOOLEAN, ro : BOOLEAN]

VARIABLES
    xusb, ro,   \* which controller; lun.ro
    pc,         \* where the gadget's loop is
    state,      \* enum ums_state, 0..4
    cbw,        \* the command in ums->cmnd, with its CBW
    sz,         \* data_size_from_cmnd, residue, usb_amount_left, errors
    lun,        \* unmounted, prevent_medium_removal, sense, unit attention
    out,        \* bulk_out_ignore, cbw_req_queued, timeouts, bulk_reset_req;
                \* tx_count[OUT], whether a CBW read is really pending, and
                \* the last packet that was ignored
    io,         \* the locals of _scsi_read and _scsi_write
    ibuf,       \* bulk_in_buf: what _finish_reply will send
    inq, txc,   \* transfers pending on the IN endpoint; tx_count[IN]
    host,       \* the host: phase, units left in its data phase, resets
    plug,       \* the cable: on, gone, sleep (U3), decfg (EP1 disabled)
    ended,      \* how the gadget ended: no, ejected, unsafe, error
    wrote,      \* sectors this command wrote, with what (history)
    got,        \* what the host took in this command's data phase (history)
    csw         \* the last status block the host took (history)

umsVars == <<xusb, ro, pc, state, cbw, sz, lun, out, io, ibuf, inq, txc,
             host, plug, ended, wrote, got, csw>>

NORMAL         == 0
ABORT_BULK_OUT == 1
PROTOCOL_RESET == 2
EXIT           == 3
TERMINATED     == 4

ZERO  == -1
STALE == -2
HOST  == -3
REPLY == -4

Least(a, b) == IF a < b THEN a ELSE b
NoCsw == [status |-> "none", residue |-> 0, cur |-> TRUE, fresh |-> FALSE]
NoCbw == [op |-> "none", lba |-> 0, n |-> 0, h |-> 0, odd |-> FALSE, dir |-> "none",
          cur |-> FALSE]
NoSz  == [cmnd |-> 0, residue |-> 0, left |-> 0, phase |-> FALSE, short |-> FALSE]
NoIo  == [lba |-> 0, ulba |-> 0, req |-> 0, todo |-> 0, flight |-> FALSE]
SenseCodes == {"none", "reset", "command", "range", "comm", "read", "write",
               "protected", "prevented", "absent"}

UmsInit ==
    /\ \E s \in Sessions : xusb = s.xusb /\ ro = s.ro
    /\ pc = "start" /\ state = NORMAL
    /\ cbw = NoCbw
    /\ sz = NoSz
    /\ lun = [unmounted |-> FALSE, prevent |-> FALSE, sense |-> "none",
              attention |-> "reset"]
    /\ out = [ignore |-> FALSE, queued |-> FALSE, timeouts |-> 0, reset |-> FALSE,
              cnt |-> 0, pend |-> FALSE, pkt |-> NoCbw]
    /\ io = NoIo /\ ibuf = <<>> /\ inq = <<>> /\ txc = 0
    /\ host = [ph |-> "idle", left |-> 0, short |-> FALSE, resets |-> 0]
    /\ plug = "on" /\ ended = "no"
    /\ wrote = {} /\ got = <<>> /\ csw = NoCsw

(***************************************************************************)
(* Helpers.                                                                *)
(***************************************************************************)

\* raise_exception: a lower exception never displaces a higher one.
Raise(s, new) == IF s <= new THEN new ELSE s

\* _handle_ep0_ctrl.  USB2 services the setup packet here; XUSB did while it
\* waited for some transfer, and only the request flag is left to look at.
ResetSeen == IF xusb THEN out.reset ELSE host.ph = "reset" /\ plug = "on"
AfterEp0  == IF ResetSeen THEN Raise(state, PROTOCOL_RESET) ELSE state
OutEp0    == [out EXCEPT !.reset = FALSE]
HostEp0   == IF ~xusb /\ ResetSeen THEN [host EXCEPT !.ph = "idle"] ELSE host

\* Queue an IN transfer (usb_device_ep1_in_write).  XUSB sends from memory
\* when the host asks, so a status block still in the ring is replaced by
\* what is built over it; card sectors have a buffer of their own.
Queue(item) ==
    /\ inq' = IF ~xusb THEN <<item>>
              ELSE Append([j \in 1..Len(inq) |->
                             IF inq[j].k = "csw" /\ item.k # "card" THEN item ELSE inq[j]],
                          item)
    /\ txc' = 1

\* The wait for the IN transfer is over: endpoint idle, or tx_count is 0.
InDone == IF xusb THEN txc = 0 ELSE inq = <<>>

Penalty_NoEject(st) ==
    CASE st = "disabled" -> 4
      [] st = "timeout" /\ ~lun.prevent /\ plug = "sleep" -> 14
      [] st = "timeout" /\ ~lun.prevent /\ plug # "sleep" /\ ~xusb -> 4
      [] OTHER -> 0

\* What _received_cbw adds to ums->timeouts; st is bulk_out_status.
Penalty(st) ==
    (CASE st = "disabled" -> 4
       [] st = "timeout" /\ ~lun.prevent /\ plug = "sleep" -> 14
       [] st = "timeout" /\ ~lun.prevent /\ plug # "sleep" /\ ~xusb -> 4
       [] OTHER -> 0)
    + (IF lun.unmounted THEN (IF st = "ok" THEN 4 ELSE 1) ELSE 0)

\* The gadget may be waiting for a transfer.
Waiting == pc \in {"cbw", "read", "write", "finish", "lastwait", "cswwait"}
-----------------------------------------------------------------------------
(***************************************************************************)
(* The gadget.                                                             *)
(***************************************************************************)

\* Controller, card and enumeration come up, or the gadget ends with an error.
Start ==
    /\ pc = "start"
    /\ \/ pc' = "top" /\ UNCHANGED ended
       \/ pc' = "done" /\ ended' = "error"
    /\ UNCHANGED <<xusb, ro, state, cbw, sz, lun, out, io, ibuf, inq, txc, host, plug, wrote, got, csw>>

\* Both volume buttons end the session unless the host prevents removal.
Buttons ==
    /\ pc = "top" /\ ~lun.prevent
    /\ pc' = "done" /\ ended' = "ejected"
    /\ UNCHANGED <<xusb, ro, state, cbw, sz, lun, out, io, ibuf, inq, txc, host, plug, wrote, got, csw>>

\* _send_status: queue the CSW of the current command and wait.
SendStatus ==
    /\ Queue([k |-> "csw", cur |-> cbw.cur,
              status |-> IF sz.phase THEN "phase"
                         ELSE IF lun.sense # "none" THEN "fail" ELSE "pass",
              residue |-> sz.residue])
    /\ pc' = "cswwait"

\* _handle_exception, with the flush that only USB2 has.  The status of an
\* aborted OUT transfer is sent, a reset leaves a unit attention, an exit
\* ends the loop.
HandleException ==
    /\ pc = "top" /\ state # NORMAL
    /\ IF state = ABORT_BULK_OUT
       THEN /\ SendStatus /\ state' = NORMAL
            /\ UNCHANGED <<lun, out, ended>>
       ELSE /\ inq' = IF xusb THEN inq ELSE <<>>
            /\ lun' = [lun EXCEPT !.prevent = FALSE, !.sense = "none",
                         !.attention = IF state = PROTOCOL_RESET THEN "reset" ELSE "none"]
            /\ state' = IF state = EXIT THEN TERMINATED ELSE NORMAL
            /\ out' = IF state = PROTOCOL_RESET THEN [out EXCEPT !.ignore = FALSE] ELSE out
            /\ pc' = IF state = EXIT THEN "done" ELSE "top"
            /\ ended' = IF state # EXIT THEN ended
                        ELSE IF lun'.prevent THEN "unsafe" ELSE "ejected"
            /\ UNCHANGED txc
    /\ UNCHANGED <<xusb, ro, cbw, sz, io, ibuf, host, plug, wrote, got, csw>>

\* The loop services EP0 and asks for the next CBW.  On XUSB a request that
\* is still queued is only waited for.  (What the last command left in its
\* locals is never read again; the history of an answered command is closed.)
AskForCommand ==
    /\ pc = "top" /\ state = NORMAL
    /\ state' = AfterEp0 /\ host' = HostEp0
    /\ out' = [OutEp0 EXCEPT !.queued = xusb,
                             !.pend = ~out.queued \/ @, !.cnt = IF out.queued THEN @ ELSE 1]
    /\ pc' = "cbw" /\ io' = NoIo /\ sz' = NoSz /\ ibuf' = <<>>
    /\ IF host.ph = "idle" /\ csw.status # "none"
       THEN /\ cbw' = NoCbw /\ wrote' = {} /\ got' = <<>>
            /\ csw' = [csw EXCEPT !.fresh = FALSE]
       ELSE UNCHANGED <<cbw, wrote, got, csw>>
    /\ UNCHANGED <<xusb, ro, lun, inq, txc, plug, ended>>

\* _received_cbw: the count of quiet rounds, and the exit it may raise.
Count(st) == Least(out.timeouts + Penalty(st), 21)
Counted(st) == IF Count(st) > 20 THEN Raise(state, EXIT) ELSE state

\* No CBW: a timeout, a transfer error or a disabled endpoint.  After an
\* error XUSB has nothing pending and goes on waiting for it.
NoCommand(st) ==
    /\ pc = "cbw" /\ out.cnt = 1
    /\ st = "error" => out.pend
    /\ st = "disabled" => plug = "decfg"
    /\ out' = [out EXCEPT !.timeouts = Count(st), !.pend = @ /\ xusb /\ st # "error"]
    /\ state' = Counted(st)
    /\ pc' = "top"
    /\ UNCHANGED <<xusb, ro, cbw, sz, lun, io, ibuf, inq, txc, host, plug, ended, wrote, got, csw>>

\* A packet arrives that is no CBW: the host is still in the data phase of a
\* command the gadget has answered.  Everything is ignored until a reset.
JunkCommand ==
    /\ pc = "cbw" /\ out.pend
    /\ plug = "on" /\ host.ph = "dataout"
    /\ host' = [host EXCEPT !.left = @ - 1, !.ph = IF host.left = 1 THEN "csw" ELSE @]
    /\ out' = [out EXCEPT !.ignore = TRUE, !.queued = out.ignore /\ @, !.pkt = NoCbw,
                          !.timeouts = Count("ok"), !.pend = FALSE, !.cnt = 0]
    /\ state' = Counted("ok")
    /\ pc' = "top"
    /\ UNCHANGED <<xusb, ro, cbw, sz, lun, io, ibuf, inq, txc, plug, ended, wrote, got, csw>>

\* A CBW is accepted; it is parsed next unless an exception is pending: then
\* it is dropped.
Accept(c) ==
    /\ out' = [out EXCEPT !.queued = FALSE, !.pend = FALSE, !.cnt = 0, !.pkt = NoCbw,
                          !.timeouts = IF lun.unmounted THEN Count("ok") ELSE 0]
    /\ cbw' = c /\ wrote' = {}
    /\ state' = Counted("ok")
    /\ pc' = IF state' > NORMAL THEN "top" ELSE "parse"

\* The status blocks not yet taken are of earlier commands now.
Outdated == [j \in 1..Len(inq) |-> IF inq[j].k = "csw" THEN [inq[j] EXCEPT !.cur = FALSE] ELSE inq[j]]

\* The host sends a command.
GetNextCommand(c) ==
    /\ pc = "cbw" /\ out.pend
    /\ plug = "on" /\ host.ph = "idle"
    /\ host' = [host EXCEPT !.ph = CASE c.h = 0 -> "csw"
                                     [] c.dir = "in" -> "datain"
                                     [] OTHER -> "dataout",
                            !.left = c.h, !.short = FALSE]
    /\ inq' = Outdated /\ got' = <<>> /\ csw' = NoCsw
    /\ LET x == [op |-> c.op, lba |-> c.lba, n |-> c.n, h |-> c.h, odd |-> c.odd,
                 dir |-> IF c.h = 0 THEN "none" ELSE c.dir, cur |-> TRUE]
       IN \/ ~out.ignore /\ Accept(x)
          \/ /\ out.ignore
             /\ out' = [out EXCEPT !.timeouts = Count("ok"), !.pend = FALSE,
                                   !.cnt = 0, !.pkt = x]
             /\ state' = Counted("ok") /\ pc' = "top"
             /\ cbw' = [cbw EXCEPT !.cur = FALSE] /\ UNCHANGED wrote
    /\ UNCHANGED <<xusb, ro, sz, lun, io, ibuf, txc, plug, ended>>

\* XUSB believes a CBW read is queued while tx_count is 0, because the packet
\* it read last was ignored: the wait ends at once with that packet in the
\* buffer, and no event is serviced.
StaleCommand ==
    /\ pc = "cbw" /\ xusb /\ out.cnt = 0
    /\ \/ /\ ~out.ignore /\ out.pkt # NoCbw
          /\ Accept(out.pkt)
       \/ /\ out.ignore \/ out.pkt = NoCbw
          /\ out' = [out EXCEPT !.ignore = TRUE, !.queued = out.ignore /\ @,
                                !.timeouts = Count("ok")]
          /\ state' = Counted("ok") /\ pc' = "top"
          /\ UNCHANGED <<cbw, wrote>>
    /\ UNCHANGED <<xusb, ro, sz, lun, io, ibuf, inq, txc, host, plug, ended, got, csw>>
-----------------------------------------------------------------------------
(***************************************************************************)
(* _parse_scsi_cmd.                                                        *)
(***************************************************************************)

\* The length and the direction the command itself implies.
Replies == {"inquiry", "sense", "capacity", "mode"}
CmdLen == CASE cbw.op \in {"read", "write"} -> cbw.n
            [] cbw.op \in Replies -> 1
            [] OTHER -> 0
CmdDir == CASE CmdLen = 0 -> "none"
            [] cbw.op = "write" -> "out"
            [] OTHER -> "in"

\* The host asks for less than the command moves, and for no whole number of
\* sectors: Whole is how many of n units are whole when the last of them is
\* the last of the command.
Partial  == cbw.odd /\ cbw.op \in {"read", "write"} /\ cbw.h <= cbw.n
Whole(n) == IF Partial THEN n - 1 ELSE n

\* START UNIT, the eject bit clear, answers as TEST UNIT READY ("ready") does.
NeedsMedium == cbw.op \in {"read", "write", "ready", "verify", "capacity"}

Mismatch == cbw.dir # CmdDir /\ Least(CmdLen, cbw.h) > 0
Attention == lun.attention # "none" /\ cbw.op \notin {"inquiry", "sense"}

Verdict_NoMediumCheck ==
    IF Mismatch \/ Attention
    THEN [ok |-> FALSE, sense |-> IF Mismatch THEN lun.sense ELSE lun.attention,
          attention |-> IF Mismatch THEN lun.attention ELSE "none"]
    ELSE [ok |-> TRUE, sense |-> IF cbw.op = "sense" THEN lun.sense ELSE "none",
          attention |-> lun.attention]

\* What _check_scsi_cmd answers: the sense it leaves and whether it accepts.
Verdict ==
    LET kept == IF cbw.op = "sense" THEN lun.sense ELSE "none"
    IN CASE Mismatch -> [ok |-> FALSE, sense |-> lun.sense, attention |-> lun.attention]
         [] ~Mismatch /\ Attention ->
              [ok |-> FALSE, sense |-> lun.attention, attention |-> "none"]
         [] ~Mismatch /\ ~Attention /\ lun.unmounted /\ NeedsMedium ->
              [ok |-> FALSE, sense |-> "absent", attention |-> lun.attention]
         [] OTHER -> [ok |-> TRUE, sense |-> kept, attention |-> lun.attention]

Checked_NoPhaseError ==
    [sz EXCEPT !.cmnd = Least(CmdLen, cbw.h), !.residue = cbw.h, !.left = cbw.h,
               !.phase = Mismatch, !.short = FALSE]

Checked == [sz EXCEPT !.cmnd = Least(CmdLen, cbw.h), !.residue = cbw.h,
                      !.left = cbw.h, !.phase = cbw.h < CmdLen \/ Partial \/ Mismatch,
                      !.short = FALSE]

\* The sense a command that moves no sectors leaves.
CmdSense ==
    CASE cbw.op = "eject" /\ lun.prevent -> "prevented"
      [] cbw.op = "bad" -> "command"
      [] cbw.op = "sense" -> "none"
      [] cbw.op \in {"read", "write"} /\ cbw.lba >= NumSectors -> "range"
      [] cbw.op = "verify" /\ (cbw.lba >= NumSectors \/ cbw.lba + cbw.n > NumSectors) -> "range"
      [] OTHER -> "none"

\* An accepted command that replies fills one unit; what the reply says is
\* left out.  It is cut to what host and command agree on.
ReplyLen(ok) == IF ok /\ cbw.op \in Replies /\ cbw.dir = "in"
                THEN Least(1, Checked.cmnd) ELSE 0

\* _scsi_start_stop and _scsi_prevent_allow_removal.
Ejects(ok)   == ok /\ cbw.op = "eject" /\ ~lun.prevent
Prevents(ok) == IF ok /\ cbw.op \in {"prevent", "allow"} THEN cbw.op = "prevent"
                ELSE lun.prevent

\* _parse_scsi_cmd.  A command is refused, or answered here when it moves no
\* sectors, or handed to the read or write loop.  rd: the SDMMC reads of a
\* verify succeed.
Parse(rd) ==
    /\ pc = "parse"
    /\ rd \/ cbw.op = "verify"
    /\ state' = AfterEp0 /\ host' = HostEp0 /\ out' = OutEp0
    /\ LET v == Verdict
           s1 == CASE ~v.ok -> v.sense
                   [] v.ok /\ cbw.op = "write" /\ ro -> "protected"
                   [] v.ok /\ cbw.op = "verify" /\ cbw.lba < NumSectors /\ cbw.n > 0 /\ ~rd -> "read"
                   [] OTHER -> CmdSense
           moves == v.ok /\ s1 = "none" /\ cbw.op \in {"read", "write"} /\ Checked.cmnd > 0
           reply == ReplyLen(v.ok)
       IN /\ lun' = [lun EXCEPT
                !.sense = s1, !.attention = v.attention,
                !.unmounted = @ \/ Ejects(v.ok), !.prevent = Prevents(v.ok)]
          /\ sz' = [Checked EXCEPT !.residue = @ - reply]
          /\ ibuf' = [i \in 1..reply |-> REPLY]
          /\ io' = IF moves
                   THEN [lba |-> cbw.lba, ulba |-> cbw.lba, req |-> sz'.cmnd,
                         todo |-> IF cbw.op = "read" THEN Whole(sz'.cmnd) ELSE sz'.cmnd,
                         flight |-> FALSE]
                   ELSE NoIo
          /\ pc' = CASE moves -> cbw.op
                     [] ~moves /\ state' > NORMAL -> "top"
                     [] OTHER -> "finish"
    /\ UNCHANGED <<xusb, ro, cbw, inq, txc, plug, ended, wrote, got, csw>>

\* A data loop leaves the parser; a pending exception skips the reply.
Parsed == pc' = IF state > NORMAL THEN "top" ELSE "finish"

ReadAmount_NoClip == Least(io.todo, InMax)

\* The next chunk of a read, cut at the last sector.
ReadAmount == Least(Least(io.todo, InMax), NumSectors - io.lba)

\* One round of _scsi_read: read a chunk from the card (ok or not), wait for
\* the chunk before it, start sending this one.  The last chunk is left to
\* _finish_reply.  A read past the last sector leaves at once, without the
\* wait.
ReadChunk(ok) ==
    LET amount == ReadAmount
        chunk  == [i \in 1..amount |-> io.lba + i - 1]
    IN
    /\ pc = "read"
    /\ IF amount = 0
       THEN /\ ok
            /\ lun' = [lun EXCEPT !.sense = "range"]
            /\ ibuf' = <<>> /\ Parsed
            /\ UNCHANGED <<sz, io, inq, txc>>
       ELSE /\ io.flight => InDone
            /\ IF ~ok
               THEN /\ lun' = [lun EXCEPT !.sense = "read"]
                    /\ ibuf' = <<>> /\ Parsed
                    /\ io' = [io EXCEPT !.flight = FALSE]
                    /\ UNCHANGED <<sz, inq, txc>>
               ELSE /\ sz' = [sz EXCEPT !.residue = @ - amount]
                    /\ io' = [io EXCEPT !.lba = @ + amount, !.todo = @ - amount,
                                        !.flight = io.todo > amount]
                    /\ IF io.todo = amount
                       THEN ibuf' = chunk /\ Parsed /\ UNCHANGED <<inq, txc>>
                       ELSE /\ Queue([k |-> "card", units |-> chunk])
                            /\ UNCHANGED <<ibuf, pc>>
                    /\ UNCHANGED lun
    /\ UNCHANGED <<xusb, ro, state, cbw, out, host, plug, ended, wrote, got, csw>>

\* The outcomes of receiving n sectors from the host: how many the driver
\* reports, what the buffer then holds, and the host afterwards.  A host that
\* stops early sends a short packet: XUSB counts what came, USB2 reports the
\* length it asked for.
Received(n) ==
    LET all == [st |-> "ok", actual |-> n, buf |-> [i \in 1..n |-> HOST],
                h |-> [host EXCEPT !.left = @ - n, !.ph = IF host.left = n THEN "csw" ELSE @]]
        cut(k) == [st |-> "ok", actual |-> IF xusb THEN k ELSE n,
                   buf |-> [i \in 1..n |-> IF i <= k THEN HOST ELSE STALE],
                   h |-> [host EXCEPT !.left = 0, !.ph = "csw", !.short = TRUE]]
        lost == [st |-> "error", actual |-> 0, buf |-> <<>>, h |-> host]
    IN {lost} \cup IF plug = "on" /\ host.ph = "dataout" /\ host.left >= n
                   THEN {all} \cup {cut(k) : k \in 0..n - 1} ELSE {}

ShortPacket_Missed(r, n) == FALSE

\* The host sent less than it was asked for, and the driver says so.
ShortPacket(r, n) == r.st = "ok" /\ r.actual < n

\* One round of _scsi_write: ask for data, check what came, write its whole
\* sectors (ok or not).  With nothing left to ask for and something left to
\* write there is no step: the loop spins.
WriteChunk(ok) ==
    /\ pc = "write" /\ io.req > 0
    /\ IF io.ulba >= NumSectors
       THEN /\ ok
            /\ lun' = [lun EXCEPT !.sense = "range"] /\ Parsed
            /\ UNCHANGED <<sz, io, host, wrote>>
       ELSE \E r \in Received(Least(io.req, OutMax)) :
            LET n == Least(io.req, OutMax)
                whole == IF n = io.req THEN Whole(n) ELSE n
                a == Least(Least(r.actual, NumSectors - io.lba), whole)
                w == IF ok THEN a ELSE 0
            IN /\ ok \/ (r.st = "ok" /\ a > 0)
               /\ host' = r.h
               /\ wrote' = wrote \cup {<<io.lba + i - 1, r.buf[i]>> : i \in 1..w}
               /\ io' = [io EXCEPT !.ulba = @ + whole, !.req = @ - n,
                                   !.lba = @ + w, !.todo = @ - w]
               /\ sz' = [sz EXCEPT !.left = @ - n, !.residue = @ - w,
                                   !.short = ok /\ ShortPacket(r, n)]
               /\ lun' = [lun EXCEPT !.sense = CASE r.st # "ok" -> "comm"
                                                 [] r.st = "ok" /\ ~ok -> "write"
                                                 [] OTHER -> @]
               /\ IF lun'.sense # "none" \/ sz'.short \/ io'.todo = 0
                  THEN Parsed ELSE pc' = pc
    /\ UNCHANGED <<xusb, ro, state, cbw, out, ibuf, inq, txc, plug, ended, got, csw>>
-----------------------------------------------------------------------------
(***************************************************************************)
(* _finish_reply and the end of a command.                                 *)
(***************************************************************************)

\* What an IN phase sends is card sectors or a reply; each has its buffer.
InKind == IF cbw.op = "read" THEN "card" ELSE "data"
Zeros(n) == [i \in 1..n |-> ZERO]

\* Transfers of this kind still in the ring, after memset of their buffer.
Wiped(k) == [j \in 1..Len(inq) |->
               IF inq[j].k = k THEN [inq[j] EXCEPT !.units = [i \in DOMAIN @ |-> ZERO]]
               ELSE inq[j]]

\* The loop of _pad_with_zeros has more to send.
Padding == sz.residue > 0 /\ sz.left > 0

\* The last buffer of an IN phase, filled up with zeros when there is a residue
\* (the gadget never stalls).  The zeros are written into the buffer a transfer
\* left in flight may still be sent from.
FinishIn ==
    /\ pc = "finish" /\ cbw.dir = "in"
    /\ state' = AfterEp0 /\ host' = HostEp0 /\ out' = OutEp0
    /\ LET all   == Len(ibuf) + sz.residue
           nsend == IF sz.residue = 0 THEN all ELSE Least(all, EpMax)
           item  == [k |-> InKind, units |-> ibuf \o Zeros(nsend - Len(ibuf))]
       IN /\ sz' = [sz EXCEPT !.left = IF sz.residue = 0 THEN @ ELSE all - nsend]
          /\ \/ Queue(item)
             \/ /\ io.flight /\ xusb /\ inq # <<>>
                /\ inq' = Append(Wiped("card"), item) /\ txc' = 1
    /\ pc' = "lastwait"
    /\ UNCHANGED <<xusb, ro, cbw, lun, io, ibuf, plug, ended, wrote, got, csw>>

\* The next round of _pad_with_zeros, once the transfer before it is done or
\* has timed out.  The buffer is the same: on XUSB, which still has a transfer
\* that timed out, memset clears what that one was to send.
PadMore ==
    /\ pc = "lastwait" /\ Padding
    /\ LET nsend == Least(sz.left, EpMax)
           item  == [k |-> InKind, units |-> Zeros(nsend)]
       IN /\ sz' = [sz EXCEPT !.left = @ - nsend]
          /\ \/ Queue(item)
             \/ /\ xusb /\ inq # <<>>
                /\ inq' = Append(Wiped(InKind), item) /\ txc' = 1
    /\ UNCHANGED <<xusb, ro, pc, state, cbw, lun, out, io, ibuf, host, plug, ended, wrote, got, csw>>

\* End of an OUT phase or of a command without data.  After a short packet
\* the OUT transfer is aborted; otherwise ONE buffer of excess data is read
\* and thrown away, whatever came.
FinishOut ==
    /\ pc = "finish" /\ cbw.dir # "in"
    /\ LET s1 == AfterEp0
           aborts == cbw.dir = "out" /\ sz.residue > 0 /\ sz.short
           drains == cbw.dir = "out" /\ sz.residue > 0 /\ ~sz.short /\ sz.left > 0
           n == Least(sz.left, EpMax)
       IN /\ state' = IF aborts THEN Raise(s1, ABORT_BULK_OUT) ELSE s1
          /\ out' = OutEp0
          /\ IF drains /\ ~ResetSeen
             THEN \E r \in Received(n) : host' = r.h
             ELSE host' = HostEp0
          /\ sz' = IF drains THEN [sz EXCEPT !.left = @ - n] ELSE sz
          /\ IF state' > NORMAL
             THEN pc' = "top" /\ UNCHANGED <<inq, txc>>
             ELSE SendStatus
    /\ UNCHANGED <<xusb, ro, cbw, lun, io, ibuf, plug, ended, wrote, got, csw>>

\* The wait for the last IN transfer ends, by completion or timeout, and the
\* status follows unless an exception is pending.  USB2 drops the transfer.
LastSent ==
    /\ pc = "lastwait" /\ ~Padding
    /\ IF state > NORMAL
       THEN /\ pc' = "top" /\ txc' = txc
            /\ inq' = IF xusb THEN inq ELSE <<>>
       ELSE SendStatus
    /\ UNCHANGED <<xusb, ro, state, cbw, sz, lun, out, io, ibuf, host, plug, ended, wrote, got, csw>>

StatusSent_NoFlush ==
    /\ pc = "cswwait"
    /\ pc' = "top"
    /\ UNCHANGED <<xusb, ro, state, cbw, sz, lun, out, io, ibuf, inq, txc, host, plug, ended, wrote, got, csw>>

StatusSent_ForgetsSense ==
    /\ pc = "cswwait"
    /\ pc' = "top"
    /\ inq' = IF xusb THEN inq ELSE <<>>
    /\ lun' = [lun EXCEPT !.sense = "none"]
    /\ UNCHANGED <<xusb, ro, state, cbw, sz, out, io, ibuf, txc, host, plug, ended, wrote, got, csw>>

\* The wait for the CSW ends, by completion or timeout.
StatusSent ==
    /\ pc = "cswwait"
    /\ pc' = "top"
    /\ inq' = IF xusb THEN inq ELSE <<>>
    /\ UNCHANGED <<xusb, ro, state, cbw, sz, lun, out, io, ibuf, txc, host, plug, ended, wrote, got, csw>>

\* XUSB services EP0 while it waits for any transfer.
XusbEp0 ==
    /\ xusb /\ host.ph = "reset" /\ plug = "on"
    /\ Waiting /\ (pc = "cbw" => out.cnt = 1)
    /\ host' = [host EXCEPT !.ph = "idle"]
    /\ out' = [out EXCEPT !.reset = TRUE]
    /\ UNCHANGED <<xusb, ro, pc, state, cbw, sz, lun, io, ibuf, inq, txc, plug, ended, wrote, got, csw>>

\* USB2 services EP0 while it waits for the chunk in flight, and throws the
\* answer away: the reset is acknowledged and never raised.
Usb2Ep0InFinish ==
    /\ ~xusb /\ host.ph = "reset" /\ plug = "on"
    /\ pc = "read" /\ io.flight /\ ~InDone
    /\ host' = [host EXCEPT !.ph = "idle"]
    /\ UNCHANGED <<xusb, ro, pc, state, cbw, sz, lun, out, io, ibuf, inq, txc, plug, ended, wrote, got, csw>>
-----------------------------------------------------------------------------
(***************************************************************************)
(* The host.                                                               *)
(***************************************************************************)

\* The host takes the next IN transfer.  In its data phase a status block is
\* a short packet that ends the phase; outside it, data is no valid status
\* and the host gives up.
HostTakes ==
    /\ plug = "on" /\ inq # <<>>
    /\ host.ph \in {"datain", "csw"}
    /\ inq' = Tail(inq) /\ txc' = IF txc > 0 THEN txc - 1 ELSE 0
    /\ LET x == Head(inq)
       IN IF host.ph = "datain"
          THEN LET u == IF x.k = "csw" THEN <<STALE>> ELSE x.units
                   k == Least(Len(u), host.left)
               IN /\ got' = got \o SubSeq(u, 1, k)
                  /\ host' = [host EXCEPT !.left = @ - k,
                       !.ph = IF x.k = "csw" \/ u = <<>> \/ k = host.left THEN "csw" ELSE @]
                  /\ UNCHANGED csw
          ELSE IF x.k = "csw"
               THEN /\ csw' = [status |-> x.status, residue |-> x.residue,
                               cur |-> x.cur, fresh |-> TRUE]
                    /\ host' = [host EXCEPT !.ph = "idle"]
                    /\ UNCHANGED got
               ELSE /\ host' = [host EXCEPT !.ph = "lost"]
                    /\ UNCHANGED <<csw, got>>
    /\ UNCHANGED <<xusb, ro, pc, state, cbw, sz, lun, out, io, ibuf, plug, ended, wrote>>

\* The host gives up on a command and sends the Bulk-Only reset.
HostResets ==
    /\ plug = "on" /\ host.ph \notin {"idle", "reset"}
    /\ host.resets < MaxResets
    /\ host' = [host EXCEPT !.ph = "reset", !.resets = @ + 1, !.left = 0]
    /\ UNCHANGED <<xusb, ro, pc, state, cbw, sz, lun, out, io, ibuf, inq, txc, plug, ended, wrote, got, csw>>

\* The cable goes, the port sleeps, or the host removes the configuration;
\* nobody is left to take or to send anything.  Every transfer may time out
\* with a host that stays, so it is enough to leave where the gadget waits
\* for a command or, without a timeout, for a chunk in flight.
HostLeaves ==
    /\ plug = "on" /\ (pc = "cbw" \/ io.flight)
    /\ plug' \in {"gone", "sleep", "decfg"}
    /\ host' = [ph |-> "idle", left |-> 0, short |-> FALSE, resets |-> 0]
    /\ got' = <<>> /\ csw' = NoCsw
    /\ UNCHANGED <<xusb, ro, pc, state, cbw, sz, lun, out, io, ibuf, inq, txc, ended, wrote>>
-----------------------------------------------------------------------------
Gadget ==
    \/ Start \/ Buttons \/ HandleException \/ AskForCommand
    \/ \E st \in {"timeout", "error", "disabled"} : NoCommand(st)
    \/ JunkCommand \/ StaleCommand
    \/ \E c \in Commands : GetNextCommand(c)
    \/ \E ok \in BOOLEAN : Parse(ok) \/ ReadChunk(ok) \/ WriteChunk(ok)
    \/ FinishIn \/ PadMore \/ FinishOut \/ LastSent \/ StatusSent
    \/ XusbEp0 \/ Usb2Ep0InFinish

UmsNext == Gadget \/ HostTakes \/ HostResets \/ HostLeaves

UmsSpec == UmsInit /\ [][UmsNext]_umsVars

\* The gadget's loop runs on: every transfer but the wait for a chunk in
\* flight ends in a timeout.  A connected host takes what it is sent.
UmsFairness ==
    /\ WF_umsVars(Gadget)
    /\ WF_umsVars(HostTakes)
UmsFairSpec == UmsSpec /\ UmsFairness
-----------------------------------------------------------------------------
(***************************************************************************)
(* Properties.                                                             *)
(***************************************************************************)

\* Types of everything the gadget and the host keep.
UmsTypeOK ==
    /\ xusb \in BOOLEAN /\ ro \in BOOLEAN
    /\ pc \in {"start", "top", "cbw", "parse", "read", "write", "finish",
               "lastwait", "cswwait", "done"}
    /\ state \in NORMAL..TERMINATED
    /\ sz.residue \in Nat /\ sz.left \in Nat /\ sz.cmnd \in Nat
    /\ lun \in [unmounted : BOOLEAN, prevent : BOOLEAN, sense : SenseCodes,
                attention : {"none", "reset"}]
    /\ out.timeouts \in 0..21 /\ txc \in 0..1
    /\ io.lba \in 0..NumSectors
    /\ host.ph \in {"idle", "datain", "dataout", "csw", "reset", "lost"}
    /\ host.left \in Nat /\ host.resets \in 0..MaxResets
    /\ ended \in {"no", "ejected", "unsafe", "error"}

\* The host has taken the status of the command the gadget answered last.
Answered == csw.fresh /\ csw.cur /\ cbw.cur /\ host.ph = "idle"

\* The units the status says were transferred, and what they should be.
Claimed == cbw.h - csw.residue
Sectors(n) == [i \in 1..n |-> cbw.lba + i - 1]

\* A status block tells the truth (_scsi_read, _scsi_write, _send_status): a
\* write put exactly the claimed sectors on the medium, all from the host; a
\* read that passed delivered exactly the claimed sectors; and a pass leaves
\* nothing out that command and host agreed on.  (USB2 cannot see a short OUT
\* packet; a host that stops early is left out for it.)
CswHonestAlways ==
    Answered /\ (xusb \/ ~host.short) =>
        /\ cbw.op = "write" /\ ~ro =>
             wrote = {<<cbw.lba + i, HOST>> : i \in 0..Claimed - 1}
        /\ cbw.op = "read" /\ csw.status = "pass" =>
             SubSeq(got, 1, Claimed) = Sectors(Claimed)
        /\ cbw.op \in {"read", "write"} /\ csw.status = "pass" /\ ~host.short =>
             Claimed = cbw.n

\* The padding of a read fits the buffer its last chunk is in.
OneBuffer == cbw.h - cbw.n + InMax <= EpMax

\* The same, on XUSB only while the host has not reset and for reads that are
\* padded in one transfer: it never drops a transfer that timed out, and the
\* next round of _pad_with_zeros clears what that one was to send.
CswHonest ==
    ~xusb \/ (host.resets = 0 /\ (cbw.op = "read" => OneBuffer)) => CswHonestAlways

\* The status block a host takes belongs to its outstanding command, across
\* timeouts, late answers and resets.  On XUSB, which never flushes, only as
\* long as the host has not reset.
CswIsCurrent == (~xusb \/ host.resets = 0) /\ csw.status # "none" => csw.cur

\* Writes stay inside the exposed partition, and never reach a read-only or
\* ejected medium, whatever the host asks for.
MediumGuarded ==
    wrote # {} => /\ ~ro /\ ~lun.unmounted
                  /\ \A w \in wrote : w[1] \in 0..NumSectors - 1

\* Counts, addresses and writes of a session stay within what the gadget exposes.
StaysInBounds == UmsTypeOK /\ MediumGuarded

\* A host told that its command failed can still ask why: the sense is kept
\* until its next command, unless the session has ended.
FailKeepsSense ==
    csw.status = "fail" /\ csw.cur /\ host.ph = "idle" /\ pc # "done" => lun.sense # "none"

\* A status block is for the outstanding command, and a failure can be asked about.
StatusSound == CswIsCurrent /\ FailKeepsSense

\* An accepted eject ends the session, whatever the host or the cable does
\* next: every round without a mounted medium counts towards the exit.
EjectEnds == lun.unmounted ~> pc = "done"

\* The two ways in which _scsi_write runs out of data to ask for before it has
\* written everything: what came crosses the last sector, or ends in a partial
\* block that is never written.  The loop then spins for ever.
Spins ==
    /\ pc = "write" /\ io.req = 0
    /\ Partial \/ cbw.lba + sz.cmnd > NumSectors

\* A command is worked off as long as the host stays and does not reset, or it
\* is a write that spins for one of these two reasons and no other.
CommandEnds ==
    pc = "parse" ~> pc \in {"top", "done"} \/ Spins \/ plug # "on" \/ host.resets > 0
=============================================================================
