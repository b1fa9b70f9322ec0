---------------------------- MODULE UsbUmsProofs ----------------------------
(***************************************************************************)
(* Proofs about UsbUms: the gadget stays on its medium, and the status a   *)
(* host takes is that of its command, can be asked about and tells the     *)
(* truth, for any disk, transfer sizes, commands and number of resets.     *)
(***************************************************************************)
EXTENDS UsbUms, TLAPS

Cbws == [op : ScsiOps \cup {"none"}, lba : Nat, n : Nat, h : Nat, odd : BOOLEAN,
         dir : {"in", "out", "none"}, cur : BOOLEAN]
Szs == [cmnd : Nat, residue : Nat, left : Nat, phase : BOOLEAN, short : BOOLEAN]
Luns == [unmounted : BOOLEAN, prevent : BOOLEAN, sense : SenseCodes,
         attention : {"none", "reset"}]
Outs == [ignore : BOOLEAN, queued : BOOLEAN, timeouts : 0 .. 21, reset : BOOLEAN,
         cnt : 0 .. 1, pend : BOOLEAN, pkt : Cbws]
Ios == [lba : 0 .. NumSectors, ulba : Nat, req : Nat, todo : Nat, flight : BOOLEAN]
Phases == {"idle", "datain", "dataout", "csw", "reset", "lost"}
Hosts == [ph : Phases, left : Nat, short : BOOLEAN, resets : 0 .. MaxResets]
Csws == [status : {"none", "phase", "fail", "pass"}, residue : Nat, cur : BOOLEAN,
         fresh : BOOLEAN]
Items == [k : {"csw"}, cur : BOOLEAN, status : {"phase", "fail", "pass"}, residue : Nat]
           \cup [k : {"card", "data"}, units : Seq(Int)]

Places == {"start", "top", "cbw", "parse", "read", "write", "finish", "lastwait",
           "cswwait", "done"}
Ends == {"no", "ejected", "unsafe", "error"}

GadgetTypes ==
    /\ xusb \in BOOLEAN /\ ro \in BOOLEAN /\ pc \in Places /\ state \in 0 .. 4
    /\ cbw \in Cbws /\ sz \in Szs /\ lun \in Luns /\ out \in Outs /\ io \in Ios
    /\ ibuf \in Seq(Int) /\ inq \in Seq(Items) /\ txc \in 0 .. 1
    /\ host \in Hosts /\ ended \in Ends

\* What the loops of _scsi_read and _scsi_write rely on.
Loops ==
    /\ pc = "read" => io.todo <= sz.residue
    /\ pc = "write" => /\ io.req <= io.todo /\ io.todo <= sz.residue /\ io.req <= sz.left
                       /\ ~ro /\ ~lun.unmounted
    /\ pc = "parse" => wrote = {}
    /\ host.ph = "dataout" => host.left > 0

BoundsInv == GadgetTypes /\ Loops /\ MediumGuarded

----------------------------------------------------------------------------

\* The status blocks on the IN endpoint.
StatusAt(j) == inq[j].k = "csw"
NoStatus   == \A j \in DOMAIN inq : ~StatusAt(j)
OneStatus  == \A i, j \in DOMAIN inq : StatusAt(i) /\ StatusAt(j) => i = j
AllCurrent == \A j \in DOMAIN inq : StatusAt(j) => inq[j].cur
NoCurrent  == \A j \in DOMAIN inq : StatusAt(j) => ~inq[j].cur
NoFailure  == \A j \in DOMAIN inq : StatusAt(j) /\ inq[j].cur => inq[j].status # "fail"

\* A command is being worked on and has not been answered.
Busy == pc \in {"parse", "read", "write", "finish", "lastwait"}
          \/ (pc = "top" /\ state = ABORT_BULK_OUT)

ResetPending == state = PROTOCOL_RESET \/ out.reset

\* The host has the status of the command it sent last.
Told == csw.status # "none" /\ csw.cur

\* Where the loop is in which state.
States ==
    /\ pc = "top" => state \in NORMAL .. EXIT
    /\ pc = "cbw" => state \in {NORMAL, PROTOCOL_RESET}
    /\ pc \in {"start", "parse", "cswwait"} => state = NORMAL
    /\ pc \in {"read", "write", "finish", "lastwait"} => state \in {NORMAL, PROTOCOL_RESET}

\* A command is answered once, by the status with its tag.
OneAnswer ==
    /\ host.ph # "idle" => csw.status = "none"
    /\ Busy \/ pc = "cswwait" => cbw.cur
    /\ Busy => ~Told /\ NoCurrent
    /\ out.pkt # NoCbw =>
         /\ ~Told /\ NoCurrent /\ ~Busy /\ pc # "cswwait"
         /\ out.pkt.cur

\* A reset on its way to _handle_exception finds no status the host may still take
\* for its command.
ResetsSafe ==
    /\ ResetPending => ~Told /\ (host.ph \in {"idle", "reset"} \/ NoCurrent)
    /\ pc \in {"read", "write", "finish", "lastwait", "cswwait"} /\ out.reset =>
         host.ph \in {"idle", "reset"}
    /\ pc = "top" /\ state = ABORT_BULK_OUT => ~out.reset

\* A failure that is told, or on its way, can be asked about.
SenseThere ==
    /\ host.ph \notin {"idle", "reset"} /\ pc # "done" => NoFailure \/ lun.sense # "none"
    /\ Told /\ csw.status = "fail" /\ pc # "done" => lun.sense # "none"

\* USB2 has a status on its endpoint only while the gadget waits for it.
Flushed == ~xusb /\ pc # "cswwait" => NoStatus

\* XUSB, as long as the host has not reset.
InStep ==
    xusb /\ plug = "on" /\ host.resets = 0 =>
        /\ host.ph = "idle" => NoStatus
        /\ Busy => host.ph # "idle" /\ NoStatus
        /\ OneStatus
        /\ ~ResetPending /\ host.ph # "reset"
        /\ out.pkt # NoCbw => out.ignore

Current ==
    /\ plug # "on" => csw.status = "none"
    /\ (~xusb \/ host.resets = 0) /\ csw.status # "none" => csw.cur
    /\ plug = "on" /\ (~xusb \/ host.resets = 0) => AllCurrent

StatusInv ==
    /\ csw \in Csws
    /\ States /\ OneAnswer /\ ResetsSafe /\ SenseThere /\ Flushed /\ InStep /\ Current

----------------------------------------------------------------------------
(* Numbers, states, transfers *)

LEMMA LeastOK ==
  \A a, b \in Int : /\ Least(a, b) \in Int /\ Least(a, b) <= a /\ Least(a, b) <= b
                    /\ (a \in Nat /\ b \in Nat => Least(a, b) \in Nat)
                    /\ (a > 0 /\ b > 0 => Least(a, b) > 0)
BY DEF Least

LEMMA Consts ==
  /\ NumSectors \in Nat /\ NumSectors > 0 /\ InMax \in Nat /\ InMax > 0
  /\ OutMax \in Nat /\ OutMax > 0 /\ EpMax \in Nat /\ EpMax > 0 /\ MaxResets \in Nat
  /\ InMax <= EpMax
BY UmsAssumption

LEMMA RaiseOK == \A s, n \in 0 .. 4 : Raise(s, n) \in {s, n} /\ Raise(s, n) >= n /\ Raise(s, n) >= s
BY DEF Raise

\* The count of quiet rounds stays in its range.
LEMMA CountOK ==
  ASSUME BoundsInv
  PROVE  /\ \A st \in {"ok", "timeout", "error", "disabled"} :
              Count(st) \in 0 .. 21 /\ Counted(st) \in {state, EXIT}
<1> SUFFICES ASSUME NEW st \in {"ok", "timeout", "error", "disabled"}
             PROVE Count(st) \in 0 .. 21 /\ Counted(st) \in {state, EXIT}
  OBVIOUS
<1>1. Penalty(st) \in 0 .. 18
  BY DEF Penalty
<1>2. out.timeouts \in 0 .. 21
  BY DEF BoundsInv, GadgetTypes, Outs
<1>3. Count(st) \in 0 .. 21
  BY <1>1, <1>2 DEF Count, Least
<1>4. Counted(st) \in {state, EXIT}
  BY RaiseOK DEF Counted, EXIT, BoundsInv, GadgetTypes
<1> QED BY <1>3, <1>4

\* Servicing EP0 raises a reset at most, and changes nothing else.
LEMMA Ep0OK ==
  ASSUME BoundsInv
  PROVE  /\ AfterEp0 \in {state, PROTOCOL_RESET} /\ OutEp0 \in Outs /\ HostEp0 \in Hosts
         /\ HostEp0 = host \/ HostEp0.ph = "idle"
<1>1. AfterEp0 \in {state, PROTOCOL_RESET}
  BY RaiseOK DEF AfterEp0, PROTOCOL_RESET, BoundsInv, GadgetTypes
<1>2. OutEp0 \in Outs
  BY DEF OutEp0, BoundsInv, GadgetTypes, Outs
<1>3. HostEp0 \in Hosts /\ (HostEp0 = host \/ HostEp0.ph = "idle")
  BY DEF HostEp0, BoundsInv, GadgetTypes, Hosts, Phases
<1> QED BY <1>1, <1>2, <1>3

LEMMA NoCbwOK == NoCbw \in Cbws
BY DEF NoCbw, Cbws

LEMMA OutsOK ==
  ASSUME NEW o \in Outs, NEW i \in BOOLEAN, NEW q \in BOOLEAN, NEW t \in 0 .. 21, NEW k \in Cbws
  PROVE  /\ [o EXCEPT !.ignore = i, !.queued = q, !.timeouts = t, !.pend = FALSE, !.cnt = 0,
                       !.pkt = k] \in Outs
         /\ [o EXCEPT !.ignore = i, !.queued = q, !.timeouts = t] \in Outs
<1>1. PICK p \in BOOLEAN : p = FALSE
  OBVIOUS
<1>2. PICK c \in 0 .. 1 : c = 0
  OBVIOUS
<1>3. [o EXCEPT !.ignore = i, !.queued = q, !.timeouts = t, !.pend = p, !.cnt = c, !.pkt = k]
        \in Outs
  BY DEF Outs
<1>4. [o EXCEPT !.ignore = i, !.queued = q, !.timeouts = t] \in Outs
  BY DEF Outs
<1> QED BY <1>1, <1>2, <1>3, <1>4

LEMMA QueueOK ==
  ASSUME BoundsInv, NEW item \in Items, Queue(item)
  PROVE  inq' \in Seq(Items) /\ txc' \in 0 .. 1
<1> DEFINE s == [j \in 1 .. Len(inq) |->
                   IF inq[j].k = "csw" /\ item.k # "card" THEN item ELSE inq[j]]
<1>1. inq \in Seq(Items)
  BY DEF BoundsInv, GadgetTypes
<1>2. \A j \in 1 .. Len(inq) : s[j] \in Items
  BY <1>1
<1>3. s \in Seq(Items)
  BY <1>1, <1>2
<1>4. Append(s, item) \in Seq(Items) /\ <<item>> \in Seq(Items)
  BY <1>3
<1> QED BY <1>4 DEF Queue

StatusItem ==
    [k |-> "csw", cur |-> cbw.cur,
     status |-> IF sz.phase THEN "phase" ELSE IF lun.sense # "none" THEN "fail" ELSE "pass",
     residue |-> sz.residue]

LEMMA SendOK ==
  ASSUME BoundsInv, SendStatus
  PROVE  inq' \in Seq(Items) /\ txc' \in 0 .. 1 /\ pc' = "cswwait"
<1>1. StatusItem \in Items
  BY DEF StatusItem, Items, BoundsInv, GadgetTypes, Cbws, Szs
<1>2. PICK x \in Items : x = StatusItem
  BY <1>1
<1>3. Queue(x)
  BY <1>2 DEF SendStatus, StatusItem
<1> QED BY <1>3, QueueOK DEF SendStatus

LEMMA OutdatedOK == ASSUME BoundsInv PROVE Outdated \in Seq(Items) /\ Len(Outdated) = Len(inq)
<1>1. inq \in Seq(Items)
  BY DEF BoundsInv, GadgetTypes
<1>2. \A x \in Items : x.k = "csw" => [x EXCEPT !.cur = FALSE] \in Items
  BY DEF Items
<1>3. \A j \in 1 .. Len(inq) : inq[j] \in Items
  BY <1>1
<1>4. \A j \in 1 .. Len(inq) : Outdated[j] \in Items
  BY <1>2, <1>3 DEF Outdated
<1> QED BY <1>1, <1>4 DEF Outdated

----------------------------------------------------------------------------
(* Every step keeps to the bounds. *)

LEMMA InitBounds == UmsInit => BoundsInv
<1> SUFFICES ASSUME UmsInit PROVE BoundsInv
  OBVIOUS
<1>1. xusb \in BOOLEAN /\ ro \in BOOLEAN
  BY UmsAssumption DEF UmsInit
<1>2. cbw \in Cbws /\ sz \in Szs /\ io \in Ios /\ out \in Outs /\ lun \in Luns
  BY Consts DEF UmsInit, NoCbw, NoSz, NoIo, Cbws, Szs, Ios, Outs, Luns, SenseCodes
<1>3. host \in Hosts /\ host.ph = "idle"
  BY Consts DEF UmsInit, Hosts, Phases
<1>4. GadgetTypes
  BY <1>1, <1>2, <1>3 DEF UmsInit, GadgetTypes, Places, Ends, NORMAL
<1>5. Loops /\ MediumGuarded
  BY <1>3 DEF UmsInit, Loops, MediumGuarded
<1> QED BY <1>4, <1>5 DEF BoundsInv

LEMMA StartBounds == ASSUME BoundsInv, Start PROVE BoundsInv'
BY DEF BoundsInv, GadgetTypes, Loops, MediumGuarded, Start, Places, Ends

LEMMA ButtonsBounds == ASSUME BoundsInv, Buttons PROVE BoundsInv'
BY DEF BoundsInv, GadgetTypes, Loops, MediumGuarded, Buttons, Places, Ends

LEMMA ExceptionBounds == ASSUME BoundsInv, HandleException PROVE BoundsInv'
<1> USE DEF BoundsInv
<1>1. inq' \in Seq(Items) /\ txc' \in 0 .. 1 /\ pc' \in {"cswwait", "top", "done"}
  <2>1. CASE state = ABORT_BULK_OUT
    BY <2>1, SendOK DEF HandleException
  <2>2. CASE state # ABORT_BULK_OUT
    <3>1. inq' \in {inq, <<>>} /\ txc' = txc /\ pc' \in {"top", "done"}
      BY <2>2 DEF HandleException
    <3>2. <<>> \in Seq(Items)
      OBVIOUS
    <3> QED BY <3>1, <3>2 DEF GadgetTypes
  <2> QED BY <2>1, <2>2
<1>2. lun' \in Luns /\ lun'.unmounted = lun.unmounted
  BY DEF HandleException, GadgetTypes, Luns, SenseCodes
<1>3. out' \in Outs
  BY DEF HandleException, GadgetTypes, Outs
<1>4. state' \in 0 .. 4 /\ ended' \in Ends
  BY DEF HandleException, GadgetTypes, Ends, NORMAL, TERMINATED
<1>5. GadgetTypes'
  BY <1>1, <1>2, <1>3, <1>4 DEF HandleException, GadgetTypes, Places
<1>6. Loops' /\ MediumGuarded'
  BY <1>1, <1>2 DEF HandleException, Loops, MediumGuarded
<1> QED BY <1>5, <1>6

LEMMA AskBounds == ASSUME BoundsInv, AskForCommand PROVE BoundsInv'
<1> USE DEF BoundsInv
<1>1. out' \in Outs
  <2>1. PICK p \in BOOLEAN : p = (~out.queued \/ OutEp0.pend)
    OBVIOUS
  <2>2. PICK c \in 0 .. 1 : c = IF out.queued THEN OutEp0.cnt ELSE 1
    BY Ep0OK DEF Outs
  <2>3. PICK q \in BOOLEAN : q = xusb
    BY DEF GadgetTypes
  <2>4. out' = [OutEp0 EXCEPT !.queued = q, !.pend = p, !.cnt = c]
    BY <2>1, <2>2, <2>3 DEF AskForCommand
  <2> QED BY <2>4, Ep0OK DEF Outs
<1>2. host' \in Hosts /\ (host' = host \/ host'.ph = "idle")
  BY Ep0OK DEF AskForCommand
<1>3. state' \in 0 .. 4
  BY Ep0OK DEF AskForCommand, GadgetTypes, PROTOCOL_RESET
<1>4. cbw' \in Cbws /\ sz' \in Szs /\ io' \in Ios
  <2>1. NoCbw \in Cbws
    BY NoCbwOK
  <2>2. NoSz \in Szs
    BY DEF NoSz, Szs
  <2>3. NoIo \in Ios
    BY Consts DEF NoIo, Ios
  <2> QED BY <2>1, <2>2, <2>3 DEF AskForCommand, GadgetTypes
<1>5. GadgetTypes'
  BY <1>1, <1>2, <1>3, <1>4 DEF AskForCommand, GadgetTypes, Places
<1>6. Loops' /\ MediumGuarded'
  BY <1>2 DEF AskForCommand, Loops, MediumGuarded
<1> QED BY <1>5, <1>6

LEMMA NoCommandBounds ==
  ASSUME BoundsInv, NEW st \in {"timeout", "error", "disabled"}, NoCommand(st)
  PROVE  BoundsInv'
<1> USE DEF BoundsInv
<1>1. Count(st) \in 0 .. 21 /\ Counted(st) \in {state, EXIT}
  BY CountOK
<1>2. out' \in Outs
  BY <1>1 DEF NoCommand, GadgetTypes, Outs
<1>3. GadgetTypes'
  BY <1>1, <1>2 DEF NoCommand, GadgetTypes, Places, EXIT
<1> QED BY <1>3 DEF NoCommand, Loops, MediumGuarded

LEMMA JunkBounds == ASSUME BoundsInv, JunkCommand PROVE BoundsInv'
<1> USE DEF BoundsInv
<1>1. Count("ok") \in 0 .. 21 /\ Counted("ok") \in {state, EXIT}
  BY CountOK
<1>2. NoCbw \in Cbws
  BY NoCbwOK
<1>3. out' \in Outs
  <2>1. PICK q \in BOOLEAN : q = (out.ignore /\ out.queued)
    OBVIOUS
  <2>2. PICK t \in 0 .. 21 : t = Count("ok")
    BY <1>1
  <2>3. out \in Outs
    BY DEF GadgetTypes
  <2>4. PICK i \in BOOLEAN : i = TRUE
    OBVIOUS
  <2>5. out' = [out EXCEPT !.ignore = i, !.queued = q, !.timeouts = t, !.pend = FALSE,
                           !.cnt = 0, !.pkt = NoCbw]
    BY <2>1, <2>2, <2>3, <2>4 DEF JunkCommand, Outs
  <2> QED BY <2>3, <2>5, <1>2, OutsOK, Zenon
<1>4. host' \in Hosts /\ (host'.ph = "dataout" => host'.left > 0)
  <2>1. host.left - 1 \in Nat /\ host.left > 0
    BY DEF JunkCommand, GadgetTypes, Loops, Hosts
  <2>2. PICK n \in Nat : n = host.left - 1
    BY <2>1
  <2>3. PICK q \in Phases : q = IF n = 0 THEN "csw" ELSE "dataout"
    BY DEF Phases
  <2>4. host' = [host EXCEPT !.left = n, !.ph = q]
    BY <2>1, <2>2, <2>3 DEF JunkCommand, GadgetTypes, Hosts
  <2>5. host \in Hosts
    BY DEF GadgetTypes
  <2>6. host'.ph = q /\ host'.left = n /\ host' \in Hosts
    BY <2>4, <2>5 DEF Hosts
  <2> QED BY <2>3, <2>6
<1>5. GadgetTypes'
  BY <1>1, <1>3, <1>4 DEF JunkCommand, GadgetTypes, Places, EXIT
<1> QED BY <1>4, <1>5 DEF JunkCommand, Loops, MediumGuarded

LEMMA AcceptOK ==
  ASSUME BoundsInv, NEW c \in Cbws, Accept(c)
  PROVE  /\ out' \in Outs /\ cbw' \in Cbws /\ state' \in {state, EXIT} /\ wrote' = {}
         /\ pc' \in {"top", "parse"}
<1>1. Count("ok") \in 0 .. 21 /\ Counted("ok") \in {state, EXIT}
  BY CountOK
<1>2. NoCbw \in Cbws
  BY NoCbwOK
<1>3. out' \in Outs
  <2>1. PICK t \in 0 .. 21 : t = IF lun.unmounted THEN Count("ok") ELSE 0
    BY <1>1
  <2>2. out \in Outs
    BY DEF BoundsInv, GadgetTypes
  <2>3. PICK i \in BOOLEAN : i = out.ignore
    BY <2>2 DEF Outs
  <2>4. PICK q \in BOOLEAN : q = FALSE
    OBVIOUS
  <2>5. out' = [out EXCEPT !.ignore = i, !.queued = q, !.timeouts = t, !.pend = FALSE,
                           !.cnt = 0, !.pkt = NoCbw]
    BY <2>1, <2>2, <2>3, <2>4 DEF Accept, Outs
  <2> QED BY <2>2, <2>5, <1>2, OutsOK, Zenon
<1> QED BY <1>1, <1>3 DEF Accept

LEMMA GetNextBounds ==
  ASSUME BoundsInv, NEW c \in Commands, GetNextCommand(c) PROVE BoundsInv'
<1> DEFINE x == [op |-> c.op, lba |-> c.lba, n |-> c.n, h |-> c.h, odd |-> c.odd,
                 dir |-> IF c.h = 0 THEN "none" ELSE c.dir, cur |-> TRUE]
<1>1. x \in Cbws
  BY UmsAssumption DEF Cbws
<1>2. c.h \in Nat /\ c.dir \in {"in", "out"}
  BY UmsAssumption
<1>3. host' \in Hosts /\ (host'.ph = "dataout" => host'.left > 0)
  <2>1. PICK q \in Phases : q = CASE c.h = 0 -> "csw" [] c.dir = "in" -> "datain" [] OTHER -> "dataout"
    BY DEF Phases
  <2>2. host \in Hosts
    BY DEF BoundsInv, GadgetTypes
  <2>3. host' = [host EXCEPT !.ph = q, !.left = c.h, !.short = FALSE]
    BY <2>1 DEF GetNextCommand
  <2>4. host'.ph = q /\ host'.left = c.h /\ host' \in Hosts
    BY <2>2, <2>3, <1>2 DEF Hosts
  <2>5. q = "dataout" => c.h > 0
    BY <2>1, <1>2
  <2> QED BY <2>4, <2>5
<1>4. /\ out' \in Outs /\ cbw' \in Cbws /\ state' \in {state, EXIT}
      /\ wrote' \in {wrote, {}} /\ pc' \in {"top", "parse"} /\ (pc' = "parse" => wrote' = {})
  <2>1. CASE ~out.ignore
    <3>1. Accept(x)
      BY <2>1 DEF GetNextCommand
    <3>2. PICK y \in Cbws : y = x
      BY <1>1
    <3>3. Accept(y)
      BY <3>1, <3>2
    <3> QED BY <3>3, AcceptOK
  <2>2. CASE out.ignore
    <3>1. /\ out' = [out EXCEPT !.timeouts = Count("ok"), !.pend = FALSE, !.cnt = 0, !.pkt = x]
          /\ state' = Counted("ok") /\ pc' = "top"
          /\ cbw' = [cbw EXCEPT !.cur = FALSE] /\ wrote' = wrote
      BY <2>2 DEF GetNextCommand
    <3>2. out \in Outs /\ cbw \in Cbws
      BY DEF BoundsInv, GadgetTypes
    <3>3. PICK t \in 0 .. 21 : t = Count("ok")
      BY CountOK
    <3>4. PICK i \in BOOLEAN : i = out.ignore
      BY <3>2 DEF Outs
    <3>5. PICK q \in BOOLEAN : q = out.queued
      BY <3>2 DEF Outs
    <3>6. PICK y \in Cbws : y = x
      BY <1>1
    <3>7. out' = [out EXCEPT !.ignore = i, !.queued = q, !.timeouts = t, !.pend = FALSE,
                             !.cnt = 0, !.pkt = y]
      <4> HIDE DEF x
      <4> QED BY <3>1, <3>2, <3>3, <3>4, <3>5, <3>6 DEF Outs
    <3>8. out' \in Outs
      BY <3>2, <3>7, OutsOK, Zenon
    <3>9. cbw' \in Cbws
      <4> HIDE DEF x
      <4> QED BY <3>1, <3>2 DEF Cbws
    <3>10. state' \in {state, EXIT}
      BY <3>1, CountOK
    <3> QED BY <3>1, <3>8, <3>9, <3>10
  <2> QED BY <2>1, <2>2
<1> HIDE DEF x
<1>5. inq' \in Seq(Items)
  BY OutdatedOK DEF GetNextCommand
<1>6. GadgetTypes'
  BY <1>3, <1>4, <1>5 DEF GetNextCommand, BoundsInv, GadgetTypes, Places, EXIT
<1>7. Loops'
  BY <1>3, <1>4 DEF GetNextCommand, BoundsInv, Loops
<1>8. MediumGuarded'
  BY <1>4 DEF GetNextCommand, BoundsInv, MediumGuarded
<1> QED BY <1>6, <1>7, <1>8 DEF BoundsInv

LEMMA StaleBounds == ASSUME BoundsInv, StaleCommand PROVE BoundsInv'
<1>1. out \in Outs
  BY DEF BoundsInv, GadgetTypes
<1>2. /\ out' \in Outs /\ cbw' \in Cbws /\ state' \in {state, EXIT}
      /\ wrote' \in {wrote, {}} /\ pc' \in {"top", "parse"} /\ (pc' = "parse" => wrote' = {})
  <2>1. CASE Accept(out.pkt)
    <3>1. PICK y \in Cbws : y = out.pkt
      BY <1>1 DEF Outs
    <3>2. Accept(y)
      BY <2>1, <3>1
    <3> QED BY <3>2, AcceptOK
  <2>2. CASE /\ out' = [out EXCEPT !.ignore = TRUE, !.queued = out.ignore /\ @,
                                   !.timeouts = Count("ok")]
             /\ state' = Counted("ok") /\ pc' = "top"
             /\ UNCHANGED <<cbw, wrote>>
    <3>1. PICK t \in 0 .. 21 : t = Count("ok")
      BY CountOK
    <3>2. PICK i \in BOOLEAN : i = TRUE
      OBVIOUS
    <3>3. PICK q \in BOOLEAN : q = (out.ignore /\ out.queued)
      OBVIOUS
    <3>4. out' = [out EXCEPT !.ignore = i, !.queued = q, !.timeouts = t]
      BY <2>2, <3>1, <3>2, <3>3, <1>1 DEF Outs
    <3>5. out' \in Outs
      <4>1. PICK k \in Cbws : k = NoCbw
        BY NoCbwOK
      <4> QED BY <3>4, <1>1, OutsOK
    <3>6. state' \in {state, EXIT}
      BY <2>2, CountOK
    <3> QED BY <2>2, <3>5, <3>6 DEF BoundsInv, GadgetTypes
  <2> QED BY <2>1, <2>2 DEF StaleCommand
<1>3. GadgetTypes'
  BY <1>2 DEF StaleCommand, BoundsInv, GadgetTypes, Places, EXIT
<1>4. Loops'
  BY <1>2 DEF StaleCommand, BoundsInv, Loops
<1>5. MediumGuarded'
  BY <1>2 DEF StaleCommand, BoundsInv, MediumGuarded
<1> QED BY <1>3, <1>4, <1>5 DEF BoundsInv

LEMMA ParseBounds ==
  ASSUME BoundsInv, NEW rd \in BOOLEAN, Parse(rd) PROVE BoundsInv'
<1> DEFINE v == Verdict
           s1 == CASE ~v.ok -> v.sense
                   [] v.ok /\ cbw.op = "write" /\ ro -> "protected"
                   [] v.ok /\ cbw.op = "verify" /\ cbw.lba < NumSectors /\ cbw.n > 0 /\ ~rd -> "read"
                   [] OTHER -> CmdSense
           moves == v.ok /\ s1 = "none" /\ cbw.op \in {"read", "write"} /\ Checked.cmnd > 0
           reply == ReplyLen(v.ok)
<1>1. cbw \in Cbws /\ sz \in Szs /\ lun \in Luns /\ pc = "parse" /\ wrote = {}
  BY DEF BoundsInv, GadgetTypes, Loops, Parse
<1>2. /\ v.ok \in BOOLEAN /\ v.sense \in SenseCodes /\ v.attention \in {"none", "reset"}
      /\ v.ok /\ cbw.op \in {"read", "write"} => ~lun.unmounted
  BY <1>1 DEF Verdict, NeedsMedium, Luns, SenseCodes
<1>3. CmdLen \in Nat
  BY <1>1 DEF CmdLen, Cbws
<1>4. Least(CmdLen, cbw.h) \in Nat /\ Least(CmdLen, cbw.h) <= cbw.h /\ cbw.h \in Nat
  <2>1. cbw.h \in Nat
    BY <1>1 DEF Cbws
  <2> QED BY <1>3, <2>1 DEF Least
<1>5. /\ Checked.cmnd = Least(CmdLen, cbw.h) /\ Checked.residue = cbw.h /\ Checked.left = cbw.h
      /\ Checked \in Szs
  <2>1. PICK n \in Nat : n = Least(CmdLen, cbw.h)
    BY <1>4
  <2>2. PICK h \in Nat : h = cbw.h
    BY <1>4
  <2>3. PICK p \in BOOLEAN : p = (cbw.h < CmdLen \/ Partial \/ Mismatch)
    OBVIOUS
  <2>4. Checked = [sz EXCEPT !.cmnd = n, !.residue = h, !.left = h, !.phase = p, !.short = FALSE]
    BY <2>1, <2>2, <2>3 DEF Checked
  <2>5. Checked.cmnd = n /\ Checked.residue = h /\ Checked.left = h /\ Checked \in Szs
    BY <1>1, <2>4 DEF Szs
  <2> QED BY <2>1, <2>2, <2>5
<1>6. reply \in Nat /\ reply <= cbw.h
  <2>1. reply = 0 \/ reply = Least(1, Checked.cmnd)
    BY DEF ReplyLen
  <2>2. Least(1, Checked.cmnd) \in Nat /\ Least(1, Checked.cmnd) <= Checked.cmnd
    BY <1>4, <1>5 DEF Least
  <2> HIDE DEF reply
  <2> QED BY <1>4, <1>5, <2>1, <2>2
<1>7. s1 \in SenseCodes
  BY <1>2 DEF SenseCodes, CmdSense
<1> HIDE DEF v
<1>8. moves => /\ cbw.lba < NumSectors /\ ~lun.unmounted
               /\ (cbw.op = "write" => ~ro) /\ cbw.lba \in Nat
  <2> SUFFICES ASSUME moves
               PROVE  /\ cbw.lba < NumSectors /\ ~lun.unmounted
                      /\ (cbw.op = "write" => ~ro) /\ cbw.lba \in Nat
    OBVIOUS
  <2>1. v.ok /\ cbw.op \in {"read", "write"} /\ s1 = "none"
    OBVIOUS
  <2>2. cbw.lba \in Nat
    BY <1>1 DEF Cbws
  <2>3. cbw.op = "write" => ~ro
    BY <2>1
  <2>4. s1 = CmdSense
    BY <2>1, <2>3
  <2>5. ~(cbw.lba >= NumSectors)
    BY <2>1, <2>4 DEF CmdSense
  <2> QED BY <1>2, <2>1, <2>2, <2>3, <2>5, Consts
<1>9. moves => cbw.op \in {"read", "write"} /\ Checked.cmnd > 0
  OBVIOUS
<1>10. (cbw.op \in {"read", "write"}) => ~Ejects(v.ok)
  BY DEF Ejects
<1> HIDE DEF s1, moves, reply
<1>11. /\ lun' = [lun EXCEPT !.sense = s1, !.attention = v.attention,
                    !.unmounted = @ \/ Ejects(v.ok), !.prevent = Prevents(v.ok)]
       /\ sz' = [Checked EXCEPT !.residue = @ - reply]
       /\ ibuf' = [i \in 1..reply |-> REPLY]
       /\ io' = IF moves
                THEN [lba |-> cbw.lba, ulba |-> cbw.lba, req |-> sz'.cmnd,
                      todo |-> IF cbw.op = "read" THEN Whole(sz'.cmnd) ELSE sz'.cmnd,
                      flight |-> FALSE]
                ELSE NoIo
       /\ pc' = CASE moves -> cbw.op
                  [] ~moves /\ state' > NORMAL -> "top"
                  [] OTHER -> "finish"
  BY DEF Parse, v, s1, moves, reply
<1>12. lun' \in Luns /\ (cbw.op \in {"read", "write"} => lun'.unmounted = lun.unmounted)
  <2>1. PICK u \in BOOLEAN : u = (lun.unmounted \/ Ejects(v.ok))
    OBVIOUS
  <2>2. PICK p \in BOOLEAN : p = Prevents(v.ok)
    BY <1>1 DEF Prevents, Luns
  <2>3. lun' = [lun EXCEPT !.sense = s1, !.attention = v.attention, !.unmounted = u, !.prevent = p]
    BY <1>11, <2>1, <2>2
  <2>4. lun' \in Luns /\ lun'.unmounted = u
    BY <1>1, <1>2, <1>7, <2>3 DEF Luns
  <2>5. cbw.op \in {"read", "write"} => u = lun.unmounted
    BY <2>1, <1>10, <1>1 DEF Luns
  <2> QED BY <2>4, <2>5
<1>13. sz' \in Szs /\ sz'.cmnd = Checked.cmnd /\ sz'.left = cbw.h /\ sz'.residue = cbw.h - reply
  BY <1>4, <1>5, <1>6, <1>11 DEF Szs
<1>14. ibuf' \in Seq(Int)
  BY <1>6, <1>11 DEF REPLY
<1>15. /\ io' \in Ios
       /\ moves => /\ io'.req = sz'.cmnd /\ io'.todo <= sz'.cmnd
                   /\ cbw.op = "write" => io'.todo = sz'.cmnd
  <2>1. PICK m \in Nat : m = sz'.cmnd
    BY <1>13 DEF Szs
  <2>2. CASE moves
    <3>1. m > 0
      BY <1>9, <1>13, <2>1, <2>2
    <3>2. PICK t \in Nat : t <= m /\ t = IF cbw.op = "read" THEN Whole(m) ELSE m
      BY <3>1 DEF Whole
    <3>3. io' = [lba |-> cbw.lba, ulba |-> cbw.lba, req |-> m, todo |-> t, flight |-> FALSE]
      BY <1>11, <2>1, <2>2, <3>2
    <3>4. cbw.lba \in 0 .. NumSectors /\ cbw.lba \in Nat
      BY <1>8, <2>2, Consts
    <3>5. io' \in Ios /\ io'.req = m /\ io'.todo = t
      BY <3>3, <3>4 DEF Ios
    <3> QED BY <2>1, <3>2, <3>5
  <2>3. CASE ~moves
    BY <1>11, <2>3, Consts DEF Ios, NoIo
  <2> QED BY <2>2, <2>3
<1>16. pc' \in {"read", "write", "top", "finish"} /\ (pc' \in {"read", "write"} => moves /\ pc' = cbw.op)
  BY <1>9, <1>11
<1>17. state' \in 0 .. 4 /\ out' \in Outs /\ host' \in Hosts /\ (host' = host \/ host'.ph = "idle")
  BY Ep0OK DEF Parse, BoundsInv, GadgetTypes, PROTOCOL_RESET
<1>18. GadgetTypes'
  BY <1>12, <1>13, <1>14, <1>15, <1>16, <1>17 DEF Parse, BoundsInv, GadgetTypes, Places
<1>19. cbw.op \in {"read", "write"} => reply = 0
  BY DEF reply, ReplyLen, Replies
<1>21. sz'.cmnd <= cbw.h /\ sz'.cmnd \in Nat
  BY <1>4, <1>5, <1>13
<1>22. moves => /\ io'.todo <= sz'.residue /\ io'.req <= sz'.left
                /\ cbw.op = "write" => io'.req <= io'.todo
  <2>1. io'.todo \in Nat
    BY <1>15 DEF Ios
  <2> QED BY <1>4, <1>9, <1>13, <1>15, <1>19, <1>21, <2>1
<1>23. ro' = ro /\ wrote' = wrote
  BY DEF Parse
<1>24. Loops'
  <2>1. moves => ~lun'.unmounted
    BY <1>8, <1>9, <1>12
  <2>2. moves /\ pc' = "write" => ~ro
    BY <1>8, <1>16
  <2>3. host'.ph = "dataout" => host'.left > 0
    BY <1>17 DEF BoundsInv, Loops
  <2> QED BY <1>16, <1>22, <1>23, <2>1, <2>2, <2>3 DEF Loops
<1>25. MediumGuarded'
  BY <1>1, <1>23 DEF MediumGuarded
<1> QED BY <1>18, <1>24, <1>25 DEF BoundsInv

LEMMA ReadAmountOK ==
  ASSUME BoundsInv, pc = "read"
  PROVE  /\ ReadAmount \in Nat /\ ReadAmount <= io.todo /\ io.lba + ReadAmount <= NumSectors
         /\ io.lba \in Nat /\ io.todo \in Nat /\ io.todo <= sz.residue /\ sz.residue \in Nat
         /\ sz \in Szs /\ io \in Ios /\ lun \in Luns /\ ReadAmount <= InMax
<1>1. sz \in Szs /\ io \in Ios /\ lun \in Luns /\ io.todo <= sz.residue
  BY DEF BoundsInv, GadgetTypes, Loops
<1>2. io.lba \in 0 .. NumSectors /\ io.todo \in Nat /\ sz.residue \in Nat
  BY <1>1 DEF Ios, Szs
<1>3. /\ ReadAmount \in Nat /\ ReadAmount <= io.todo /\ io.lba + ReadAmount <= NumSectors
      /\ ReadAmount <= InMax
  BY <1>2, Consts DEF ReadAmount, Least
<1> QED BY <1>1, <1>2, <1>3

LEMMA ReadBounds ==
  ASSUME BoundsInv, NEW ok \in BOOLEAN, ReadChunk(ok) PROVE BoundsInv'
<1> DEFINE chunk == [i \in 1 .. ReadAmount |-> io.lba + i - 1]
<1>1. pc = "read" /\ UNCHANGED <<xusb, ro, state, cbw, out, host, plug, ended, wrote, got, csw>>
  BY DEF ReadChunk
<1>2. /\ ReadAmount \in Nat /\ ReadAmount <= io.todo /\ io.lba + ReadAmount <= NumSectors
      /\ io.lba \in Nat /\ io.todo \in Nat /\ io.todo <= sz.residue /\ sz.residue \in Nat
      /\ sz \in Szs /\ io \in Ios /\ lun \in Luns
  BY <1>1, ReadAmountOK
<1>3. chunk \in Seq(Int)
  BY <1>2
<1>4. /\ inq' \in Seq(Items) /\ txc' \in 0 .. 1 /\ ibuf' \in Seq(Int)
  <2>1. inq \in Seq(Items) /\ txc \in 0 .. 1 /\ ibuf \in Seq(Int)
    BY DEF BoundsInv, GadgetTypes
  <2>2. CASE ReadAmount # 0 /\ ok /\ io.todo # ReadAmount
    <3>1. Queue([k |-> "card", units |-> chunk]) /\ ibuf' = ibuf
      BY <2>2 DEF ReadChunk
    <3>2. [k |-> "card", units |-> chunk] \in Items
      BY <1>3 DEF Items
    <3>3. PICK x \in Items : x = [k |-> "card", units |-> chunk]
      BY <3>2
    <3>4. Queue(x)
      BY <3>1, <3>3
    <3> QED BY <2>1, <3>1, <3>4, QueueOK
  <2>3. CASE ~(ReadAmount # 0 /\ ok /\ io.todo # ReadAmount)
    <3>1. inq' = inq /\ txc' = txc /\ ibuf' \in {<<>>, chunk}
      BY <2>3 DEF ReadChunk
    <3>2. <<>> \in Seq(Int)
      OBVIOUS
    <3> HIDE DEF chunk
    <3> QED BY <2>1, <3>1, <3>2, <1>3
  <2> QED BY <2>2, <2>3
<1>5. lun' \in Luns /\ lun'.unmounted = lun.unmounted
  <2>1. \E z \in SenseCodes : lun' = [lun EXCEPT !.sense = z] \/ lun' = lun
    BY DEF ReadChunk, SenseCodes
  <2> QED BY <2>1, <1>2 DEF Luns
<1>6. /\ sz' \in Szs /\ sz'.residue >= 0 /\ io' \in Ios
      /\ \/ sz' = sz /\ io'.todo = io.todo
         \/ sz'.residue = sz.residue - ReadAmount /\ io'.todo = io.todo - ReadAmount
  <2>1. CASE ReadAmount = 0
    BY <2>1, <1>2 DEF ReadChunk, Szs
  <2>2. CASE ReadAmount # 0 /\ ~ok
    <3>1. sz' = sz /\ io' = [io EXCEPT !.flight = FALSE]
      BY <2>2 DEF ReadChunk
    <3>2. io' \in Ios /\ io'.todo = io.todo
      BY <3>1, <1>2 DEF Ios
    <3> QED BY <3>1, <3>2, <1>2
  <2>3. CASE ReadAmount # 0 /\ ok
    <3>2. PICK a \in Nat : a = ReadAmount
      BY <1>2
    <3>1. /\ sz' = [sz EXCEPT !.residue = @ - a]
          /\ io' = [io EXCEPT !.lba = @ + a, !.todo = @ - a, !.flight = io.todo > a]
      BY <2>3, <3>2 DEF ReadChunk
    <3>3. \E f \in BOOLEAN : io' = [io EXCEPT !.lba = @ + a, !.todo = @ - a, !.flight = f]
      <4>1. CASE io.todo > a
        BY <3>1, <4>1
      <4>2. CASE ~(io.todo > a)
        <5>1. (io.todo > a) = FALSE
          BY <4>2
        <5> QED BY <3>1, <5>1
      <4> QED BY <4>1, <4>2
    <3>4. sz' \in Szs /\ sz'.residue = sz.residue - a
      BY <3>1, <3>2, <1>2 DEF Szs
    <3>5. io' \in Ios /\ io'.todo = io.todo - a
      <4>1. PICK l \in 0 .. NumSectors : l = io.lba + a
        BY <3>2, <1>2, Consts
      <4>2. PICK t \in Nat : t = io.todo - a
        BY <3>2, <1>2
      <4>3. PICK f \in BOOLEAN : io' = [io EXCEPT !.lba = l, !.todo = t, !.flight = f]
        BY <3>3, <4>1, <4>2
      <4>4. io' \in Ios /\ io'.todo = t
        BY <4>3, <1>2 DEF Ios
      <4> QED BY <4>2, <4>4
    <3> QED BY <3>2, <3>4, <3>5, <1>2
  <2> QED BY <2>1, <2>2, <2>3
<1>7. pc' \in {"read", "finish", "top"}
  BY <1>1 DEF ReadChunk, Parsed
<1>8. GadgetTypes'
  BY <1>1, <1>4, <1>5, <1>6, <1>7 DEF BoundsInv, GadgetTypes, Places
<1>9. io'.todo <= sz'.residue
  BY <1>2, <1>6
<1>10. Loops'
  BY <1>1, <1>7, <1>9 DEF BoundsInv, Loops
<1>11. MediumGuarded'
  BY <1>1, <1>5 DEF BoundsInv, MediumGuarded
<1> QED BY <1>8, <1>10, <1>11 DEF BoundsInv

\* What a transfer from the host leaves: at most what was asked for, and a host
\* that is in step.
LEMMA ReceivedOK ==
  ASSUME BoundsInv, NEW n \in Nat, n > 0, NEW r \in Received(n)
  PROVE  /\ r.actual \in 0 .. n /\ r.h \in Hosts /\ (r.h.ph = "dataout" => r.h.left > 0)
         /\ r.st \in {"ok", "error"}
<1>1. host \in Hosts /\ (host.ph = "dataout" => host.left > 0)
  BY DEF BoundsInv, GadgetTypes, Loops
<1> DEFINE all == [st |-> "ok", actual |-> n, buf |-> [i \in 1..n |-> HOST],
                   h |-> [host EXCEPT !.left = @ - n, !.ph = IF host.left = n THEN "csw" ELSE @]]
           cut(k) == [st |-> "ok", actual |-> IF xusb THEN k ELSE n,
                      buf |-> [i \in 1..n |-> IF i <= k THEN HOST ELSE STALE],
                      h |-> [host EXCEPT !.left = 0, !.ph = "csw", !.short = TRUE]]
           lost == [st |-> "error", actual |-> 0, buf |-> <<>>, h |-> host]
<1>2. CASE r = lost
  BY <1>1, <1>2
<1>3. CASE r = all /\ host.ph = "dataout" /\ host.left >= n
  <2>1. PICK q \in Phases : q = IF host.left = n THEN "csw" ELSE host.ph
    BY <1>3 DEF Phases
  <2>2. PICK m \in Nat : m = host.left - n
    BY <1>1, <1>3 DEF Hosts
  <2>3. r.h = [host EXCEPT !.left = m, !.ph = q] /\ r.actual = n /\ r.st = "ok"
    BY <1>3, <2>1, <2>2
  <2>4. r.h \in Hosts /\ r.h.left = m /\ r.h.ph = q
    BY <1>1, <2>3 DEF Hosts
  <2>5. q = "dataout" => m > 0
    BY <1>1, <1>3, <2>1, <2>2 DEF Hosts
  <2> QED BY <2>3, <2>4, <2>5
<1>4. ASSUME NEW k \in 0 .. n - 1, r = cut(k)
      PROVE  /\ r.actual \in 0 .. n /\ r.h \in Hosts /\ (r.h.ph = "dataout" => r.h.left > 0)
             /\ r.st \in {"ok", "error"}
  <2>1. r.h = [host EXCEPT !.left = 0, !.ph = "csw", !.short = TRUE] /\ r.st = "ok"
        /\ r.actual \in {k, n}
    BY <1>4
  <2>2. r.h \in Hosts /\ r.h.ph = "csw"
    <3>1. PICK b \in BOOLEAN : b = TRUE
      OBVIOUS
    <3>2. r.h = [host EXCEPT !.left = 0, !.ph = "csw", !.short = b]
      BY <2>1, <3>1
    <3>3. "csw" \in Phases /\ 0 \in Nat
      BY DEF Phases
    <3> QED BY <1>1, <3>2, <3>3 DEF Hosts
  <2> QED BY <2>1, <2>2
<1>5. r = lost \/ (r = all /\ host.ph = "dataout" /\ host.left >= n)
        \/ \E k \in 0 .. n - 1 : r = cut(k)
  BY DEF Received
<1> HIDE DEF all, cut, lost
<1> QED BY <1>2, <1>3, <1>4, <1>5

LEMMA WriteBounds ==
  ASSUME BoundsInv, NEW ok \in BOOLEAN, WriteChunk(ok) PROVE BoundsInv'
<1>1. /\ pc = "write" /\ io.req > 0
      /\ UNCHANGED <<xusb, ro, state, cbw, out, ibuf, inq, txc, plug, ended, got, csw>>
  BY DEF WriteChunk
<1>2. /\ sz \in Szs /\ io \in Ios /\ lun \in Luns /\ host \in Hosts
      /\ io.req <= io.todo /\ io.todo <= sz.residue /\ io.req <= sz.left
      /\ ~ro /\ ~lun.unmounted /\ (host.ph = "dataout" => host.left > 0)
  BY <1>1 DEF BoundsInv, GadgetTypes, Loops
<1>3. /\ io.lba \in 0 .. NumSectors /\ io.req \in Nat /\ io.todo \in Nat /\ io.ulba \in Nat
      /\ sz.residue \in Nat /\ sz.left \in Nat
  BY <1>2 DEF Ios, Szs
<1>4. CASE io.ulba >= NumSectors
  <2>1. /\ lun' = [lun EXCEPT !.sense = "range"] /\ pc' \in {"finish", "top"}
        /\ UNCHANGED <<sz, io, host, wrote>>
    BY <1>4 DEF WriteChunk, Parsed
  <2>2. lun' \in Luns /\ lun'.unmounted = lun.unmounted
    BY <1>2, <2>1 DEF Luns, SenseCodes
  <2>3. GadgetTypes'
    BY <1>1, <2>1, <2>2 DEF BoundsInv, GadgetTypes, Places
  <2>4. Loops' /\ MediumGuarded'
    BY <1>1, <2>1, <2>2 DEF BoundsInv, Loops, MediumGuarded
  <2> QED BY <2>3, <2>4 DEF BoundsInv
<1>5. CASE ~(io.ulba >= NumSectors)
  <2> DEFINE n == Least(io.req, OutMax)
             whole == IF n = io.req THEN Whole(n) ELSE n
             a(r) == Least(Least(r.actual, NumSectors - io.lba), whole)
             w(r) == IF ok THEN a(r) ELSE 0
  <2>1. PICK r \in Received(n) :
               /\ host' = r.h
               /\ wrote' = wrote \cup {<<io.lba + i - 1, r.buf[i]>> : i \in 1..w(r)}
               /\ io' = [io EXCEPT !.ulba = @ + whole, !.req = @ - n,
                                   !.lba = @ + w(r), !.todo = @ - w(r)]
               /\ sz' = [sz EXCEPT !.left = @ - n, !.residue = @ - w(r),
                                   !.short = ok /\ ShortPacket(r, n)]
               /\ lun' = [lun EXCEPT !.sense = CASE r.st # "ok" -> "comm"
                                                 [] r.st = "ok" /\ ~ok -> "write"
                                                 [] OTHER -> @]
               /\ IF lun'.sense # "none" \/ sz'.short \/ io'.todo = 0
                  THEN Parsed ELSE pc' = pc
    BY <1>5 DEF WriteChunk
  <2>2. n \in Nat /\ n > 0 /\ n <= io.req
    BY <1>1, <1>3, Consts DEF Least
  <2>3. r.actual \in 0 .. n /\ host' \in Hosts /\ (host'.ph = "dataout" => host'.left > 0)
    <3>1. PICK m \in Nat : m = n
      BY <2>2
    <3> HIDE DEF n
    <3> QED BY <2>1, <2>2, <3>1, ReceivedOK
  <2>15. whole \in 0 .. n
    BY <2>2 DEF Whole
  <2> HIDE DEF whole
  <2>4. a(r) \in 0 .. n /\ io.lba + a(r) <= NumSectors
    <3> HIDE DEF n
    <3> QED BY <1>3, <2>2, <2>3, <2>15, Consts DEF Least
  <2>5. PICK b \in 0 .. n : b = w(r) /\ io.lba + b <= NumSectors
    BY <1>3, <2>2, <2>4
  <2>6. /\ wrote' = wrote \cup {<<io.lba + i - 1, r.buf[i]>> : i \in 1..b}
        /\ io' = [io EXCEPT !.ulba = @ + whole, !.req = @ - n, !.lba = @ + b, !.todo = @ - b]
        /\ sz' = [sz EXCEPT !.left = @ - n, !.residue = @ - b, !.short = ok /\ ShortPacket(r, n)]
    BY <2>1, <2>5
  <2>7. lun' \in Luns /\ lun'.unmounted = lun.unmounted
    <3>1. PICK z \in SenseCodes : z = CASE r.st # "ok" -> "comm"
                                        [] r.st = "ok" /\ ~ok -> "write"
                                        [] OTHER -> lun.sense
      BY <1>2 DEF SenseCodes, Luns
    <3>2. lun' = [lun EXCEPT !.sense = z]
      BY <2>1, <3>1
    <3> QED BY <1>2, <3>2 DEF Luns
  <2>8. pc' \in {"write", "finish", "top"}
    BY <1>1, <2>1 DEF Parsed
  <2> HIDE DEF n, a, w
  <2>9. io' \in Ios /\ io'.req = io.req - n /\ io'.todo = io.todo - b
    <3>1. PICK u \in Nat : u = io.ulba + whole
      BY <1>3, <2>2, <2>15
    <3>2. PICK q \in Nat : q = io.req - n
      BY <1>3, <2>2
    <3>3. PICK l \in 0 .. NumSectors : l = io.lba + b
      BY <1>3, <2>2, <2>5, Consts
    <3>4. PICK t \in Nat : t = io.todo - b
      BY <1>2, <1>3, <2>2, <2>5
    <3>5. io' = [io EXCEPT !.ulba = u, !.req = q, !.lba = l, !.todo = t]
      BY <2>6, <3>1, <3>2, <3>3, <3>4
    <3>6. io' \in Ios /\ io'.req = q /\ io'.todo = t
      BY <1>2, <3>5 DEF Ios
    <3> QED BY <3>2, <3>4, <3>6
  <2>10. sz' \in Szs /\ sz'.left = sz.left - n /\ sz'.residue = sz.residue - b
    <3>1. PICK s \in BOOLEAN : s = (ok /\ ShortPacket(r, n))
      OBVIOUS
    <3>2. PICK l \in Nat : l = sz.left - n
      BY <1>2, <1>3, <2>2
    <3>3. PICK q \in Nat : q = sz.residue - b
      BY <1>2, <1>3, <2>2, <2>5
    <3>4. sz' = [sz EXCEPT !.left = l, !.residue = q, !.short = s]
      BY <2>6, <3>1, <3>2, <3>3
    <3>5. sz' \in Szs /\ sz'.left = l /\ sz'.residue = q
      BY <1>2, <3>4 DEF Szs
    <3> QED BY <3>2, <3>3, <3>5
  <2>11. GadgetTypes'
    BY <1>1, <2>3, <2>7, <2>8, <2>9, <2>10 DEF BoundsInv, GadgetTypes, Places
  <2>12. io'.req <= io'.todo /\ io'.todo <= sz'.residue /\ io'.req <= sz'.left
    BY <1>2, <1>3, <2>2, <2>5, <2>9, <2>10
  <2>13. Loops'
    BY <1>1, <1>2, <2>3, <2>7, <2>8, <2>12 DEF Loops
  <2>14. MediumGuarded'
    <3>1. \A x \in wrote : x[1] \in 0 .. NumSectors - 1
      BY DEF BoundsInv, MediumGuarded
    <3>2. \A i \in 1 .. b : io.lba + i - 1 \in 0 .. NumSectors - 1
      BY <1>3, <2>2, <2>5, Consts
    <3>3. \A x \in wrote' : x[1] \in 0 .. NumSectors - 1
      BY <2>6, <3>1, <3>2
    <3> QED BY <1>1, <1>2, <2>7, <3>3 DEF MediumGuarded
  <2> QED BY <2>11, <2>13, <2>14 DEF BoundsInv
<1> QED BY <1>4, <1>5

\* Transfers wiped or padded are transfers.
LEMMA WipedOK ==
  ASSUME BoundsInv, NEW k \in {"card", "data"}
  PROVE  Wiped(k) \in Seq(Items) /\ Len(Wiped(k)) = Len(inq)
<1>1. inq \in Seq(Items)
  BY DEF BoundsInv, GadgetTypes
<1>2. \A x \in Items : x.k = k => [x EXCEPT !.units = [i \in DOMAIN @ |-> ZERO]] \in Items
  <2> SUFFICES ASSUME NEW x \in Items, x.k = k
               PROVE  [x EXCEPT !.units = [i \in DOMAIN @ |-> ZERO]] \in Items
    OBVIOUS
  <2>1. x \in [k : {"card", "data"}, units : Seq(Int)]
    BY DEF Items
  <2>2. x.units \in Seq(Int)
    BY <2>1
  <2>3. [i \in DOMAIN x.units |-> ZERO] \in Seq(Int)
    BY <2>2 DEF ZERO
  <2> QED BY <2>1, <2>3 DEF Items
<1>3. \A j \in 1 .. Len(inq) : inq[j] \in Items
  BY <1>1
<1>4. PICK w : w = Wiped(k)
  OBVIOUS
<1>5. w = [j \in 1 .. Len(inq) |-> w[j]] /\ \A j \in 1 .. Len(inq) : w[j] \in Items
  BY <1>2, <1>3, <1>4 DEF Wiped
<1> QED BY <1>1, <1>4, <1>5

LEMMA PaddedOK ==
  ASSUME BoundsInv, NEW u \in Seq(Int), NEW m \in Int
  PROVE  /\ InKind \in {"card", "data"} /\ [k |-> InKind, units |-> u \o Zeros(m)] \in Items
         /\ Zeros(m) \in Seq(Int) /\ [k |-> InKind, units |-> Zeros(m)] \in Items
         /\ m \in Nat => Len(Zeros(m)) = m
<1>1. InKind \in {"card", "data"}
  BY DEF InKind
<1>4. Zeros(m) \in Seq(Int) /\ (m \in Nat => Len(Zeros(m)) = m)
  <2>1. CASE m \in Nat
    <3>1. [i \in 1 .. m |-> ZERO] \in Seq(Int) /\ Len([i \in 1 .. m |-> ZERO]) = m
      BY <2>1 DEF ZERO
    <3> QED BY <3>1 DEF Zeros
  <2>2. CASE m < 0
    <3>1. 1 .. m = {}
      BY <2>2
    <3>2. [i \in 1 .. m |-> ZERO] = <<>>
      BY <3>1
    <3>3. <<>> \in Seq(Int) /\ m \notin Nat
      BY <2>2
    <3> QED BY <3>2, <3>3 DEF Zeros
  <2> QED BY <2>1, <2>2
<1>2. PICK z \in Seq(Int) : z = Zeros(m) /\ (m \in Nat => Len(z) = m)
  BY <1>4
<1>3. u \o z \in Seq(Int)
  OBVIOUS
<1> QED BY <1>1, <1>2, <1>3 DEF Items

\* The amounts _pad_with_zeros counts with.
LEMMA PadCounts ==
  ASSUME BoundsInv
  PROVE  /\ Len(ibuf) + sz.residue \in Nat /\ Least(Len(ibuf) + sz.residue, EpMax) \in Nat
         /\ Len(ibuf) + sz.residue - Least(Len(ibuf) + sz.residue, EpMax) \in Nat
         /\ sz.left \in Nat /\ sz.residue \in Nat /\ Len(ibuf) \in Nat
         /\ Least(sz.left, EpMax) \in Nat /\ sz.left - Least(sz.left, EpMax) \in Nat
         /\ sz \in Szs /\ ibuf \in Seq(Int)
<1>1. ibuf \in Seq(Int) /\ sz.residue \in Nat /\ sz.left \in Nat /\ sz \in Szs
  BY DEF BoundsInv, GadgetTypes, Szs
<1>2. PICK a \in Nat : a = Len(ibuf)
  BY <1>1
<1>3. PICK b \in Nat : b = sz.residue
  BY <1>1
<1>4. a + b \in Nat /\ Least(a + b, EpMax) \in Nat /\ a + b - Least(a + b, EpMax) \in Nat
  BY Consts DEF Least
<1>5. Least(sz.left, EpMax) \in Nat /\ sz.left - Least(sz.left, EpMax) \in Nat
  BY <1>1, Consts DEF Least
<1> QED BY <1>1, <1>2, <1>3, <1>4, <1>5

LEMMA FinishInBounds == ASSUME BoundsInv, FinishIn PROVE BoundsInv'
<1> DEFINE all == Len(ibuf) + sz.residue
           nsend == IF sz.residue = 0 THEN all ELSE Least(all, EpMax)
           item == [k |-> InKind, units |-> ibuf \o Zeros(nsend - Len(ibuf))]
<1>1. /\ state' \in 0 .. 4 /\ out' \in Outs /\ host' \in Hosts
      /\ (host' = host \/ host'.ph = "idle")
  BY Ep0OK DEF FinishIn, BoundsInv, GadgetTypes, PROTOCOL_RESET
<1>2. /\ sz' = [sz EXCEPT !.left = IF sz.residue = 0 THEN @ ELSE all - nsend]
      /\ Queue(item) \/ (inq' = Append(Wiped("card"), item) /\ txc' = 1)
  BY DEF FinishIn
<1>3. nsend - Len(ibuf) \in Int
  BY PadCounts
<1>4. PICK x \in Items : x = item
  <2>1. PICK m \in Int : m = nsend - Len(ibuf)
    BY <1>3
  <2> HIDE DEF nsend
  <2> QED BY <2>1, PaddedOK, PadCounts
<1>5. sz' \in Szs
  <2>1. PICK l \in Nat : l = IF sz.residue = 0 THEN sz.left ELSE all - nsend
    BY PadCounts
  <2>2. sz' = [sz EXCEPT !.left = l]
    BY <1>2, <2>1
  <2> QED BY <2>2, PadCounts DEF Szs
<1> HIDE DEF item
<1>6. inq' \in Seq(Items) /\ txc' \in 0 .. 1
  <2>1. CASE Queue(item)
    BY <2>1, <1>4, QueueOK
  <2>2. CASE inq' = Append(Wiped("card"), item) /\ txc' = 1
    <3>1. PICK w \in Seq(Items) : w = Wiped("card")
      BY WipedOK
    <3> QED BY <2>2, <1>4, <3>1
  <2> QED BY <1>2, <2>1, <2>2
<1>7. GadgetTypes'
  BY <1>1, <1>5, <1>6 DEF FinishIn, BoundsInv, GadgetTypes, Places
<1>8. Loops' /\ MediumGuarded'
  BY <1>1 DEF FinishIn, BoundsInv, Loops, MediumGuarded
<1> QED BY <1>7, <1>8 DEF BoundsInv

LEMMA PadMoreBounds == ASSUME BoundsInv, PadMore PROVE BoundsInv'
<1> DEFINE nsend == Least(sz.left, EpMax)
           item == [k |-> InKind, units |-> Zeros(nsend)]
<1>1. /\ sz' = [sz EXCEPT !.left = @ - nsend]
      /\ Queue(item) \/ (inq' = Append(Wiped(InKind), item) /\ txc' = 1)
  BY DEF PadMore
<1>2. PICK x \in Items : x = item
  <2>1. PICK m \in Int : m = nsend
    BY PadCounts
  <2> HIDE DEF nsend
  <2> QED BY <2>1, PaddedOK, PadCounts
<1>3. sz' \in Szs
  <2>1. PICK l \in Nat : l = sz.left - nsend
    BY PadCounts
  <2>2. sz' = [sz EXCEPT !.left = l]
    BY <1>1, <2>1
  <2> QED BY <2>2, PadCounts DEF Szs
<1> HIDE DEF item
<1>4. inq' \in Seq(Items) /\ txc' \in 0 .. 1
  <2>1. CASE Queue(item)
    BY <2>1, <1>2, QueueOK
  <2>2. CASE inq' = Append(Wiped(InKind), item) /\ txc' = 1
    <3>1. PICK w \in Seq(Items) : w = Wiped(InKind)
      BY WipedOK DEF InKind
    <3> QED BY <2>2, <1>2, <3>1
  <2> QED BY <1>1, <2>1, <2>2
<1>5. GadgetTypes'
  BY <1>3, <1>4 DEF PadMore, BoundsInv, GadgetTypes
<1>6. Loops' /\ MediumGuarded'
  BY DEF PadMore, BoundsInv, Loops, MediumGuarded
<1> QED BY <1>5, <1>6 DEF BoundsInv

LEMMA FinishOutBounds == ASSUME BoundsInv, FinishOut PROVE BoundsInv'
<1> DEFINE drains == cbw.dir = "out" /\ sz.residue > 0 /\ ~sz.short /\ sz.left > 0
           n == Least(sz.left, EpMax)
<1>1. sz \in Szs /\ sz.left \in Nat
  BY DEF BoundsInv, GadgetTypes, Szs
<1>2. drains => n \in Nat /\ n > 0 /\ n <= sz.left
  BY <1>1, Consts DEF Least
<1>3. host' \in Hosts /\ (host'.ph = "dataout" => host'.left > 0)
  <2>1. CASE drains /\ ~ResetSeen
    <3>1. PICK r \in Received(n) : host' = r.h
      BY <2>1 DEF FinishOut
    <3>2. PICK m \in Nat : m = n /\ m > 0
      BY <2>1, <1>2
    <3> HIDE DEF n
    <3> QED BY <3>1, <3>2, ReceivedOK
  <2>2. CASE ~(drains /\ ~ResetSeen)
    <3>1. host' = HostEp0
      BY <2>2 DEF FinishOut
    <3> QED BY <3>1, Ep0OK DEF BoundsInv, Loops
  <2> QED BY <2>1, <2>2
<1>4. sz' \in Szs
  <2>1. sz' = sz \/ (drains /\ sz' = [sz EXCEPT !.left = @ - n])
    BY DEF FinishOut
  <2> HIDE DEF drains, n
  <2> QED BY <1>1, <1>2, <2>1 DEF Szs
<1>5. state' \in 0 .. 4 /\ out' \in Outs
  <2>1. AfterEp0 \in 0 .. 4
    BY Ep0OK DEF BoundsInv, GadgetTypes, PROTOCOL_RESET
  <2>2. Raise(AfterEp0, ABORT_BULK_OUT) \in 0 .. 4
    BY <2>1, RaiseOK DEF ABORT_BULK_OUT
  <2> QED BY <2>1, <2>2, Ep0OK DEF FinishOut
<1>6. inq' \in Seq(Items) /\ txc' \in 0 .. 1 /\ pc' \in {"top", "cswwait"}
  <2>1. CASE state' > NORMAL
    BY <2>1 DEF FinishOut, BoundsInv, GadgetTypes
  <2>2. CASE ~(state' > NORMAL)
    <3>1. SendStatus
      BY <2>2 DEF FinishOut
    <3> QED BY <3>1, SendOK
  <2> QED BY <2>1, <2>2
<1>7. UNCHANGED <<xusb, ro, cbw, lun, io, ibuf, plug, ended, wrote, got, csw>>
  BY DEF FinishOut
<1>8. GadgetTypes'
  BY <1>3, <1>4, <1>5, <1>6, <1>7 DEF BoundsInv, GadgetTypes, Places
<1>9. Loops' /\ MediumGuarded'
  BY <1>3, <1>6, <1>7 DEF BoundsInv, Loops, MediumGuarded
<1> QED BY <1>8, <1>9 DEF BoundsInv

LEMMA LastSentBounds == ASSUME BoundsInv, LastSent PROVE BoundsInv'
<1>1. inq' \in Seq(Items) /\ txc' \in 0 .. 1 /\ pc' \in {"top", "cswwait"}
  <2>1. CASE state > NORMAL
    <3>1. inq' \in {inq, <<>>} /\ txc' = txc /\ pc' = "top"
      BY <2>1 DEF LastSent
    <3>2. <<>> \in Seq(Items)
      OBVIOUS
    <3> QED BY <3>1, <3>2 DEF BoundsInv, GadgetTypes
  <2>2. CASE ~(state > NORMAL)
    <3>1. SendStatus
      BY <2>2 DEF LastSent
    <3> QED BY <3>1, SendOK
  <2> QED BY <2>1, <2>2
<1> QED BY <1>1 DEF LastSent, BoundsInv, GadgetTypes, Loops, MediumGuarded, Places

LEMMA StatusSentBounds == ASSUME BoundsInv, StatusSent PROVE BoundsInv'
<1>1. inq' \in Seq(Items)
  <2>1. inq' \in {inq, <<>>}
    BY DEF StatusSent
  <2>2. <<>> \in Seq(Items)
    OBVIOUS
  <2> QED BY <2>1, <2>2 DEF BoundsInv, GadgetTypes
<1> QED BY <1>1 DEF StatusSent, BoundsInv, GadgetTypes, Loops, MediumGuarded, Places

LEMMA Ep0WaitBounds == ASSUME BoundsInv, XusbEp0 \/ Usb2Ep0InFinish PROVE BoundsInv'
<1>1. host \in Hosts /\ out \in Outs
  BY DEF BoundsInv, GadgetTypes
<1>2. host' \in Hosts /\ host'.ph = "idle"
  BY <1>1 DEF XusbEp0, Usb2Ep0InFinish, Hosts, Phases
<1>3. out' \in Outs
  BY <1>1 DEF XusbEp0, Usb2Ep0InFinish, Outs
<1>4. UNCHANGED <<xusb, ro, pc, state, cbw, sz, lun, io, ibuf, inq, txc, plug, ended, wrote>>
  BY DEF XusbEp0, Usb2Ep0InFinish
<1> QED BY <1>2, <1>3, <1>4 DEF BoundsInv, GadgetTypes, Loops, MediumGuarded

LEMMA HostTakesBounds == ASSUME BoundsInv, HostTakes PROVE BoundsInv'
<1>1. host \in Hosts /\ inq \in Seq(Items) /\ txc \in 0 .. 1
  BY DEF BoundsInv, GadgetTypes
<1>2. inq' \in Seq(Items) /\ txc' \in 0 .. 1
  BY <1>1 DEF HostTakes
<1>3. host' \in Hosts /\ host'.ph # "dataout"
  <2>1. CASE host.ph = "datain"
    <3> DEFINE x == Head(inq)
               u == IF x.k = "csw" THEN <<STALE>> ELSE x.units
               k == Least(Len(u), host.left)
    <3>1. x \in Items
      BY <1>1 DEF HostTakes
    <3>2. u \in Seq(Int)
      BY <3>1 DEF Items, STALE
    <3>3. k \in Nat /\ k <= host.left /\ host.left \in Nat
      <4>1. Len(u) \in Nat /\ host.left \in Nat
        BY <1>1, <3>2 DEF Hosts
      <4> HIDE DEF u
      <4> QED BY <4>1 DEF Least
    <3>4. host' = [host EXCEPT !.left = @ - k,
                     !.ph = IF x.k = "csw" \/ u = <<>> \/ k = host.left THEN "csw" ELSE @]
      BY <2>1 DEF HostTakes
    <3>5. PICK q \in Phases : q = (IF x.k = "csw" \/ u = <<>> \/ k = host.left THEN "csw"
                                   ELSE host.ph) /\ q # "dataout"
      BY <2>1 DEF Phases
    <3> HIDE DEF k, u, x
    <3>6. PICK l \in Nat : l = host.left - k
      BY <3>3
    <3>7. host' = [host EXCEPT !.left = l, !.ph = q]
      BY <3>4, <3>5, <3>6
    <3> QED BY <1>1, <3>5, <3>7 DEF Hosts
  <2>2. CASE host.ph # "datain"
    <3>1. \E q \in {"idle", "lost"} : host' = [host EXCEPT !.ph = q]
      BY <2>2 DEF HostTakes
    <3> QED BY <1>1, <3>1 DEF Hosts, Phases
  <2> QED BY <2>1, <2>2
<1>4. UNCHANGED <<xusb, ro, pc, state, cbw, sz, lun, out, io, ibuf, plug, ended, wrote>>
  BY DEF HostTakes
<1> QED BY <1>2, <1>3, <1>4 DEF BoundsInv, GadgetTypes, Loops, MediumGuarded

LEMMA HostGoesBounds == ASSUME BoundsInv, HostResets \/ HostLeaves PROVE BoundsInv'
<1>1. host \in Hosts
  BY DEF BoundsInv, GadgetTypes
<1>2. host' \in Hosts /\ host'.ph # "dataout"
  <2>1. CASE HostResets
    <3>1. PICK n \in 0 .. MaxResets : n = host.resets + 1
      BY <1>1, <2>1, Consts DEF HostResets, Hosts
    <3>2. host' = [host EXCEPT !.ph = "reset", !.resets = n, !.left = 0]
      BY <2>1, <3>1 DEF HostResets
    <3> QED BY <1>1, <3>2 DEF Hosts, Phases
  <2>2. CASE HostLeaves
    BY <2>2, Consts DEF HostLeaves, Hosts, Phases
  <2> QED BY <2>1, <2>2
<1>3. UNCHANGED <<xusb, ro, pc, state, cbw, sz, lun, out, io, ibuf, inq, txc, ended, wrote>>
  BY DEF HostResets, HostLeaves
<1> QED BY <1>2, <1>3 DEF BoundsInv, GadgetTypes, Loops, MediumGuarded

LEMMA NextBounds == BoundsInv /\ [UmsNext]_umsVars => BoundsInv'
<1> SUFFICES ASSUME BoundsInv, [UmsNext]_umsVars PROVE BoundsInv'
  OBVIOUS
<1>1. CASE Start \/ Buttons \/ HandleException \/ AskForCommand \/ JunkCommand \/ StaleCommand
  BY <1>1, StartBounds, ButtonsBounds, ExceptionBounds, AskBounds, JunkBounds, StaleBounds
<1>2. CASE \E st \in {"timeout", "error", "disabled"} : NoCommand(st)
  BY <1>2, NoCommandBounds
<1>3. CASE \E c \in Commands : GetNextCommand(c)
  BY <1>3, GetNextBounds
<1>4. CASE \E ok \in BOOLEAN : Parse(ok) \/ ReadChunk(ok) \/ WriteChunk(ok)
  BY <1>4, ParseBounds, ReadBounds, WriteBounds
<1>5. CASE FinishIn \/ PadMore \/ FinishOut \/ LastSent \/ StatusSent \/ XusbEp0
             \/ Usb2Ep0InFinish
  BY <1>5, FinishInBounds, PadMoreBounds, FinishOutBounds, LastSentBounds, StatusSentBounds, Ep0WaitBounds
<1>6. CASE HostTakes \/ HostResets \/ HostLeaves
  BY <1>6, HostTakesBounds, HostGoesBounds
<1>7. CASE UNCHANGED umsVars
  BY <1>7 DEF umsVars, BoundsInv, GadgetTypes, Loops, MediumGuarded
<1> QED BY <1>1, <1>2, <1>3, <1>4, <1>5, <1>6, <1>7 DEF UmsNext, Gadget

LEMMA BoundsHold == UmsSpec => []BoundsInv
<1> QED BY InitBounds, NextBounds, PTL DEF UmsSpec

\* Whatever the host asks for, sends, drops or resets, on either controller and
\* through every failure, the gadget's counts stay in range, and no write
\* leaves the exposed partition or reaches a read-only or ejected medium.
THEOREM AlwaysInBounds == UmsSpec => []StaysInBounds
<1>1. BoundsInv => StaysInBounds
  <2> SUFFICES ASSUME BoundsInv PROVE StaysInBounds
    OBVIOUS
  <2>1. UmsTypeOK
    BY DEF BoundsInv, GadgetTypes, UmsTypeOK, Places, Ends, NORMAL, TERMINATED, Szs, Luns, Outs,
           Ios, Hosts, Phases
  <2> QED BY <2>1 DEF BoundsInv, StaysInBounds
<1> QED BY <1>1, BoundsHold, PTL

----------------------------------------------------------------------------
(* The status blocks on the endpoint. *)

\* No status block is new; those left have moved up by d.
Fewer(d) == \A j \in DOMAIN inq' : StatusAt(j)' => j + d \in DOMAIN inq /\ inq'[j] = inq[j + d]

LEMMA FewerOK ==
  ASSUME NEW d \in {0, 1}, Fewer(d), BoundsInv, BoundsInv'
  PROVE  /\ NoStatus => NoStatus'
         /\ OneStatus => OneStatus'
         /\ AllCurrent => AllCurrent'
         /\ NoCurrent => NoCurrent'
         /\ NoFailure => NoFailure'
<1>1. DOMAIN inq \subseteq Int /\ DOMAIN inq' \subseteq Int
  BY DEF BoundsInv, GadgetTypes
<1>2. NoStatus => NoStatus'
  BY DEF Fewer, StatusAt, NoStatus
<1>3. OneStatus => OneStatus'
  <2> SUFFICES ASSUME OneStatus, NEW i \in DOMAIN inq', NEW j \in DOMAIN inq',
                      inq'[i].k = "csw", inq'[j].k = "csw"
               PROVE  i = j
    BY DEF OneStatus, StatusAt
  <2>1. /\ i + d \in DOMAIN inq /\ inq'[i] = inq[i + d]
        /\ j + d \in DOMAIN inq /\ inq'[j] = inq[j + d]
    BY DEF Fewer, StatusAt
  <2>2. i + d = j + d
    BY <2>1 DEF OneStatus, StatusAt
  <2>3. i \in Int /\ j \in Int /\ d \in Int
    BY <1>1
  <2>4. \A x, y, z \in Int : x + z = y + z => x = y
    OBVIOUS
  <2> HIDE DEF BoundsInv
  <2> QED BY <2>2, <2>3, <2>4
<1>4. AllCurrent => AllCurrent'
  BY DEF Fewer, StatusAt, AllCurrent
<1>5. NoCurrent => NoCurrent'
  BY DEF Fewer, StatusAt, NoCurrent
<1>6. NoFailure => NoFailure'
  BY DEF Fewer, StatusAt, NoFailure
<1> QED BY <1>2, <1>3, <1>4, <1>5, <1>6

LEMMA SameFewer == ASSUME inq' = inq \/ inq' = <<>>, BoundsInv PROVE Fewer(0)
<1>1. inq \in Seq(Items) /\ DOMAIN <<>> = {}
  BY DEF BoundsInv, GadgetTypes
<1>2. DOMAIN inq \subseteq Int
  BY <1>1
<1>3. CASE inq' = inq
  BY <1>2, <1>3 DEF Fewer, StatusAt
<1>4. CASE inq' = <<>>
  BY <1>1, <1>4 DEF Fewer
<1> QED BY <1>3, <1>4

LEMMA DataFewer ==
  ASSUME BoundsInv, NEW item \in Items, item.k \in {"card", "data"}, Queue(item)
  PROVE  Fewer(0)
<1>1. inq \in Seq(Items)
  BY DEF BoundsInv, GadgetTypes
<1>2. CASE ~xusb
  <2>1. inq' = <<item>>
    BY <1>2 DEF Queue
  <2>2. \A j \in DOMAIN inq' : inq'[j] = item
    BY <2>1
  <2> QED BY <2>2 DEF Fewer, StatusAt
<1>3. CASE xusb
  <2> DEFINE s == [j \in 1 .. Len(inq) |->
                     IF inq[j].k = "csw" /\ item.k # "card" THEN item ELSE inq[j]]
  <2>1. inq' = Append(s, item)
    BY <1>3 DEF Queue
  <2>2. s \in Seq(Items) /\ Len(s) = Len(inq)
    BY <1>1
  <2>3. \A j \in 1 .. Len(inq) : s[j] = inq[j] \/ s[j] = item
    OBVIOUS
  <2> HIDE DEF s
  <2>4. \A j \in DOMAIN inq' : inq'[j] = item \/ (j \in 1 .. Len(inq) /\ inq'[j] = inq[j])
    <3> SUFFICES ASSUME NEW j \in DOMAIN inq'
                 PROVE inq'[j] = item \/ (j \in 1 .. Len(inq) /\ inq'[j] = inq[j])
      OBVIOUS
    <3>1. j \in 1 .. Len(inq) + 1
      BY <2>1, <2>2
    <3>2. CASE j = Len(inq) + 1
      BY <3>2, <2>1, <2>2
    <3>3. CASE j \in 1 .. Len(inq)
      BY <3>3, <2>1, <2>2, <2>3
    <3> QED BY <3>1, <3>2, <3>3, <1>1
  <2> QED BY <2>4, <1>1 DEF Fewer, StatusAt
<1> QED BY <1>2, <1>3 DEF BoundsInv, GadgetTypes

\* Once the status is sent, every status block on the endpoint is this one.
LEMMA SendFacts ==
  ASSUME BoundsInv, SendStatus
  PROVE  /\ NoStatus => OneStatus'
         /\ cbw.cur => AllCurrent'
         /\ lun.sense = "none" => NoFailure'
<1>1. inq \in Seq(Items)
  BY DEF BoundsInv, GadgetTypes
<1>2. PICK x \in Items : x = StatusItem
  <2>1. StatusItem \in Items
    BY DEF StatusItem, Items, BoundsInv, GadgetTypes, Cbws, Szs
  <2> QED BY <2>1
<1>3. Queue(x)
  BY <1>2 DEF SendStatus, StatusItem
<1>4. x.k = "csw" /\ x.cur = cbw.cur /\ (lun.sense = "none" => x.status # "fail")
  BY <1>2 DEF StatusItem
<1>5. /\ \A j \in DOMAIN inq' : inq'[j] = x \/ (j \in 1 .. Len(inq) /\ inq'[j] = inq[j] /\ ~StatusAt(j))
      /\ NoStatus => \A j \in DOMAIN inq' : inq'[j].k = "csw" => j = Len(inq')
  <2>1. CASE ~xusb
    <3>1. inq' = <<x>>
      BY <1>3, <2>1 DEF Queue
    <3> QED BY <3>1
  <2>2. CASE xusb
    <3> DEFINE s == [j \in 1 .. Len(inq) |->
                       IF inq[j].k = "csw" /\ x.k # "card" THEN x ELSE inq[j]]
    <3>1. inq' = Append(s, x)
      BY <1>3, <2>2 DEF Queue
    <3>2. s \in Seq(Items) /\ Len(s) = Len(inq)
      BY <1>1
    <3>3. \A j \in 1 .. Len(inq) : s[j] = x \/ (s[j] = inq[j] /\ ~StatusAt(j))
      BY <1>4 DEF StatusAt
    <3>4. NoStatus => \A j \in 1 .. Len(inq) : s[j].k # "csw"
      BY <1>1 DEF StatusAt, NoStatus
    <3> HIDE DEF s
    <3>5. ASSUME NEW j \in DOMAIN inq'
          PROVE  /\ inq'[j] = x \/ (j \in 1 .. Len(inq) /\ inq'[j] = inq[j] /\ ~StatusAt(j))
                 /\ NoStatus => (inq'[j].k = "csw" => j = Len(inq'))
      <4>1. j \in 1 .. Len(inq) + 1 /\ Len(inq') = Len(inq) + 1
        BY <3>1, <3>2
      <4>2. CASE j = Len(inq) + 1
        BY <4>1, <4>2, <3>1, <3>2
      <4>3. CASE j \in 1 .. Len(inq)
        <5>1. inq'[j] = s[j]
          BY <4>3, <3>1, <3>2
        <5> QED BY <4>3, <5>1, <3>3, <3>4
      <4> QED BY <4>1, <4>2, <4>3, <1>1
    <3> QED BY <3>5
  <2> QED BY <2>1, <2>2 DEF BoundsInv, GadgetTypes
<1>6. \A j \in DOMAIN inq' : inq'[j].k = "csw" => inq'[j] = x
  BY <1>5 DEF StatusAt
<1> QED BY <1>4, <1>5, <1>6 DEF StatusAt, OneStatus, AllCurrent, NoFailure

----------------------------------------------------------------------------
(* Every step keeps the status in order. *)

LEMMA InitStatus == UmsInit => StatusInv
<1> SUFFICES ASSUME UmsInit PROVE StatusInv
  OBVIOUS
<1>1. inq = <<>> /\ DOMAIN inq = {}
  BY DEF UmsInit
<1>2. /\ NoStatus /\ OneStatus /\ AllCurrent /\ NoCurrent /\ NoFailure
  BY <1>1 DEF NoStatus, OneStatus, AllCurrent, NoCurrent, NoFailure
<1>3. csw \in Csws /\ csw.status = "none"
  BY DEF UmsInit, NoCsw, Csws
<1>4. pc = "start" /\ state = NORMAL /\ host.ph = "idle" /\ out.pkt = NoCbw /\ ~out.reset
  BY DEF UmsInit
<1> QED BY <1>2, <1>3, <1>4 DEF StatusInv, States, OneAnswer, ResetsSafe, SenseThere, Flushed,
      InStep, Current, Busy, ResetPending, Told, NORMAL, ABORT_BULK_OUT, PROTOCOL_RESET, EXIT

LEMMA StartStatus == ASSUME BoundsInv, StatusInv, Start \/ Buttons PROVE StatusInv'
<1>1. /\ UNCHANGED <<xusb, state, cbw, lun, out, inq, host, plug, csw>>
      /\ pc \in {"start", "top"} /\ pc' \in {"top", "done"}
      /\ pc = "start" => pc' \in {"top", "done"}
      /\ pc = "top" => pc' = "done"
  BY DEF Start, Buttons
<1>2. NoStatus' = NoStatus /\ OneStatus' = OneStatus /\ AllCurrent' = AllCurrent
        /\ NoCurrent' = NoCurrent /\ NoFailure' = NoFailure /\ Told' = Told
        /\ ResetPending' = ResetPending
  BY <1>1 DEF NoStatus, OneStatus, AllCurrent, NoCurrent, NoFailure, StatusAt, Told, ResetPending
<1>3. ~Busy'
  BY <1>1 DEF Busy, StatusInv, States, NORMAL, ABORT_BULK_OUT
<1> QED BY <1>1, <1>2, <1>3 DEF StatusInv, States, OneAnswer, ResetsSafe, SenseThere, Flushed,
      InStep, Current, Busy, NORMAL, EXIT, PROTOCOL_RESET, ABORT_BULK_OUT

LEMMA NoneCurrent == NoCurrent => NoFailure
BY DEF NoCurrent, NoFailure

LEMMA NoneAtAll == NoStatus => NoCurrent /\ AllCurrent /\ OneStatus /\ NoFailure
BY DEF NoStatus, NoCurrent, AllCurrent, OneStatus, NoFailure

\* What servicing EP0 does to a pending reset, and to the host.
LEMMA Ep0Facts ==
  ASSUME BoundsInv, StatusInv, state \in {NORMAL, PROTOCOL_RESET}
  PROVE  /\ AfterEp0 \in {NORMAL, PROTOCOL_RESET}
         /\ AfterEp0 = PROTOCOL_RESET =>
              ~Told /\ (HostEp0.ph \in {"idle", "reset"} \/ NoCurrent)
         /\ HostEp0.ph = host.ph \/ (HostEp0.ph = "idle" /\ host.ph = "reset" /\ ~xusb)
         /\ HostEp0.resets = host.resets
         /\ xusb => HostEp0 = host
         /\ (xusb /\ ~ResetPending => AfterEp0 = NORMAL)
         /\ ~OutEp0.reset /\ OutEp0.pkt = out.pkt /\ OutEp0.ignore = out.ignore
<1>1. out \in Outs /\ host \in Hosts
  BY DEF BoundsInv, GadgetTypes
<1>2. ~OutEp0.reset /\ OutEp0.pkt = out.pkt /\ OutEp0.ignore = out.ignore
  BY <1>1 DEF OutEp0, Outs
<1>3. CASE ResetSeen
  <2>1. AfterEp0 = PROTOCOL_RESET
    BY <1>3 DEF AfterEp0, Raise, NORMAL, PROTOCOL_RESET
  <2>2. CASE xusb
    <3>1. out.reset /\ HostEp0 = host
      BY <1>3, <2>2 DEF ResetSeen, HostEp0
    <3> QED BY <1>2, <2>1, <2>2, <3>1 DEF StatusInv, ResetsSafe, ResetPending
  <2>3. CASE ~xusb
    <3>1. host.ph = "reset" /\ HostEp0.ph = "idle" /\ HostEp0.resets = host.resets
      BY <1>1, <1>3, <2>3 DEF ResetSeen, HostEp0, Hosts
    <3>2. ~Told
      BY <3>1 DEF StatusInv, OneAnswer, Told
    <3> QED BY <1>2, <2>1, <2>3, <3>1, <3>2
  <2> QED BY <2>2, <2>3
<1>4. CASE ~ResetSeen
  <2>1. AfterEp0 = state /\ HostEp0 = host
    BY <1>4 DEF AfterEp0, HostEp0
  <2>2. state = PROTOCOL_RESET => ~Told /\ (host.ph \in {"idle", "reset"} \/ NoCurrent)
    BY DEF StatusInv, ResetsSafe, ResetPending
  <2>3. xusb /\ ~ResetPending => state = NORMAL
    BY DEF ResetPending
  <2> QED BY <1>2, <2>1, <2>2, <2>3
<1> QED BY <1>3, <1>4

LEMMA ExceptionStatus == ASSUME BoundsInv, BoundsInv', StatusInv, HandleException PROVE StatusInv'
<1>1. /\ pc = "top" /\ state # NORMAL /\ UNCHANGED <<xusb, cbw, host, plug, csw>>
      /\ Told' = Told
  BY DEF HandleException, Told
<1>2. CASE state = ABORT_BULK_OUT
  <2>1. SendStatus /\ state' = NORMAL /\ lun' = lun /\ out' = out /\ pc' = "cswwait"
    BY <1>2 DEF HandleException, SendStatus
  <2>2. Busy /\ ~Busy' /\ ~ResetPending' /\ ~out.reset /\ out.pkt = NoCbw /\ cbw.cur
    BY <1>1, <1>2, <2>1 DEF Busy, ResetPending, StatusInv, OneAnswer, ResetsSafe, NORMAL, PROTOCOL_RESET
  <2>3. (NoStatus => OneStatus') /\ AllCurrent' /\ (lun.sense = "none" => NoFailure')
    BY <2>1, <2>2, SendFacts
  <2> QED BY <1>1, <2>1, <2>2, <2>3 DEF StatusInv, States, OneAnswer, ResetsSafe, SenseThere,
        Flushed, InStep, Current
<1>3. CASE state # ABORT_BULK_OUT
  <2>1. /\ inq' = inq \/ inq' = <<>>
        /\ lun' = [lun EXCEPT !.prevent = FALSE, !.sense = "none",
                     !.attention = IF state = PROTOCOL_RESET THEN "reset" ELSE "none"]
        /\ state' = IF state = EXIT THEN TERMINATED ELSE NORMAL
        /\ out' = IF state = PROTOCOL_RESET THEN [out EXCEPT !.ignore = FALSE] ELSE out
        /\ pc' = IF state = EXIT THEN "done" ELSE "top"
    BY <1>3 DEF HandleException
  <2>2. /\ NoStatus => NoStatus'
        /\ OneStatus => OneStatus'
        /\ AllCurrent => AllCurrent'
        /\ NoCurrent => NoCurrent'
        /\ NoFailure => NoFailure'
    <3>1. Fewer(0)
      BY <2>1, SameFewer
    <3> QED BY <3>1, FewerOK
  <2>3. out \in Outs /\ lun \in Luns
    BY DEF BoundsInv, GadgetTypes
  <2>4. out'.reset = out.reset /\ out'.pkt = out.pkt /\ (state # PROTOCOL_RESET => out' = out)
    BY <2>1, <2>3 DEF Outs
  <2>5. state \in {PROTOCOL_RESET, EXIT}
    BY <1>1, <1>3 DEF StatusInv, States, NORMAL, ABORT_BULK_OUT, PROTOCOL_RESET, EXIT
  <2>6. ~Busy' /\ ~Busy /\ (ResetPending' => ResetPending)
    BY <1>1, <1>3, <2>1, <2>4, <2>5 DEF Busy, ResetPending, NORMAL, ABORT_BULK_OUT, PROTOCOL_RESET, EXIT, TERMINATED
  <2>7. CASE state = PROTOCOL_RESET
    <3>1. ResetPending /\ pc' = "top" /\ state' = NORMAL
      BY <2>1, <2>7 DEF ResetPending, PROTOCOL_RESET, EXIT
    <3>2. ~Told /\ (host.ph \in {"idle", "reset"} \/ NoCurrent)
      BY <3>1 DEF StatusInv, ResetsSafe
    <3> QED BY <1>1, <2>2, <2>4, <2>6, <3>1, <3>2, NoneCurrent DEF StatusInv, States, OneAnswer, ResetsSafe, SenseThere,
        Flushed, InStep, Current, NORMAL, ABORT_BULK_OUT, EXIT
  <2>8. CASE state = EXIT
    <3>1. pc' = "done" /\ out' = out
      BY <2>1, <2>8, <2>4 DEF PROTOCOL_RESET, EXIT
    <3> QED BY <1>1, <2>2, <2>6, <3>1 DEF StatusInv, States, OneAnswer, ResetsSafe, SenseThere,
        Flushed, InStep, Current
  <2> QED BY <2>5, <2>7, <2>8
<1> QED BY <1>2, <1>3

LEMMA AskStatus == ASSUME BoundsInv, BoundsInv', StatusInv, AskForCommand PROVE StatusInv'
<1>1. /\ pc = "top" /\ state = NORMAL /\ pc' = "cbw" /\ state' = AfterEp0 /\ host' = HostEp0
      /\ out' = [OutEp0 EXCEPT !.queued = xusb,
                             !.pend = ~out.queued \/ @, !.cnt = IF out.queued THEN @ ELSE 1]
      /\ UNCHANGED <<xusb, lun, inq, plug>>
  BY DEF AskForCommand
<1>2. csw' \in Csws /\ csw'.status = csw.status /\ csw'.cur = csw.cur
  <2>1. csw' = csw \/ csw' = [csw EXCEPT !.fresh = FALSE]
    BY DEF AskForCommand
  <2>2. csw \in Csws
    BY DEF StatusInv
  <2> QED BY <2>1, <2>2 DEF Csws
<1>3. out'.reset = OutEp0.reset /\ out'.pkt = out.pkt /\ out'.ignore = out.ignore
  <2>1. OutEp0 \in Outs /\ out \in Outs
    BY Ep0OK DEF BoundsInv, GadgetTypes
  <2> QED BY <1>1, <2>1 DEF Outs, OutEp0
<1>4. NoStatus' = NoStatus /\ OneStatus' = OneStatus /\ AllCurrent' = AllCurrent
        /\ NoCurrent' = NoCurrent /\ NoFailure' = NoFailure /\ Told' = Told
  BY <1>1, <1>2 DEF NoStatus, OneStatus, AllCurrent, NoCurrent, NoFailure, StatusAt, Told
<1>5. /\ AfterEp0 \in {NORMAL, PROTOCOL_RESET}
      /\ AfterEp0 = PROTOCOL_RESET =>
           ~Told /\ (HostEp0.ph \in {"idle", "reset"} \/ NoCurrent)
      /\ HostEp0.ph = host.ph \/ (HostEp0.ph = "idle" /\ host.ph = "reset" /\ ~xusb)
      /\ HostEp0.resets = host.resets
      /\ (xusb /\ ~ResetPending => AfterEp0 = NORMAL)
      /\ ~OutEp0.reset
  BY <1>1, Ep0Facts
<1>6. ~Busy' /\ ~Busy /\ (ResetPending' => AfterEp0 = PROTOCOL_RESET) /\ NORMAL # PROTOCOL_RESET
  BY <1>1, <1>3, <1>5 DEF Busy, ResetPending, NORMAL, ABORT_BULK_OUT, PROTOCOL_RESET
<1>7. csw' \in Csws /\ States' /\ OneAnswer'
  BY <1>1, <1>2, <1>3, <1>4, <1>5, <1>6 DEF StatusInv, States, OneAnswer
<1>8. ResetsSafe' /\ SenseThere' /\ Flushed' /\ InStep' /\ Current'
  BY <1>1, <1>2, <1>3, <1>4, <1>5, <1>6 DEF StatusInv, ResetsSafe, SenseThere, Flushed, InStep,
     Current
<1> QED BY <1>7, <1>8 DEF StatusInv

LEMMA NoCommandStatus ==
  ASSUME BoundsInv, BoundsInv', StatusInv,
         (\E st \in {"timeout", "error", "disabled"} : NoCommand(st)) \/ JunkCommand
  PROVE  StatusInv'
<1>1. /\ pc = "cbw" /\ pc' = "top" /\ state' \in {state, EXIT}
      /\ UNCHANGED <<xusb, cbw, lun, inq, plug, csw>>
  BY CountOK DEF NoCommand, JunkCommand
<1>2. /\ out'.reset = out.reset /\ out'.pkt \in {out.pkt, NoCbw}
      /\ out.ignore => out'.ignore
  <2>1. out \in Outs
    BY DEF BoundsInv, GadgetTypes
  <2> QED BY <2>1 DEF NoCommand, JunkCommand, Outs
<1>3. /\ host'.resets = host.resets
      /\ host'.ph = host.ph \/ (host.ph = "dataout" /\ host'.ph = "csw")
  <2>1. host \in Hosts
    BY DEF BoundsInv, GadgetTypes
  <2>2. CASE JunkCommand
    BY <2>1, <2>2 DEF JunkCommand, Hosts
  <2>3. CASE \E st \in {"timeout", "error", "disabled"} : NoCommand(st)
    BY <2>3 DEF NoCommand
  <2> QED BY <2>2, <2>3
<1>4. NoStatus' = NoStatus /\ OneStatus' = OneStatus /\ AllCurrent' = AllCurrent
        /\ NoCurrent' = NoCurrent /\ NoFailure' = NoFailure /\ Told' = Told
  BY <1>1 DEF NoStatus, OneStatus, AllCurrent, NoCurrent, NoFailure, StatusAt, Told
<1>5. /\ ~Busy' /\ ~Busy /\ (ResetPending' => ResetPending) /\ state \in {NORMAL, PROTOCOL_RESET}
      /\ state' \in NORMAL .. EXIT /\ state' # ABORT_BULK_OUT
  BY <1>1, <1>2 DEF Busy, ResetPending, StatusInv, States, NORMAL, ABORT_BULK_OUT, PROTOCOL_RESET, EXIT
<1>6. csw' \in Csws /\ States' /\ OneAnswer'
  BY <1>1, <1>2, <1>3, <1>4, <1>5 DEF StatusInv, States, OneAnswer
<1>7. ResetsSafe' /\ SenseThere' /\ Flushed' /\ InStep' /\ Current'
  BY <1>1, <1>2, <1>3, <1>4, <1>5 DEF StatusInv, ResetsSafe, SenseThere, Flushed, InStep, Current
<1> QED BY <1>6, <1>7 DEF StatusInv

\* Which command is worked on after a CBW, and when.
LEMMA AcceptFacts ==
  ASSUME BoundsInv, StatusInv, NEW c \in Cbws, Accept(c), pc = "cbw"
  PROVE  /\ cbw' = c /\ out'.pkt = NoCbw /\ out'.reset = out.reset /\ out'.ignore = out.ignore
         /\ state' \in {state, EXIT} /\ state' \in NORMAL .. EXIT /\ state' # ABORT_BULK_OUT
         /\ (pc' = "parse" /\ state' = NORMAL) \/ (pc' = "top" /\ ~Busy')
         /\ (ResetPending' => ResetPending)
<1>1. out \in Outs /\ state \in {NORMAL, PROTOCOL_RESET}
  BY DEF BoundsInv, GadgetTypes, StatusInv, States
<1>2. /\ out' = [out EXCEPT !.queued = FALSE, !.pend = FALSE, !.cnt = 0, !.pkt = NoCbw,
                          !.timeouts = IF lun.unmounted THEN Count("ok") ELSE 0]
      /\ cbw' = c /\ state' \in {state, EXIT}
      /\ pc' = IF state' > NORMAL THEN "top" ELSE "parse"
  BY CountOK DEF Accept
<1>3. out'.pkt = NoCbw /\ out'.reset = out.reset /\ out'.ignore = out.ignore
  BY <1>1, <1>2 DEF Outs
<1>4. /\ state' \in NORMAL .. EXIT /\ state' # ABORT_BULK_OUT
      /\ (pc' = "parse" /\ state' = NORMAL) \/ (pc' = "top" /\ ~Busy')
      /\ (ResetPending' => ResetPending)
  BY <1>1, <1>2, <1>3 DEF Busy, ResetPending, NORMAL, ABORT_BULK_OUT, PROTOCOL_RESET, EXIT
<1> QED BY <1>2, <1>3, <1>4

LEMMA GetNextStatus ==
  ASSUME BoundsInv, BoundsInv', StatusInv, NEW c \in Commands, GetNextCommand(c)
  PROVE  StatusInv'
<1> DEFINE x == [op |-> c.op, lba |-> c.lba, n |-> c.n, h |-> c.h, odd |-> c.odd,
                 dir |-> IF c.h = 0 THEN "none" ELSE c.dir, cur |-> TRUE]
<1>1. /\ pc = "cbw" /\ plug = "on" /\ host.ph = "idle" /\ csw' = NoCsw
      /\ inq' = Outdated /\ UNCHANGED <<xusb, lun, plug>>
  BY DEF GetNextCommand
<1>2. host'.ph \in {"csw", "datain", "dataout"} /\ host'.resets = host.resets
  <2>1. host \in Hosts
    BY DEF BoundsInv, GadgetTypes
  <2>2. PICK q \in {"csw", "datain", "dataout"} :
          q = CASE c.h = 0 -> "csw" [] c.dir = "in" -> "datain" [] OTHER -> "dataout"
    OBVIOUS
  <2>3. host' = [host EXCEPT !.ph = q, !.left = c.h, !.short = FALSE]
    BY <2>2 DEF GetNextCommand
  <2> QED BY <2>1, <2>3 DEF Hosts
<1>3. csw' \in Csws /\ csw'.status = "none" /\ ~Told'
  BY <1>1 DEF NoCsw, Csws, Told
<1>4. NoCurrent' /\ NoFailure' /\ (NoStatus => NoStatus')
  <2>1. inq \in Seq(Items) /\ DOMAIN inq' = DOMAIN inq
    BY <1>1 DEF BoundsInv, GadgetTypes, Outdated
  <2>2. \A j \in DOMAIN inq' : /\ inq'[j].k = "csw" => inq[j].k = "csw"
                               /\ inq'[j].k = "csw" => ~inq'[j].cur
    <3> SUFFICES ASSUME NEW j \in DOMAIN inq'
                 PROVE  /\ inq'[j].k = "csw" => inq[j].k = "csw"
                        /\ inq'[j].k = "csw" => ~inq'[j].cur
      OBVIOUS
    <3>1. inq[j] \in Items /\ j \in 1 .. Len(inq)
      BY <2>1
    <3>2. inq'[j] = IF inq[j].k = "csw" THEN [inq[j] EXCEPT !.cur = FALSE] ELSE inq[j]
      BY <1>1, <3>1 DEF Outdated
    <3>3. CASE inq[j].k = "csw"
      BY <3>1, <3>2, <3>3 DEF Items
    <3>4. CASE inq[j].k # "csw"
      BY <3>2, <3>4
    <3> QED BY <3>3, <3>4
  <2> QED BY <2>1, <2>2 DEF NoCurrent, NoFailure, NoStatus, StatusAt
<1>5. ~xusb \/ host.resets = 0 => NoStatus' /\ AllCurrent' /\ OneStatus'
  BY <1>1, <1>4, NoneAtAll DEF StatusInv, Flushed, InStep, NoStatus, AllCurrent, OneStatus
<1>6. x \in Cbws /\ x.cur
  BY UmsAssumption DEF Cbws
<1>7. CASE ~out.ignore
  <2>1. Accept(x)
    BY <1>7 DEF GetNextCommand
  <2>2. PICK y \in Cbws : y = x /\ y.cur
    BY <1>6
  <2>3. /\ cbw' = y /\ out'.pkt = NoCbw /\ out'.reset = out.reset /\ out'.ignore = out.ignore
        /\ state' \in {state, EXIT} /\ state' \in NORMAL .. EXIT /\ state' # ABORT_BULK_OUT
        /\ (pc' = "parse" /\ state' = NORMAL) \/ (pc' = "top" /\ ~Busy')
        /\ (ResetPending' => ResetPending)
    <3>1. Accept(y)
      BY <2>1, <2>2
    <3> QED BY <3>1, <1>1, AcceptFacts
  <2>4. csw' \in Csws /\ States' /\ OneAnswer'
    BY <1>2, <1>3, <1>4, <2>2, <2>3 DEF States, OneAnswer
  <2>5. ResetsSafe' /\ SenseThere' /\ Flushed' /\ InStep' /\ Current'
    BY <1>1, <1>2, <1>3, <1>4, <1>5, <2>3 DEF StatusInv, ResetsSafe, SenseThere, Flushed, InStep, Current
  <2> QED BY <2>4, <2>5 DEF StatusInv
<1>8. CASE out.ignore
  <2>1. /\ out' = [out EXCEPT !.timeouts = Count("ok"), !.pend = FALSE, !.cnt = 0, !.pkt = x]
        /\ state' = Counted("ok") /\ pc' = "top"
    BY <1>8 DEF GetNextCommand
  <2>2. state \in {NORMAL, PROTOCOL_RESET} /\ state' \in {state, EXIT}
    BY <1>1, <2>1, CountOK DEF StatusInv, States
  <2>3. out'.pkt = x /\ out'.reset = out.reset /\ out'.ignore = out.ignore
    <3>1. out \in Outs
      BY DEF BoundsInv, GadgetTypes
    <3> HIDE DEF x
    <3> QED BY <2>1, <3>1 DEF Outs
  <2>4. /\ state' \in NORMAL .. EXIT /\ state' # ABORT_BULK_OUT /\ ~Busy'
        /\ (ResetPending' => ResetPending)
    BY <2>1, <2>2, <2>3 DEF Busy, ResetPending, NORMAL, ABORT_BULK_OUT, PROTOCOL_RESET, EXIT
  <2> HIDE DEF x
  <2>5. csw' \in Csws /\ States' /\ OneAnswer'
    BY <1>2, <1>3, <1>4, <1>6, <2>1, <2>3, <2>4 DEF States, OneAnswer
  <2>6. ResetsSafe' /\ SenseThere' /\ Flushed' /\ InStep' /\ Current'
    BY <1>1, <1>2, <1>3, <1>4, <1>5, <1>8, <2>1, <2>3, <2>4 DEF StatusInv, ResetsSafe, SenseThere, Flushed, InStep, Current
  <2> QED BY <2>5, <2>6 DEF StatusInv
<1> QED BY <1>7, <1>8

LEMMA StaleStatus == ASSUME BoundsInv, BoundsInv', StatusInv, StaleCommand PROVE StatusInv'
<1>1. /\ pc = "cbw" /\ xusb /\ UNCHANGED <<xusb, lun, inq, host, plug, csw>>
      /\ out \in Outs
  BY DEF StaleCommand, BoundsInv, GadgetTypes
<1>2. NoStatus' = NoStatus /\ OneStatus' = OneStatus /\ AllCurrent' = AllCurrent
        /\ NoCurrent' = NoCurrent /\ NoFailure' = NoFailure /\ Told' = Told
  BY <1>1 DEF NoStatus, OneStatus, AllCurrent, NoCurrent, NoFailure, StatusAt, Told
<1>3. CASE ~out.ignore /\ out.pkt # NoCbw /\ Accept(out.pkt)
  <2>1. PICK y \in Cbws : y = out.pkt
    BY <1>1 DEF Outs
  <2>2. y.cur /\ ~Told /\ NoCurrent
    BY <1>3, <2>1 DEF StatusInv, OneAnswer
  <2>3. /\ cbw' = y /\ out'.pkt = NoCbw /\ out'.reset = out.reset /\ out'.ignore = out.ignore
        /\ state' \in {state, EXIT} /\ state' \in NORMAL .. EXIT /\ state' # ABORT_BULK_OUT
        /\ (pc' = "parse" /\ state' = NORMAL) \/ (pc' = "top" /\ ~Busy')
        /\ (ResetPending' => ResetPending)
    <3>1. Accept(y)
      BY <1>3, <2>1
    <3> QED BY <3>1, <1>1, AcceptFacts
  <2>4. csw' \in Csws /\ States' /\ OneAnswer'
    BY <1>1, <1>2, <2>2, <2>3 DEF StatusInv, States, OneAnswer
  <2>5. ResetsSafe' /\ SenseThere' /\ Flushed' /\ InStep' /\ Current'
    BY <1>1, <1>2, <1>3, <2>2, <2>3 DEF StatusInv, ResetsSafe, SenseThere, Flushed, InStep, Current
  <2> QED BY <2>4, <2>5 DEF StatusInv
<1>4. CASE /\ out' = [out EXCEPT !.ignore = TRUE, !.queued = out.ignore /\ @,
                                   !.timeouts = Count("ok")]
           /\ state' = Counted("ok") /\ pc' = "top"
           /\ UNCHANGED <<cbw, wrote>>
  <2>1. out'.ignore /\ out'.pkt = out.pkt /\ out'.reset = out.reset
    BY <1>1, <1>4 DEF Outs
  <2>2. state \in {NORMAL, PROTOCOL_RESET} /\ state' \in {state, EXIT}
    BY <1>1, <1>4, CountOK DEF StatusInv, States
  <2>3. /\ state' \in NORMAL .. EXIT /\ state' # ABORT_BULK_OUT /\ ~Busy'
        /\ (ResetPending' => ResetPending)
    BY <1>4, <2>1, <2>2 DEF Busy, ResetPending, NORMAL, ABORT_BULK_OUT, PROTOCOL_RESET, EXIT
  <2>4. csw' \in Csws /\ States' /\ OneAnswer'
    BY <1>1, <1>2, <1>4, <2>1, <2>3 DEF StatusInv, States, OneAnswer
  <2>5. ResetsSafe' /\ SenseThere' /\ Flushed' /\ InStep' /\ Current'
    BY <1>1, <1>2, <1>4, <2>1, <2>3 DEF StatusInv, ResetsSafe, SenseThere, Flushed, InStep, Current
  <2> QED BY <2>4, <2>5 DEF StatusInv
<1> QED BY <1>3, <1>4 DEF StaleCommand

LEMMA ParseStatus ==
  ASSUME BoundsInv, BoundsInv', StatusInv, NEW rd \in BOOLEAN, Parse(rd) PROVE StatusInv'
<1>1. /\ pc = "parse" /\ state' = AfterEp0 /\ host' = HostEp0 /\ out' = OutEp0
      /\ UNCHANGED <<xusb, cbw, inq, plug, csw>>
  BY DEF Parse
<1>2. pc' \in {"read", "write", "finish"} \/ (pc' = "top" /\ state' > NORMAL)
  BY DEF Parse
<1>3. NoStatus' = NoStatus /\ OneStatus' = OneStatus /\ AllCurrent' = AllCurrent
        /\ NoCurrent' = NoCurrent /\ NoFailure' = NoFailure /\ Told' = Told
  BY <1>1 DEF NoStatus, OneStatus, AllCurrent, NoCurrent, NoFailure, StatusAt, Told
<1>4. state = NORMAL /\ Busy /\ cbw.cur /\ ~Told /\ NoCurrent /\ NoFailure /\ out.pkt = NoCbw
  BY <1>1, NoneCurrent DEF StatusInv, States, OneAnswer, Busy
<1>5. /\ AfterEp0 \in {NORMAL, PROTOCOL_RESET}
      /\ HostEp0.ph = host.ph \/ (HostEp0.ph = "idle" /\ host.ph = "reset" /\ ~xusb)
      /\ HostEp0.resets = host.resets
      /\ (xusb /\ ~ResetPending => AfterEp0 = NORMAL)
      /\ ~OutEp0.reset /\ OutEp0.pkt = out.pkt
  BY <1>4, Ep0Facts
<1>6. /\ ResetPending' => AfterEp0 = PROTOCOL_RESET
      /\ pc' = "top" => ~Busy' /\ state' = PROTOCOL_RESET
      /\ NORMAL # PROTOCOL_RESET /\ PROTOCOL_RESET # ABORT_BULK_OUT
      /\ PROTOCOL_RESET \in NORMAL .. EXIT
  BY <1>1, <1>2, <1>5 DEF Busy, ResetPending, NORMAL, ABORT_BULK_OUT, PROTOCOL_RESET, EXIT
<1>7. csw' \in Csws /\ States' /\ OneAnswer'
  BY <1>1, <1>2, <1>3, <1>4, <1>5, <1>6 DEF StatusInv, States, OneAnswer
<1>8. ResetsSafe' /\ SenseThere' /\ Flushed' /\ InStep' /\ Current'
  BY <1>1, <1>2, <1>3, <1>4, <1>5, <1>6 DEF StatusInv, ResetsSafe, SenseThere, Flushed, InStep,
     Current
<1> QED BY <1>7, <1>8 DEF StatusInv

LEMMA ReceivedHost ==
  ASSUME BoundsInv, NEW n, NEW r \in Received(n)
  PROVE  /\ r.h.resets = host.resets
         /\ r.h.ph = host.ph \/ (host.ph = "dataout" /\ r.h.ph = "csw")
<1>1. host \in Hosts
  BY DEF BoundsInv, GadgetTypes
<1> DEFINE all == [st |-> "ok", actual |-> n, buf |-> [i \in 1..n |-> HOST],
                   h |-> [host EXCEPT !.left = @ - n, !.ph = IF host.left = n THEN "csw" ELSE @]]
           cut(k) == [st |-> "ok", actual |-> IF xusb THEN k ELSE n,
                      buf |-> [i \in 1..n |-> IF i <= k THEN HOST ELSE STALE],
                      h |-> [host EXCEPT !.left = 0, !.ph = "csw", !.short = TRUE]]
           lost == [st |-> "error", actual |-> 0, buf |-> <<>>, h |-> host]
<1>2. CASE r = lost
  BY <1>2
<1>3. CASE r = all /\ host.ph = "dataout"
  <2>1. r.h = [host EXCEPT !.left = @ - n, !.ph = IF host.left = n THEN "csw" ELSE @]
    BY <1>3
  <2> QED BY <1>1, <1>3, <2>1 DEF Hosts
<1>4. ASSUME NEW k, r = cut(k), host.ph = "dataout"
      PROVE  /\ r.h.resets = host.resets
             /\ r.h.ph = host.ph \/ (host.ph = "dataout" /\ r.h.ph = "csw")
  <2>1. r.h = [host EXCEPT !.left = 0, !.ph = "csw", !.short = TRUE]
    BY <1>4
  <2> QED BY <1>1, <1>4, <2>1 DEF Hosts
<1>5. r = lost \/ (r = all /\ host.ph = "dataout")
        \/ \E k \in 0 .. n - 1 : r = cut(k) /\ host.ph = "dataout"
  BY DEF Received
<1> HIDE DEF all, cut, lost
<1> QED BY <1>2, <1>3, <1>4, <1>5

LEMMA MoveStatus ==
  ASSUME BoundsInv, BoundsInv', StatusInv, NEW ok \in BOOLEAN, ReadChunk(ok) \/ WriteChunk(ok)
  PROVE  StatusInv'
<1>1. /\ pc \in {"read", "write"} /\ UNCHANGED <<xusb, state, cbw, out, plug, csw>>
      /\ pc' \in {"read", "write", "finish"} \/ (pc' = "top" /\ state > NORMAL)
  <2>1. CASE ReadChunk(ok)
    BY <2>1 DEF ReadChunk, Parsed
  <2>2. CASE WriteChunk(ok)
    BY <2>2 DEF WriteChunk, Parsed
  <2> QED BY <2>1, <2>2
<1>2. Fewer(0)
  <2>1. CASE inq' = inq
    BY <2>1, SameFewer
  <2>2. CASE ReadChunk(ok) /\ inq' # inq
    <3> DEFINE chunk == [i \in 1 .. ReadAmount |-> io.lba + i - 1]
    <3>1. Queue([k |-> "card", units |-> chunk]) /\ pc = "read"
      BY <2>2 DEF ReadChunk
    <3>2. chunk \in Seq(Int)
      BY <3>1, ReadAmountOK
    <3>3. [k |-> "card", units |-> chunk] \in Items
      BY <3>2 DEF Items
    <3>4. PICK x \in Items : x = [k |-> "card", units |-> chunk]
      BY <3>3
    <3>5. Queue(x) /\ x.k \in {"card", "data"}
      BY <3>1, <3>4
    <3> QED BY <3>5, DataFewer
  <2> QED BY <2>1, <2>2 DEF WriteChunk
<1>3. /\ NoStatus => NoStatus'
      /\ OneStatus => OneStatus'
      /\ AllCurrent => AllCurrent'
      /\ NoCurrent => NoCurrent'
      /\ NoFailure => NoFailure'
  BY <1>2, FewerOK
<1>4. /\ host'.resets = host.resets
      /\ host'.ph = host.ph \/ (host.ph = "dataout" /\ host'.ph = "csw")
  <2>1. CASE host' = host
    BY <2>1
  <2>2. CASE \E r \in Received(Least(io.req, OutMax)) : host' = r.h
    BY <2>2, ReceivedHost
  <2> QED BY <2>1, <2>2 DEF ReadChunk, WriteChunk
<1>5. /\ state \in {NORMAL, PROTOCOL_RESET} /\ Busy /\ cbw.cur /\ ~Told /\ NoCurrent /\ NoFailure
      /\ out.pkt = NoCbw
  BY <1>1, NoneCurrent DEF StatusInv, States, OneAnswer, Busy
<1>6. /\ ResetPending' = ResetPending /\ Told' = Told
      /\ pc' = "top" => ~Busy' /\ state' = PROTOCOL_RESET
      /\ NORMAL # PROTOCOL_RESET /\ PROTOCOL_RESET # ABORT_BULK_OUT
      /\ PROTOCOL_RESET \in NORMAL .. EXIT
  BY <1>1, <1>5 DEF Busy, ResetPending, Told, NORMAL, ABORT_BULK_OUT, PROTOCOL_RESET, EXIT
<1>7. csw' \in Csws /\ States' /\ OneAnswer'
  BY <1>1, <1>3, <1>4, <1>5, <1>6 DEF StatusInv, States, OneAnswer
<1>8. ResetsSafe' /\ SenseThere' /\ Flushed' /\ InStep' /\ Current'
  BY <1>1, <1>3, <1>4, <1>5, <1>6 DEF StatusInv, ResetsSafe, SenseThere, Flushed, InStep, Current
<1> QED BY <1>7, <1>8 DEF StatusInv

\* Data queued behind transfers whose buffer was cleared adds no status either.
LEMMA PadFewer ==
  ASSUME BoundsInv, NEW k \in {"card", "data"}, NEW item \in Items, item.k \in {"card", "data"},
         Queue(item) \/ inq' = Append(Wiped(k), item)
  PROVE  Fewer(0)
<1>1. CASE Queue(item)
  BY <1>1, DataFewer
<1>2. CASE inq' = Append(Wiped(k), item)
  <2>1. inq \in Seq(Items)
    BY DEF BoundsInv, GadgetTypes
  <2>2. \A j \in 1 .. Len(inq) : Wiped(k)[j] = inq[j] \/ Wiped(k)[j].k = k
    BY <2>1 DEF Items, Wiped
  <2>3. PICK w \in Seq(Items) :
          w = Wiped(k) /\ Len(w) = Len(inq) /\ \A j \in 1 .. Len(inq) : w[j] = inq[j] \/ w[j].k = k
    BY <2>2, WipedOK
  <2>4. \A j \in DOMAIN inq' : inq'[j] = item \/ (j \in 1 .. Len(inq) /\ inq'[j] = w[j])
    BY <1>2, <2>1, <2>3
  <2>5. \A j \in DOMAIN inq' : inq'[j].k = "csw" => j \in 1 .. Len(inq) /\ inq'[j] = inq[j]
    BY <2>3, <2>4
  <2> QED BY <2>1, <2>5 DEF Fewer, StatusAt
<1> QED BY <1>1, <1>2

LEMMA FinishInStatus == ASSUME BoundsInv, BoundsInv', StatusInv, FinishIn PROVE StatusInv'
<1> DEFINE all == Len(ibuf) + sz.residue
           nsend == IF sz.residue = 0 THEN all ELSE Least(all, EpMax)
           item == [k |-> InKind, units |-> ibuf \o Zeros(nsend - Len(ibuf))]
<1>1. /\ pc = "finish" /\ state' = AfterEp0 /\ host' = HostEp0 /\ out' = OutEp0
      /\ UNCHANGED <<xusb, cbw, lun, plug, csw>> /\ pc' = "lastwait"
  BY DEF FinishIn
<1>2. Fewer(0)
  <2>1. PICK m \in Int : m = nsend - Len(ibuf)
    BY PadCounts
  <2>2. Queue(item) \/ inq' = Append(Wiped("card"), item)
    BY DEF FinishIn
  <2> HIDE DEF nsend
  <2>3. PICK x \in Items : x = item /\ x.k \in {"card", "data"}
    BY <2>1, PaddedOK, PadCounts
  <2> HIDE DEF item
  <2> QED BY <2>2, <2>3, PadFewer
<1>3. /\ NoStatus => NoStatus'
      /\ OneStatus => OneStatus'
      /\ AllCurrent => AllCurrent'
      /\ NoCurrent => NoCurrent'
      /\ NoFailure => NoFailure'
  BY <1>2, FewerOK
<1>4. /\ state \in {NORMAL, PROTOCOL_RESET} /\ Busy /\ cbw.cur /\ ~Told /\ NoCurrent /\ NoFailure
      /\ out.pkt = NoCbw
  BY <1>1, NoneCurrent DEF StatusInv, States, OneAnswer, Busy
<1>5. /\ AfterEp0 \in {NORMAL, PROTOCOL_RESET}
      /\ HostEp0.ph = host.ph \/ (HostEp0.ph = "idle" /\ host.ph = "reset" /\ ~xusb)
      /\ HostEp0.resets = host.resets
      /\ (xusb /\ ~ResetPending => AfterEp0 = NORMAL)
      /\ ~OutEp0.reset /\ OutEp0.pkt = out.pkt
  BY <1>4, Ep0Facts
<1>6. /\ ResetPending' => AfterEp0 = PROTOCOL_RESET
      /\ NORMAL # PROTOCOL_RESET /\ Told' = Told
  BY <1>1, <1>5 DEF ResetPending, Told, NORMAL, PROTOCOL_RESET
<1>7. csw' \in Csws /\ States' /\ OneAnswer'
  BY <1>1, <1>3, <1>4, <1>5, <1>6 DEF StatusInv, States, OneAnswer
<1>8. ResetsSafe' /\ SenseThere' /\ Flushed' /\ InStep' /\ Current'
  BY <1>1, <1>3, <1>4, <1>5, <1>6 DEF StatusInv, ResetsSafe, SenseThere, Flushed, InStep, Current
<1> QED BY <1>7, <1>8 DEF StatusInv

LEMMA PadMoreStatus == ASSUME BoundsInv, BoundsInv', StatusInv, PadMore PROVE StatusInv'
<1> DEFINE item == [k |-> InKind, units |-> Zeros(Least(sz.left, EpMax))]
<1>1. pc = "lastwait" /\ UNCHANGED <<xusb, pc, state, cbw, lun, out, host, plug, csw>>
  BY DEF PadMore
<1>2. Fewer(0)
  <2>1. PICK m \in Int : m = Least(sz.left, EpMax)
    BY PadCounts
  <2>2. Queue(item) \/ inq' = Append(Wiped(InKind), item)
    BY DEF PadMore
  <2>3. PICK x \in Items : x = item /\ x.k \in {"card", "data"}
    BY <2>1, PaddedOK, PadCounts
  <2>4. InKind \in {"card", "data"}
    BY DEF InKind
  <2> HIDE DEF item
  <2> QED BY <2>2, <2>3, <2>4, PadFewer
<1>3. /\ NoStatus => NoStatus'
      /\ OneStatus => OneStatus'
      /\ AllCurrent => AllCurrent'
      /\ NoCurrent => NoCurrent'
      /\ NoFailure => NoFailure'
  BY <1>2, FewerOK
<1>4. Busy' = Busy /\ ResetPending' = ResetPending /\ Told' = Told
  BY <1>1 DEF Busy, ResetPending, Told
<1>5. csw' \in Csws /\ States' /\ OneAnswer'
  BY <1>1, <1>3, <1>4 DEF StatusInv, States, OneAnswer
<1>6. ResetsSafe' /\ SenseThere' /\ Flushed' /\ InStep' /\ Current'
  BY <1>1, <1>3, <1>4 DEF StatusInv, ResetsSafe, SenseThere, Flushed, InStep, Current
<1> QED BY <1>5, <1>6 DEF StatusInv

LEMMA FinishOutStatus == ASSUME BoundsInv, BoundsInv', StatusInv, FinishOut PROVE StatusInv'
<1>1. /\ pc = "finish" /\ out' = OutEp0 /\ UNCHANGED <<xusb, cbw, lun, plug, csw>>
      /\ state' \in {AfterEp0, Raise(AfterEp0, ABORT_BULK_OUT)}
      /\ IF state' > NORMAL THEN pc' = "top" /\ inq' = inq ELSE SendStatus
  BY DEF FinishOut
<1>2. /\ state \in {NORMAL, PROTOCOL_RESET} /\ Busy /\ cbw.cur /\ ~Told /\ NoCurrent
      /\ out.pkt = NoCbw
  BY <1>1 DEF StatusInv, States, OneAnswer, Busy
<1>3. /\ AfterEp0 \in {NORMAL, PROTOCOL_RESET}
      /\ HostEp0.ph = host.ph \/ (HostEp0.ph = "idle" /\ host.ph = "reset" /\ ~xusb)
      /\ HostEp0.resets = host.resets
      /\ (xusb /\ ~ResetPending => AfterEp0 = NORMAL)
      /\ ~OutEp0.reset /\ OutEp0.pkt = out.pkt
  BY <1>2, Ep0Facts
<1>4. /\ host'.resets = host.resets
      /\ \/ host'.ph = host.ph
         \/ host.ph = "dataout" /\ host'.ph = "csw"
         \/ host'.ph = "idle" /\ host.ph = "reset" /\ ~xusb
  <2>1. CASE host' = HostEp0
    BY <1>3, <2>1
  <2>2. CASE \E r \in Received(Least(sz.left, EpMax)) : host' = r.h
    BY <2>2, ReceivedHost
  <2> QED BY <2>1, <2>2 DEF FinishOut
<1>5. /\ state' \in {NORMAL, ABORT_BULK_OUT, PROTOCOL_RESET}
      /\ state' = PROTOCOL_RESET => AfterEp0 = PROTOCOL_RESET
      /\ ResetPending' => AfterEp0 = PROTOCOL_RESET
      /\ NORMAL # PROTOCOL_RESET /\ PROTOCOL_RESET # ABORT_BULK_OUT /\ NORMAL # ABORT_BULK_OUT
      /\ {NORMAL, ABORT_BULK_OUT, PROTOCOL_RESET} \subseteq NORMAL .. EXIT
      /\ Told' = Told
  BY <1>1, <1>3 DEF Raise, ResetPending, Told, NORMAL, ABORT_BULK_OUT, PROTOCOL_RESET, EXIT
<1>6. CASE state' # NORMAL
  <2>1. pc' = "top" /\ inq' = inq
    BY <1>1, <1>5, <1>6 DEF NORMAL, ABORT_BULK_OUT, PROTOCOL_RESET
  <2>2. NoStatus' = NoStatus /\ OneStatus' = OneStatus /\ AllCurrent' = AllCurrent
          /\ NoCurrent' = NoCurrent /\ NoFailure' = NoFailure /\ NoFailure
    BY <2>1, <1>2, NoneCurrent DEF NoStatus, OneStatus, AllCurrent, NoCurrent, NoFailure, StatusAt
  <2>3. csw' \in Csws /\ States' /\ OneAnswer'
    BY <1>1, <1>2, <1>3, <1>4, <1>5, <2>1, <2>2 DEF StatusInv, States, OneAnswer
  <2>4. ResetsSafe' /\ SenseThere' /\ Flushed' /\ InStep' /\ Current'
    BY <1>1, <1>2, <1>3, <1>4, <1>5, <2>1, <2>2 DEF StatusInv, ResetsSafe, SenseThere, Flushed, InStep, Current
  <2> QED BY <2>3, <2>4 DEF StatusInv
<1>7. CASE state' = NORMAL
  <2>1. SendStatus /\ pc' = "cswwait"
    BY <1>1, <1>7 DEF SendStatus, NORMAL
  <2>2. (NoStatus => OneStatus') /\ AllCurrent' /\ (lun.sense = "none" => NoFailure')
    BY <1>2, <2>1, SendFacts
  <2>3. ~ResetPending' /\ ~Busy' /\ ~out'.reset /\ out'.pkt = NoCbw
    BY <1>1, <1>2, <1>3, <1>5, <1>7, <2>1 DEF ResetPending, Busy
  <2>4. csw' \in Csws /\ States' /\ OneAnswer'
    BY <1>1, <1>2, <1>4, <1>5, <1>7, <2>1, <2>3 DEF StatusInv, States, OneAnswer
  <2>5. ResetsSafe' /\ SenseThere' /\ Flushed' /\ InStep' /\ Current'
    BY <1>1, <1>2, <1>4, <1>5, <2>1, <2>2, <2>3 DEF StatusInv, ResetsSafe, SenseThere, Flushed, InStep, Current
  <2> QED BY <2>4, <2>5 DEF StatusInv
<1> QED BY <1>6, <1>7

LEMMA LastSentStatus == ASSUME BoundsInv, BoundsInv', StatusInv, LastSent PROVE StatusInv'
<1>1. /\ pc = "lastwait" /\ UNCHANGED <<xusb, cbw, lun, plug, csw, host, out, state>>
      /\ IF state > NORMAL THEN pc' = "top" /\ (inq' = inq \/ inq' = <<>>) ELSE SendStatus
  BY DEF LastSent
<1>2. /\ state \in {NORMAL, PROTOCOL_RESET} /\ Busy /\ cbw.cur /\ ~Told /\ NoCurrent /\ NoFailure
      /\ out.pkt = NoCbw
  BY <1>1, NoneCurrent DEF StatusInv, States, OneAnswer, Busy
<1>3. Told' = Told /\ ResetPending' = ResetPending /\ NORMAL # PROTOCOL_RESET
        /\ PROTOCOL_RESET # ABORT_BULK_OUT /\ PROTOCOL_RESET \in NORMAL .. EXIT
  BY <1>1 DEF Told, ResetPending, NORMAL, PROTOCOL_RESET, ABORT_BULK_OUT, EXIT
<1>4. CASE state # NORMAL
  <2>1. pc' = "top" /\ Fewer(0) /\ ~Busy'
    BY <1>1, <1>2, <1>4, SameFewer DEF NORMAL, PROTOCOL_RESET, ABORT_BULK_OUT, Busy
  <2>2. /\ NoStatus => NoStatus'
        /\ OneStatus => OneStatus'
        /\ AllCurrent => AllCurrent'
        /\ NoCurrent'
        /\ NoFailure'
    BY <1>2, <2>1, FewerOK
  <2>3. csw' \in Csws /\ States' /\ OneAnswer'
    BY <1>1, <1>2, <1>3, <1>4, <2>1, <2>2 DEF StatusInv, States, OneAnswer
  <2>4. ResetsSafe' /\ SenseThere' /\ Flushed' /\ InStep' /\ Current'
    BY <1>1, <1>2, <1>3, <1>4, <2>1, <2>2 DEF StatusInv, ResetsSafe, SenseThere, Flushed, InStep, Current
  <2> QED BY <2>3, <2>4 DEF StatusInv
<1>5. CASE state = NORMAL
  <2>1. SendStatus /\ pc' = "cswwait" /\ ~Busy'
    BY <1>1, <1>5 DEF SendStatus, NORMAL, Busy
  <2>2. (NoStatus => OneStatus') /\ AllCurrent' /\ (lun.sense = "none" => NoFailure')
    BY <1>2, <2>1, SendFacts
  <2>3. ResetPending => host.ph \in {"idle", "reset"}
    BY <1>1, <1>3, <1>5 DEF ResetPending, StatusInv, ResetsSafe
  <2>4. csw' \in Csws /\ States' /\ OneAnswer'
    BY <1>1, <1>2, <1>3, <1>5, <2>1 DEF StatusInv, States, OneAnswer
  <2>5. ResetsSafe' /\ SenseThere' /\ Flushed' /\ InStep' /\ Current'
    BY <1>1, <1>2, <1>3, <2>1, <2>2, <2>3 DEF StatusInv, ResetsSafe, SenseThere, Flushed, InStep, Current
  <2> QED BY <2>4, <2>5 DEF StatusInv
<1> QED BY <1>4, <1>5

LEMMA StatusSentStatus == ASSUME BoundsInv, BoundsInv', StatusInv, StatusSent PROVE StatusInv'
<1>1. /\ pc = "cswwait" /\ pc' = "top" /\ UNCHANGED <<xusb, cbw, lun, plug, csw, host, out, state>>
      /\ inq' = IF xusb THEN inq ELSE <<>>
  BY DEF StatusSent
<1>2. Told' = Told /\ ResetPending' = ResetPending /\ state = NORMAL /\ ~Busy' /\ ~Busy
        /\ NORMAL # ABORT_BULK_OUT /\ NORMAL \in NORMAL .. EXIT
  BY <1>1 DEF Told, ResetPending, Busy, StatusInv, States, NORMAL, ABORT_BULK_OUT, EXIT
<1>3. /\ NoStatus => NoStatus'
      /\ OneStatus => OneStatus'
      /\ AllCurrent => AllCurrent'
      /\ NoCurrent => NoCurrent'
      /\ NoFailure => NoFailure'
  <2>1. Fewer(0)
    BY <1>1, SameFewer
  <2> QED BY <2>1, FewerOK
<1>4. ~xusb => NoStatus'
  BY <1>1 DEF NoStatus
<1>5. csw' \in Csws /\ States' /\ OneAnswer'
  BY <1>1, <1>2, <1>3 DEF StatusInv, States, OneAnswer
<1>6. ResetsSafe' /\ SenseThere' /\ Flushed' /\ InStep' /\ Current'
  BY <1>1, <1>2, <1>3, <1>4 DEF StatusInv, ResetsSafe, SenseThere, Flushed, InStep, Current
<1> QED BY <1>5, <1>6 DEF StatusInv

LEMMA Ep0WaitStatus ==
  ASSUME BoundsInv, BoundsInv', StatusInv, XusbEp0 \/ Usb2Ep0InFinish PROVE StatusInv'
<1>1. /\ host.ph = "reset" /\ UNCHANGED <<xusb, pc, state, cbw, lun, inq, plug, csw>>
      /\ pc \in {"cbw", "read", "write", "finish", "lastwait", "cswwait"}
      /\ csw.status = "none"
  BY DEF XusbEp0, Usb2Ep0InFinish, Waiting, StatusInv, OneAnswer
<1>2. host'.ph = "idle" /\ host'.resets = host.resets
  <2>1. host \in Hosts
    BY DEF BoundsInv, GadgetTypes
  <2> QED BY <2>1 DEF XusbEp0, Usb2Ep0InFinish, Hosts
<1>3. out'.pkt = out.pkt /\ out'.ignore = out.ignore
  <2>1. out \in Outs
    BY DEF BoundsInv, GadgetTypes
  <2> QED BY <2>1 DEF XusbEp0, Usb2Ep0InFinish, Outs
<1>4. NoStatus' = NoStatus /\ OneStatus' = OneStatus /\ AllCurrent' = AllCurrent
        /\ NoCurrent' = NoCurrent /\ NoFailure' = NoFailure /\ Told' = Told /\ ~Told
        /\ Busy' = Busy
  BY <1>1 DEF NoStatus, OneStatus, AllCurrent, NoCurrent, NoFailure, StatusAt, Told, Busy
<1>5. csw' \in Csws /\ States' /\ OneAnswer'
  BY <1>1, <1>2, <1>3, <1>4 DEF StatusInv, States, OneAnswer
<1>6. ResetsSafe' /\ SenseThere' /\ Flushed' /\ Current'
  BY <1>1, <1>2, <1>3, <1>4 DEF StatusInv, ResetsSafe, SenseThere, Flushed, Current
<1>7. InStep'
  BY <1>1, <1>2 DEF StatusInv, InStep
<1> QED BY <1>5, <1>6, <1>7 DEF StatusInv

LEMMA HostTakesStatus == ASSUME BoundsInv, BoundsInv', StatusInv, HostTakes PROVE StatusInv'
<1>1. /\ plug = "on" /\ inq # <<>> /\ host.ph \in {"datain", "csw"} /\ inq' = Tail(inq)
      /\ UNCHANGED <<xusb, pc, state, cbw, lun, out, plug>>
  BY DEF HostTakes
<1>2. inq \in Seq(Items) /\ host \in Hosts /\ csw \in Csws /\ csw.status = "none" /\ ~Told
  BY <1>1 DEF BoundsInv, GadgetTypes, StatusInv, OneAnswer, Told
<1>3. Fewer(1)
  BY <1>1, <1>2 DEF Fewer, StatusAt
<1>4. /\ NoStatus => NoStatus'
      /\ OneStatus => OneStatus'
      /\ AllCurrent => AllCurrent'
      /\ NoCurrent => NoCurrent'
      /\ NoFailure => NoFailure'
  BY <1>3, FewerOK
<1>5. Busy' = Busy /\ ResetPending' = ResetPending
  BY <1>1 DEF Busy, ResetPending
<1>6. PICK x \in Items : x = Head(inq) /\ x = inq[1] /\ 1 \in DOMAIN inq
  BY <1>1, <1>2
<1>7. CASE ~(host.ph = "csw" /\ x.k = "csw")
  <2>1. csw' = csw
    BY <1>1, <1>6, <1>7 DEF HostTakes
  <2>2. host'.resets = host.resets /\ host'.ph \notin {"idle", "reset"}
    <3>1. CASE host.ph = "datain"
      <4> DEFINE u == IF x.k = "csw" THEN <<STALE>> ELSE x.units
                 k == Least(Len(u), host.left)
      <4>1. host' = [host EXCEPT !.left = @ - k,
                       !.ph = IF x.k = "csw" \/ u = <<>> \/ k = host.left THEN "csw" ELSE @]
        BY <3>1, <1>6 DEF HostTakes
      <4> HIDE DEF k, u
      <4> QED BY <3>1, <4>1, <1>2 DEF Hosts
    <3>2. CASE host.ph = "csw"
      BY <3>2, <1>2, <1>6, <1>7 DEF HostTakes, Hosts
    <3> QED BY <1>1, <3>1, <3>2
  <2>3. Told' = Told
    BY <2>1 DEF Told
  <2>4. csw' \in Csws /\ States' /\ OneAnswer'
    BY <1>1, <1>2, <1>4, <1>5, <2>1, <2>2, <2>3 DEF StatusInv, States, OneAnswer
  <2>5. ResetsSafe' /\ SenseThere' /\ Flushed' /\ InStep' /\ Current'
    BY <1>1, <1>2, <1>4, <1>5, <2>1, <2>2, <2>3 DEF StatusInv, ResetsSafe, SenseThere, Flushed,
       InStep, Current
  <2> QED BY <2>4, <2>5 DEF StatusInv
<1>8. CASE host.ph = "csw" /\ x.k = "csw"
  <2>1. /\ csw' = [status |-> x.status, residue |-> x.residue, cur |-> x.cur, fresh |-> TRUE]
        /\ host' = [host EXCEPT !.ph = "idle"]
    BY <1>6, <1>8 DEF HostTakes
  <2>2. x \in [k : {"csw"}, cur : BOOLEAN, status : {"phase", "fail", "pass"}, residue : Nat]
    BY <1>8 DEF Items
  <2>3. csw' \in Csws /\ csw'.status = x.status /\ csw'.cur = x.cur
    BY <2>1, <2>2 DEF Csws
  <2>4. host'.ph = "idle" /\ host'.resets = host.resets
    BY <2>1, <1>2 DEF Hosts
  <2>5. /\ NoCurrent => ~Told'
        /\ AllCurrent => csw'.cur
        /\ Told' /\ csw'.status = "fail" => ~NoFailure
        /\ OneStatus => NoStatus'
        /\ ~NoStatus
    <3>1. StatusAt(1)
      BY <1>6, <1>8 DEF StatusAt
    <3>2. OneStatus => NoStatus'
      <4> SUFFICES ASSUME OneStatus, NEW j \in DOMAIN inq', inq'[j].k = "csw" PROVE FALSE
        BY DEF NoStatus, StatusAt
      <4>1. j + 1 \in DOMAIN inq /\ inq'[j] = inq[j + 1] /\ j \in 1 .. Len(inq')
        BY <1>3, <1>1, <1>2 DEF Fewer, StatusAt
      <4>2. j + 1 = 1
        BY <1>6, <3>1, <4>1 DEF OneStatus, StatusAt
      <4> QED BY <4>1, <4>2
    <3> QED BY <1>6, <2>3, <3>1, <3>2 DEF NoCurrent, AllCurrent, NoFailure, NoStatus, Told, StatusAt
  <2>6. States' /\ OneAnswer'
    BY <1>1, <1>2, <1>4, <1>5, <2>3, <2>4, <2>5 DEF StatusInv, States, OneAnswer
  <2>7. ResetsSafe' /\ SenseThere' /\ Flushed' /\ InStep' /\ Current'
    BY <1>1, <1>2, <1>4, <1>5, <1>8, <2>3, <2>4, <2>5 DEF StatusInv, ResetsSafe, SenseThere, Flushed,
       InStep, Current
  <2> QED BY <2>3, <2>6, <2>7 DEF StatusInv
<1> QED BY <1>7, <1>8

LEMMA HostGoesStatus ==
  ASSUME BoundsInv, BoundsInv', StatusInv, HostResets \/ HostLeaves PROVE StatusInv'
<1>1. UNCHANGED <<xusb, pc, state, cbw, lun, out, inq>>
  BY DEF HostResets, HostLeaves
<1>2. NoStatus' = NoStatus /\ OneStatus' = OneStatus /\ AllCurrent' = AllCurrent
        /\ NoCurrent' = NoCurrent /\ NoFailure' = NoFailure
        /\ Busy' = Busy /\ ResetPending' = ResetPending
  BY <1>1 DEF NoStatus, OneStatus, AllCurrent, NoCurrent, NoFailure, StatusAt, Busy, ResetPending
<1>3. CASE HostResets
  <2>1. /\ csw' = csw /\ plug' = plug /\ plug = "on" /\ host.ph # "idle" /\ csw.status = "none"
        /\ host \in Hosts
    BY <1>3 DEF HostResets, StatusInv, OneAnswer, BoundsInv, GadgetTypes
  <2>2. host'.ph = "reset" /\ host'.resets = host.resets + 1 /\ host.resets \in Nat
    BY <1>3, <2>1 DEF HostResets, Hosts
  <2>3. Told' = Told /\ ~Told /\ host'.resets # 0
    BY <2>1, <2>2 DEF Told
  <2>4. csw' \in Csws /\ States' /\ OneAnswer'
    BY <1>1, <1>2, <2>1, <2>2, <2>3 DEF StatusInv, States, OneAnswer
  <2>5. ResetsSafe' /\ SenseThere' /\ Flushed' /\ InStep' /\ Current'
    BY <1>1, <1>2, <2>1, <2>2, <2>3 DEF StatusInv, ResetsSafe, SenseThere, Flushed, InStep, Current
  <2> QED BY <2>4, <2>5 DEF StatusInv
<1>4. CASE HostLeaves
  <2>1. csw' \in Csws /\ csw'.status = "none" /\ host'.ph = "idle" /\ plug' # "on"
    BY <1>4 DEF HostLeaves, NoCsw, Csws
  <2>2. ~Told'
    BY <2>1 DEF Told
  <2>3. States' /\ OneAnswer'
    BY <1>1, <1>2, <2>1, <2>2 DEF StatusInv, States, OneAnswer
  <2>4. ResetsSafe' /\ SenseThere' /\ Flushed' /\ InStep' /\ Current'
    BY <1>1, <1>2, <2>1, <2>2 DEF StatusInv, ResetsSafe, SenseThere, Flushed, InStep, Current
  <2> QED BY <2>1, <2>3, <2>4 DEF StatusInv
<1> QED BY <1>3, <1>4

LEMMA NextStatus == BoundsInv /\ BoundsInv' /\ StatusInv /\ [UmsNext]_umsVars => StatusInv'
<1> SUFFICES ASSUME BoundsInv, BoundsInv', StatusInv, [UmsNext]_umsVars PROVE StatusInv'
  OBVIOUS
<1>1. CASE Start \/ Buttons \/ HandleException \/ AskForCommand \/ StaleCommand
  BY <1>1, StartStatus, ExceptionStatus, AskStatus, StaleStatus
<1>2. CASE JunkCommand \/ \E st \in {"timeout", "error", "disabled"} : NoCommand(st)
  BY <1>2, NoCommandStatus
<1>3. CASE \E c \in Commands : GetNextCommand(c)
  BY <1>3, GetNextStatus
<1>4. CASE \E ok \in BOOLEAN : Parse(ok) \/ ReadChunk(ok) \/ WriteChunk(ok)
  BY <1>4, ParseStatus, MoveStatus
<1>5. CASE FinishIn \/ PadMore \/ FinishOut \/ LastSent \/ StatusSent \/ XusbEp0
             \/ Usb2Ep0InFinish
  BY <1>5, FinishInStatus, PadMoreStatus, FinishOutStatus, LastSentStatus, StatusSentStatus, Ep0WaitStatus
<1>6. CASE HostTakes \/ HostResets \/ HostLeaves
  BY <1>6, HostTakesStatus, HostGoesStatus
<1>7. CASE UNCHANGED umsVars
  <2>1. UNCHANGED <<xusb, pc, state, cbw, lun, out, inq, host, plug, csw>>
    BY <1>7 DEF umsVars
  <2>2. NoStatus' = NoStatus /\ OneStatus' = OneStatus /\ AllCurrent' = AllCurrent
          /\ NoCurrent' = NoCurrent /\ NoFailure' = NoFailure
          /\ Busy' = Busy /\ ResetPending' = ResetPending /\ Told' = Told
    BY <2>1 DEF NoStatus, OneStatus, AllCurrent, NoCurrent, NoFailure, StatusAt, Busy,
       ResetPending, Told
  <2> QED BY <2>1, <2>2 DEF StatusInv, States, OneAnswer, ResetsSafe, SenseThere, Flushed, InStep,
        Current
<1> QED BY <1>1, <1>2, <1>3, <1>4, <1>5, <1>6, <1>7 DEF UmsNext, Gadget

\* On either controller, through timeouts, late answers, ignored packets, resets
\* and a cable that goes, the status block a host takes is that of its
\* outstanding command (on XUSB as long as the host has not reset), and a
\* failure it is told of can still be asked about.
THEOREM StatusAlwaysSound == UmsSpec => []StatusSound
<1>1. StatusInv => StatusSound
  BY DEF StatusInv, Current, SenseThere, Told, StatusSound, CswIsCurrent, FailKeepsSense
<1>2. UmsSpec => []StatusInv
  BY InitStatus, NextStatus, BoundsHold, PTL DEF UmsSpec
<1> QED BY <1>1, <1>2, PTL

----------------------------------------------------------------------------
(* What a status block says, from the command to the host. *)

\* Where CswHonest makes its claim.
InScope == plug = "on" /\ (~xusb \/ host.resets = 0)

\* The host waits for the gadget.
Awaits == host.ph \notin {"idle", "reset"}

\* The status that would be sent now is a pass.
PassNow == ~sz.phase /\ lun.sense = "none"

\* The first k units of s are the sectors from a on.
Run(s, k, a) == k <= Len(s) /\ \A i \in 1 .. k : s[i] = a + i - 1

\* The sectors k units of a write from a on leave.
Written(k, a) == {<<a + i, HOST>> : i \in 0 .. k - 1}

\* The units the command has moved so far.
Moved == cbw.h - sz.residue

WrittenNow(residue) ==
    cbw.op = "write" /\ ~ro /\ (xusb \/ ~host.short) => wrote = Written(cbw.h - residue, cbw.lba)

\* Nothing is left on the IN endpoint when a command starts or writes, and a status is last.
InEmpty ==
    /\ pc \in {"parse", "write"} => inq = <<>>
    /\ pc = "read" /\ ~io.flight => inq = <<>>
    /\ ~xusb => /\ pc \in {"start", "cbw"} \/ (pc = "top" /\ state = NORMAL) => inq = <<>>
                /\ Len(inq) <= 1
    /\ xusb => /\ host.ph = "idle" => inq = <<>>
               /\ \A j \in DOMAIN inq : StatusAt(j) => j = Len(inq)

\* The command before it is parsed.
AtParse ==
    pc = "parse" =>
        /\ cbw.op \in {"read", "write"} => cbw.n > 0
        /\ cbw.odd /\ cbw.op = "read" => cbw.h > 1
        /\ cbw.h = 0 => cbw.dir = "none"
        /\ Awaits /\ cbw.dir = "in" => host.ph = "datain" /\ host.left = cbw.h /\ got = <<>>

\* The loops of _scsi_read and _scsi_write.
Moving ==
    pc \in {"read", "write"} =>
        /\ cbw.op = pc /\ lun.sense = "none" /\ (~sz.phase => io.todo + Moved = cbw.n)
        /\ sz.residue <= cbw.h /\ io.todo > 0 /\ io.lba = cbw.lba + Moved
        /\ WrittenNow(sz.residue)

\* What a read has sent is what the host has taken and the chunk in flight.
Reading ==
    pc = "read" =>
        /\ cbw.dir = "in"
        /\ Awaits =>
            /\ host.ph = "datain" /\ host.left = cbw.h - Len(got) /\ Run(got, Len(got), cbw.lba)
            /\ \/ inq = <<>> /\ Len(got) = Moved
               \/ /\ Len(inq) = 1 /\ inq[1].k = "card" /\ Len(inq[1].units) > 0
                  /\ Run(inq[1].units, Len(inq[1].units), cbw.lba + Len(got))
                  /\ Len(got) + Len(inq[1].units) = Moved
                  /\ xusb => txc = 1

\* A command worked off, its status not yet sent.
Pending ==
    pc \in {"finish", "lastwait"} \/ (pc = "top" /\ state = ABORT_BULK_OUT) =>
        /\ WrittenNow(sz.residue)
        /\ PassNow /\ cbw.op = "write" /\ ~host.short => Moved = cbw.n
        /\ PassNow /\ cbw.op = "read" => Moved = cbw.n /\ cbw.dir = "in"
        /\ pc = "top" => cbw.dir = "out"

\* A read that passes before its last chunk is sent ...
Finishing ==
    pc = "finish" /\ PassNow /\ cbw.op = "read" =>
        /\ ~io.flight /\ Len(ibuf) <= InMax
        /\ Awaits => /\ inq = <<>>
                     /\ host.ph = "datain" /\ host.left = cbw.h - Len(got)
                     /\ Run(got, Len(got), cbw.lba)
                     /\ Run(ibuf, Len(ibuf), cbw.lba + Len(got)) /\ Len(got) + Len(ibuf) = cbw.n

\* Where the data of a read is vouched for, and the zeros still to be queued behind it.
Vouched == cbw.op = "read" /\ (~xusb \/ OneBuffer)
Rest == IF sz.residue > 0 THEN sz.left ELSE 0

\* ... and after: the host has it, or it is queued, or (on USB2) a transfer that timed out
\* was dropped, and the host will never have all that it asked for.
Complete == inq = <<>> /\ host.left = Rest /\ Run(got, cbw.n, cbw.lba)
              /\ host.ph = IF Rest = 0 THEN "csw" ELSE "datain"
Queued == /\ Len(inq) = 1 /\ inq[1].k = "card" /\ host.ph = "datain"
          /\ Len(inq[1].units) + Rest = host.left /\ (Rest > 0 => Len(inq[1].units) > 0)
          /\ Run(got \o inq[1].units, cbw.n, cbw.lba)
Starved == /\ ~xusb /\ host.ph = "datain" /\ Rest < host.left
           /\ inq # <<>> => /\ Len(inq) = 1 /\ inq[1].k = "card" /\ Len(inq[1].units) > 0
                            /\ Len(inq[1].units) + Rest < host.left

Last ==
    pc = "lastwait" /\ PassNow /\ Vouched /\ Awaits =>
        (xusb => Rest = 0) /\ (Complete \/ Queued \/ Starved)

Truth(status, residue) ==
    /\ WrittenNow(residue)
    /\ status = "pass" /\ cbw.op = "write" /\ ~host.short => cbw.h - residue = cbw.n
    /\ status = "pass" /\ cbw.op = "read" => cbw.h - residue = cbw.n

\* A status the host has not taken yet is true, and what it vouches for is before it.
OnTheWay ==
    cbw.cur /\ Awaits =>
      \A j \in DOMAIN inq : StatusAt(j) /\ inq[j].cur =>
        /\ Truth(inq[j].status, inq[j].residue)
        /\ inq[j].status = "pass" /\ Vouched =>
             /\ host.ph # "dataout"
             /\ host.ph = "csw" => Run(got, cbw.n, cbw.lba)
             /\ host.ph = "datain" /\ j # 1 =>
                  /\ j = 2 /\ ~StatusAt(1) /\ Len(inq[1].units) = host.left
                  /\ Run(got \o inq[1].units, cbw.n, cbw.lba)

\* A status the host has taken is true.
Taken ==
    Told /\ cbw.cur /\ host.ph = "idle" =>
        /\ Truth(csw.status, csw.residue)
        /\ csw.status = "pass" /\ Vouched => Run(got, cbw.n, cbw.lba)

Honest ==
    InEmpty /\ AtParse /\ Moving /\ Reading /\ Pending /\ Finishing /\ Last /\ OnTheWay /\ Taken

HonestInv ==
    /\ got \in Seq(Int) /\ (csw.fresh => csw.status # "none")
    /\ InScope => Honest

\* A command still worked on has no status, one that is not says nothing of its data.
LEMMA ToBusy == ASSUME StatusInv', Busy' PROVE OnTheWay' /\ Taken'
<1>1. ~Told' /\ NoCurrent'
  BY DEF StatusInv, OneAnswer
<1>2. OnTheWay'
  BY <1>1 DEF OnTheWay, NoCurrent, StatusAt
<1>3. Taken'
  BY <1>1 DEF Taken
<1> QED BY <1>2, <1>3

LEMMA ToFree ==
  ASSUME ~Busy' PROVE AtParse' /\ Moving' /\ Reading' /\ Pending' /\ Finishing' /\ Last'
<1>1. /\ pc' \notin {"parse", "read", "write", "finish", "lastwait"}
      /\ ~(pc' = "top" /\ state' = ABORT_BULK_OUT)
  BY DEF Busy
<1> QED BY <1>1 DEF AtParse, Moving, Reading, Pending, Finishing, Last

\* What the controllers give where the claim is made.
LEMMA ScopeFacts ==
  ASSUME BoundsInv, StatusInv, InScope
  PROVE  /\ xusb => /\ Busy => Awaits
                    /\ ~ResetPending /\ host.ph # "reset"
                    /\ out.pkt # NoCbw => out.ignore
         /\ Busy => NoStatus /\ ~Told /\ cbw.cur
         /\ xusb \in BOOLEAN
<1>1. xusb \in BOOLEAN /\ plug = "on" /\ (~xusb \/ host.resets = 0)
  BY DEF BoundsInv, GadgetTypes, InScope
<1>2. Busy => pc # "cswwait"
  BY DEF Busy
<1> QED BY <1>1, <1>2 DEF StatusInv, InStep, Flushed, OneAnswer, Awaits

LEMMA NoneOnTheWay == ASSUME NoStatus \/ ~cbw.cur \/ ~Awaits PROVE OnTheWay
BY DEF NoStatus, OnTheWay

LEMMA NoneTaken == ASSUME ~Told \/ ~cbw.cur \/ host.ph # "idle" PROVE Taken
BY DEF Taken

LEMMA EmptyNone == ASSUME inq = <<>> PROVE NoStatus
<1>1. DOMAIN inq = {}
  OBVIOUS
<1> QED BY <1>1 DEF NoStatus

\* Nothing a status is about changes.
LEMMA SameWay ==
  ASSUME UNCHANGED <<xusb, ro, cbw, host, wrote, got, csw>>, inq' = inq \/ inq' = <<>>,
         OnTheWay, Taken
  PROVE  OnTheWay' /\ Taken'
<1>1. Taken'
  BY DEF Taken, Told, Truth, WrittenNow, Vouched, OneBuffer
<1>2. CASE inq' = <<>>
  BY <1>1, <1>2, EmptyNone, NoneOnTheWay DEF OnTheWay
<1>3. CASE inq' = inq
  <2>1. OnTheWay'
    BY <1>3 DEF OnTheWay, Awaits, Truth, WrittenNow, StatusAt, Vouched, OneBuffer
  <2> QED BY <1>1, <2>1
<1> QED BY <1>2, <1>3

LEMMA SameInEmpty ==
  ASSUME BoundsInv, InEmpty, inq' = inq \/ inq' = <<>>, UNCHANGED <<xusb, host>>,
         pc' \notin {"parse", "read", "write"},
         ~xusb /\ (pc' \in {"start", "cbw"} \/ (pc' = "top" /\ state' = NORMAL)) => inq' = <<>>
  PROVE  InEmpty'
<1>1. Len(<<>>) = 0 /\ DOMAIN <<>> = {}
  OBVIOUS
<1>2. CASE inq' = <<>>
  BY <1>1, <1>2 DEF InEmpty
<1>3. CASE inq' = inq
  BY <1>3 DEF InEmpty, StatusAt
<1> QED BY <1>2, <1>3

----------------------------------------------------------------------------
(* Every step keeps the status honest. *)

LEMMA InitHonest == UmsInit => HonestInv
<1> SUFFICES ASSUME UmsInit PROVE HonestInv
  OBVIOUS
<1>1. /\ inq = <<>> /\ got = <<>> /\ csw.status = "none" /\ ~csw.fresh /\ pc = "start"
      /\ host.ph = "idle"
  BY DEF UmsInit, NoCsw
<1>2. InEmpty
  BY <1>1 DEF InEmpty
<1>3. AtParse /\ Moving /\ Reading /\ Pending /\ Finishing /\ Last
  BY <1>1 DEF AtParse, Moving, Reading, Pending, Finishing, Last
<1>4. OnTheWay /\ Taken
  BY <1>1, EmptyNone, NoneOnTheWay, NoneTaken DEF Told
<1> QED BY <1>1, <1>2, <1>3, <1>4 DEF HonestInv, Honest

LEMMA StartHonest ==
  ASSUME BoundsInv, StatusInv, HonestInv, Start \/ Buttons PROVE HonestInv'
<1>1. /\ UNCHANGED <<xusb, ro, state, cbw, inq, host, plug, wrote, got, csw>>
      /\ pc \in {"start", "top"} /\ pc' \in {"top", "done"} /\ (pc = "top" => pc' = "done")
  BY DEF Start, Buttons
<1>2. ~Busy' /\ (pc' = "top" => pc = "start")
  BY <1>1 DEF Busy, StatusInv, States, NORMAL, ABORT_BULK_OUT
<1>3. InScope' => InScope
  BY <1>1 DEF InScope
<1>4. ASSUME Honest PROVE Honest'
  <2>1. InEmpty'
    BY <1>1, <1>2, <1>4, SameInEmpty DEF Honest, InEmpty
  <2>2. OnTheWay' /\ Taken'
    BY <1>1, <1>4, SameWay DEF Honest
  <2> QED BY <1>2, <2>1, <2>2, ToFree DEF Honest
<1> QED BY <1>1, <1>3, <1>4 DEF HonestInv

\* A status that is sent is the last on the endpoint and the first of its command.
LEMMA SendLast ==
  ASSUME BoundsInv, SendStatus, NoStatus
  PROVE  /\ \A j \in DOMAIN inq' : inq'[j].k = "csw" =>
              j = Len(inq') /\ inq'[j] = StatusItem
         /\ ~xusb => Len(inq') = 1
         /\ xusb => Len(inq') = Len(inq) + 1 /\ \A j \in 1 .. Len(inq) : inq'[j] = inq[j]
<1>1. inq \in Seq(Items) /\ xusb \in BOOLEAN
  BY DEF BoundsInv, GadgetTypes
<1>2. PICK x \in Items : x = StatusItem
  <2>1. StatusItem \in Items
    BY DEF StatusItem, Items, BoundsInv, GadgetTypes, Cbws, Szs
  <2> QED BY <2>1
<1>3. Queue(x)
  BY <1>2 DEF SendStatus, StatusItem
<1>4. x.k = "csw"
  BY <1>2 DEF StatusItem
<1>5. CASE ~xusb
  <2>1. inq' = <<x>>
    BY <1>3, <1>5 DEF Queue
  <2> QED BY <1>2, <1>5, <2>1
<1>6. CASE xusb
  <2> DEFINE s == [j \in 1 .. Len(inq) |->
                     IF inq[j].k = "csw" /\ x.k # "card" THEN x ELSE inq[j]]
  <2>1. inq' = Append(s, x)
    BY <1>3, <1>6 DEF Queue
  <2>2. \A j \in 1 .. Len(inq) : s[j] = inq[j] /\ inq[j].k # "csw"
    BY <1>1 DEF NoStatus, StatusAt
  <2>3. s \in Seq(Items) /\ Len(s) = Len(inq)
    BY <1>1
  <2> HIDE DEF s
  <2>4. Len(inq') = Len(inq) + 1 /\ DOMAIN inq' = 1 .. Len(inq) + 1 /\ inq'[Len(inq) + 1] = x
    BY <2>1, <2>3
  <2>5. \A j \in 1 .. Len(inq) : inq'[j] = inq[j]
    BY <2>1, <2>2, <2>3
  <2>6. \A j \in 1 .. Len(inq) + 1 : j \in 1 .. Len(inq) \/ j = Len(inq) + 1
    BY <1>1
  <2> QED BY <1>2, <1>6, <2>2, <2>4, <2>5, <2>6
<1> QED BY <1>1, <1>5, <1>6

\* The status sent is true, whichever way the command came to it.
LEMMA SendHonest ==
  ASSUME BoundsInv, StatusInv, InScope, Honest, SendStatus, Busy,
         pc \notin {"parse", "read", "write"},
         UNCHANGED <<xusb, ro, cbw, wrote, got, csw>>,
         host.short => host'.short, xusb => host'.ph # "idle",
         cbw.dir # "in" \/ (pc = "lastwait" /\ ~Padding /\ host' = host)
  PROVE  InEmpty' /\ OnTheWay' /\ Taken' /\ ~Busy'
<1>1. NoStatus /\ ~Told /\ cbw.cur /\ xusb \in BOOLEAN
  BY ScopeFacts
<1>2. pc' = "cswwait" /\ ~Busy'
  BY DEF SendStatus, Busy
<1>3. Taken'
  BY <1>1, NoneTaken DEF Taken, Told
<1>4. /\ \A j \in DOMAIN inq' : inq'[j].k = "csw" => j = Len(inq') /\ inq'[j] = StatusItem
      /\ ~xusb => Len(inq') = 1
      /\ xusb => Len(inq') = Len(inq) + 1 /\ \A j \in 1 .. Len(inq) : inq'[j] = inq[j]
  BY <1>1, SendLast
<1>5. InEmpty'
  <2>1. ASSUME ~xusb PROVE Len(inq') <= 1
    <3>1. Len(inq') = 1
      BY <1>4, <2>1
    <3> QED BY <3>1
  <2> QED BY <1>2, <1>4, <2>1 DEF InEmpty, StatusAt
<1>6. StatusItem.residue = sz.residue /\ (StatusItem.status = "pass" => PassNow)
  BY DEF StatusItem, PassNow
<1>7. pc \in {"finish", "lastwait"} \/ (pc = "top" /\ state = ABORT_BULK_OUT)
  BY DEF Busy
<1>8. /\ WrittenNow(sz.residue)
      /\ PassNow /\ cbw.op = "write" /\ ~host.short => Moved = cbw.n
      /\ PassNow /\ cbw.op = "read" => Moved = cbw.n /\ cbw.dir = "in"
  BY <1>7 DEF Honest, Pending
<1>9. PICK res : res = sz.residue
  OBVIOUS
<1>10. ASSUME NEW st, st = "pass" => PassNow PROVE Truth(st, res)'
  <2>1. WrittenNow(res)'
    BY <1>8, <1>9 DEF WrittenNow
  <2> QED BY <1>8, <1>9, <1>10, <2>1 DEF Truth, Moved
<1>11. OnTheWay'
  <2> SUFFICES ASSUME Awaits', NEW j \in DOMAIN inq', inq'[j].k = "csw"
               PROVE  /\ Truth(inq[j].status, inq[j].residue)'
                      /\ inq'[j].status = "pass" /\ Vouched =>
                           /\ host'.ph # "dataout"
                           /\ host'.ph = "csw" => Run(got, cbw.n, cbw.lba)
                           /\ host'.ph = "datain" /\ j # 1 =>
                                /\ j = 2 /\ inq'[1].k # "csw" /\ Len(inq'[1].units) = host'.left
                                /\ Run(got \o inq'[1].units, cbw.n, cbw.lba)
    BY DEF OnTheWay, StatusAt, Vouched, OneBuffer
  <2>1. j = Len(inq') /\ inq'[j] = StatusItem
    BY <1>4
  <2>2. PICK st : st = inq'[j].status
    OBVIOUS
  <2>3. inq'[j].residue = res /\ (st = "pass" => PassNow)
    BY <1>6, <1>9, <2>1, <2>2
  <2>4. Truth(st, res)'
    BY <1>10, <2>3
  <2>5. Truth(inq[j].status, inq[j].residue)'
    BY <2>2, <2>3, <2>4 DEF Truth, WrittenNow
  <2>6. ASSUME st = "pass", Vouched
        PROVE  /\ host'.ph # "dataout"
               /\ host'.ph = "csw" => Run(got, cbw.n, cbw.lba)
               /\ host'.ph = "datain" /\ j # 1 =>
                    /\ j = 2 /\ inq'[1].k # "csw" /\ Len(inq'[1].units) = host'.left
                    /\ Run(got \o inq'[1].units, cbw.n, cbw.lba)
    <3>1. PassNow /\ pc = "lastwait" /\ host' = host /\ Awaits /\ ~Padding
      BY <1>8, <2>3, <2>6 DEF Awaits, Vouched
    <3>5. Rest = 0 /\ host.left \in Nat
      BY <3>1 DEF Rest, Padding, BoundsInv, GadgetTypes, Szs, Hosts
    <3>6. Complete \/ Queued \/ Starved
      BY <2>6, <3>1 DEF Honest, Last
    <3>7. ASSUME Queued PROVE Len(inq[1].units) = host.left
      <4>3. inq \in Seq(Items) /\ Len(inq) = 1
        BY <3>7 DEF Queued, BoundsInv, GadgetTypes
      <4>4. 1 \in DOMAIN inq
        BY <4>3
      <4>5. inq[1] \in Items
        BY <4>3, <4>4
      <4>1. inq[1] \in Items /\ inq[1].k = "card"
        BY <3>7, <4>5 DEF Queued
      <4>2. Len(inq[1].units) \in Nat
        BY <4>1 DEF Items
      <4> QED BY <3>5, <3>7, <4>2 DEF Queued
    <3>2. \/ inq = <<>> /\ host.ph = "csw" /\ Run(got, cbw.n, cbw.lba)
          \/ /\ Len(inq) = 1 /\ inq[1].k = "card" /\ host.ph = "datain"
             /\ Len(inq[1].units) = host.left /\ Run(got \o inq[1].units, cbw.n, cbw.lba)
          \/ ~xusb /\ host.ph = "datain"
      BY <3>5, <3>6, <3>7 DEF Complete, Queued, Starved
    <3>3. CASE inq = <<>> /\ host.ph = "csw" /\ Run(got, cbw.n, cbw.lba)
      BY <3>1, <3>3
    <3>4. CASE /\ Len(inq) = 1 /\ inq[1].k = "card" /\ host.ph = "datain"
               /\ Len(inq[1].units) = host.left /\ Run(got \o inq[1].units, cbw.n, cbw.lba)
      <4>1. CASE xusb
        <5>1. Len(inq') = 2 /\ inq'[1] = inq[1]
          BY <1>4, <3>4, <4>1
        <5> QED BY <2>1, <3>1, <3>4, <5>1
      <4>2. CASE ~xusb
        BY <1>4, <2>1, <3>1, <3>4, <4>2
      <4> QED BY <4>1, <4>2
    <3>8. CASE ~xusb /\ host.ph = "datain"
      BY <1>4, <2>1, <3>1, <3>8
    <3> QED BY <3>2, <3>3, <3>4, <3>8
  <2> QED BY <2>2, <2>5, <2>6
<1> QED BY <1>2, <1>3, <1>5, <1>11

LEMMA ExceptionHonest ==
  ASSUME BoundsInv, StatusInv, HonestInv, HandleException PROVE HonestInv'
<1>1. pc = "top" /\ state # NORMAL /\ UNCHANGED <<xusb, ro, cbw, host, plug, wrote, got, csw>>
  BY DEF HandleException
<1>2. InScope' => InScope
  BY <1>1 DEF InScope
<1>3. ASSUME InScope, Honest PROVE Honest'
  <2>1. CASE state = ABORT_BULK_OUT
    <3>1. SendStatus /\ Busy
      BY <1>1, <2>1 DEF HandleException, Busy
    <3>2. cbw.dir # "in"
      BY <1>1, <1>3, <2>1 DEF Honest, Pending
    <3>3. xusb => host'.ph # "idle"
      BY <1>1, <1>3, <3>1, ScopeFacts DEF Awaits
    <3>4. InEmpty' /\ OnTheWay' /\ Taken' /\ ~Busy'
      BY <1>1, <1>3, <3>1, <3>2, <3>3, SendHonest
    <3> QED BY <3>4, ToFree DEF Honest
  <2>2. CASE state # ABORT_BULK_OUT
    <3>1. /\ inq' = IF xusb THEN inq ELSE <<>>
          /\ state' = IF state = EXIT THEN TERMINATED ELSE NORMAL
          /\ pc' = IF state = EXIT THEN "done" ELSE "top"
      BY <2>2 DEF HandleException
    <3>2. pc' \in {"top", "done"} /\ ~Busy'
      BY <3>1 DEF Busy, TERMINATED, NORMAL, ABORT_BULK_OUT
    <3>3. InEmpty'
      BY <1>1, <1>3, <3>1, <3>2, SameInEmpty DEF Honest
    <3>4. OnTheWay' /\ Taken'
      BY <1>1, <1>3, <3>1, SameWay DEF Honest
    <3> QED BY <3>2, <3>3, <3>4, ToFree DEF Honest
  <2> QED BY <2>1, <2>2
<1> QED BY <1>1, <1>2, <1>3 DEF HonestInv

LEMMA AskHonest ==
  ASSUME BoundsInv, StatusInv, HonestInv, AskForCommand PROVE HonestInv'
<1>1. /\ pc = "top" /\ state = NORMAL /\ pc' = "cbw" /\ host' = HostEp0
      /\ UNCHANGED <<xusb, ro, inq, plug>>
  BY DEF AskForCommand
<1>2. /\ HostEp0.ph = host.ph \/ (HostEp0.ph = "idle" /\ host.ph = "reset" /\ ~xusb)
      /\ HostEp0.resets = host.resets /\ (xusb => HostEp0 = host)
      /\ HostEp0 = host \/ HostEp0.ph = "idle"
  BY <1>1, Ep0Facts, Ep0OK
<1>3. InScope' => InScope
  BY <1>1, <1>2 DEF InScope
<1>4. /\ \/ cbw' = NoCbw /\ got' = <<>> /\ csw' = [csw EXCEPT !.fresh = FALSE]
         \/ UNCHANGED <<cbw, wrote, got, csw>> /\ (host.ph = "idle" => csw.status = "none")
  BY DEF AskForCommand
<1>5. got' \in Seq(Int) /\ (csw'.fresh => csw'.status # "none")
  <2>1. csw \in Csws /\ got \in Seq(Int) /\ (csw.fresh => csw.status # "none")
    BY DEF StatusInv, HonestInv
  <2>2. CASE got' = <<>> /\ csw' = [csw EXCEPT !.fresh = FALSE]
    <3>1. ~csw'.fresh
      BY <2>1, <2>2 DEF Csws
    <3> QED BY <2>2, <3>1
  <2>3. CASE UNCHANGED <<got, csw>>
    BY <2>1, <2>3
  <2> QED BY <1>4, <2>2, <2>3
<1>6. ~Busy'
  BY <1>1 DEF Busy
<1>7. ASSUME InScope, Honest PROVE Honest'
  <2>1. xusb \in BOOLEAN /\ (~xusb => inq = <<>>)
    BY <1>1, <1>7 DEF Honest, InEmpty, BoundsInv, GadgetTypes
  <2>2. InEmpty'
    <3>1. CASE xusb
      BY <1>1, <1>2, <1>7, <3>1 DEF Honest, InEmpty, StatusAt
    <3>2. CASE ~xusb
      <4>1. inq' = <<>> /\ Len(inq') <= 1
        BY <1>1, <2>1, <3>2
      <4> QED BY <1>1, <3>2, <4>1 DEF InEmpty
    <3> QED BY <2>1, <3>1, <3>2
  <2>3. CASE cbw' = NoCbw
    <3>1. ~cbw'.cur
      BY <2>3 DEF NoCbw
    <3>2. OnTheWay' /\ Taken'
      BY <3>1 DEF OnTheWay, Taken
    <3> QED BY <1>6, <2>2, <3>2, ToFree DEF Honest
  <2>4. CASE UNCHANGED <<cbw, wrote, got, csw>> /\ (host.ph = "idle" => csw.status = "none")
    <3>1. Taken'
      <4>1. csw.status = "none"
        BY <2>4 DEF StatusInv, OneAnswer
      <4> QED BY <2>4, <4>1 DEF Taken, Told
    <3>2. OnTheWay'
      <4>1. CASE host' = host
        BY <1>1, <1>7, <2>4, <4>1, SameWay DEF Honest
      <4>2. CASE host'.ph = "idle"
        BY <4>2 DEF OnTheWay, Awaits
      <4> QED BY <1>1, <1>2, <4>1, <4>2
    <3> QED BY <1>6, <2>2, <3>1, <3>2, ToFree DEF Honest
  <2> QED BY <1>4, <2>3, <2>4
<1> QED BY <1>3, <1>5, <1>7 DEF HonestInv

LEMMA NoCommandHonest ==
  ASSUME BoundsInv, StatusInv, HonestInv, NEW st \in {"timeout", "error", "disabled"}, NoCommand(st)
  PROVE  HonestInv'
<1>1. /\ pc = "cbw" /\ state' = Counted(st) /\ pc' = "top"
      /\ UNCHANGED <<xusb, ro, cbw, inq, host, plug, wrote, got, csw>>
  BY DEF NoCommand
<1>2. state' \in {state, EXIT} /\ state \in {NORMAL, PROTOCOL_RESET}
  BY <1>1, CountOK DEF StatusInv, States
<1>3. ~Busy'
  BY <1>1, <1>2 DEF Busy, NORMAL, PROTOCOL_RESET, EXIT, ABORT_BULK_OUT
<1>4. InScope' => InScope
  BY <1>1 DEF InScope
<1>5. ASSUME Honest PROVE Honest'
  <2>1. InEmpty'
    BY <1>1, <1>5, SameInEmpty DEF Honest, InEmpty
  <2>2. OnTheWay' /\ Taken'
    BY <1>1, <1>5, SameWay DEF Honest
  <2> QED BY <1>3, <2>1, <2>2, ToFree DEF Honest
<1> QED BY <1>1, <1>4, <1>5 DEF HonestInv

LEMMA JunkHonest ==
  ASSUME BoundsInv, StatusInv, HonestInv, JunkCommand PROVE HonestInv'
<1>1. /\ pc = "cbw" /\ host.ph = "dataout" /\ state' = Counted("ok") /\ pc' = "top"
      /\ UNCHANGED <<xusb, ro, cbw, inq, plug, wrote, got, csw>>
  BY DEF JunkCommand
<1>2. state' \in {state, EXIT} /\ state \in {NORMAL, PROTOCOL_RESET}
  BY <1>1, CountOK DEF StatusInv, States
<1>3. ~Busy'
  BY <1>1, <1>2 DEF Busy, NORMAL, PROTOCOL_RESET, EXIT, ABORT_BULK_OUT
<1>4. host'.ph \in {"csw", "dataout"} /\ host'.short = host.short /\ host'.resets = host.resets
  <2>1. host \in Hosts
    BY DEF BoundsInv, GadgetTypes
  <2>2. PICK m, q : m = host.left - 1 /\ q = IF host.left = 1 THEN "csw" ELSE host.ph
    OBVIOUS
  <2>3. host' = [host EXCEPT !.left = m, !.ph = q]
    BY <2>2, <2>1 DEF JunkCommand, Hosts
  <2> QED BY <1>1, <2>1, <2>2, <2>3 DEF Hosts
<1>5. InScope' => InScope
  BY <1>1, <1>4 DEF InScope
<1>6. ASSUME InScope, Honest PROVE Honest'
  <2>1. xusb \in BOOLEAN
    BY DEF BoundsInv, GadgetTypes
  <2>2. InEmpty'
    <3>1. ~xusb => inq = <<>> /\ Len(inq) <= 1
      BY <1>1, <1>6 DEF Honest, InEmpty
    <3> QED BY <1>1, <1>4, <1>6, <3>1 DEF Honest, InEmpty, StatusAt
  <2>3. Taken'
    BY <1>4 DEF Taken
  <2>4. OnTheWay'
    <3>1. ASSUME cbw.cur, NEW j \in DOMAIN inq, StatusAt(j), inq[j].cur
          PROVE  /\ Truth(inq[j].status, inq[j].residue)
                 /\ ~(inq[j].status = "pass" /\ Vouched)
      BY <1>1, <1>6, <3>1 DEF Honest, OnTheWay, Awaits
    <3>2. Vouched' = Vouched
      BY <1>1 DEF Vouched, OneBuffer
    <3> QED BY <1>1, <1>4, <3>1, <3>2 DEF OnTheWay, StatusAt, Truth, WrittenNow
  <2> QED BY <1>3, <2>2, <2>3, <2>4, ToFree DEF Honest
<1> QED BY <1>1, <1>5, <1>6 DEF HonestInv

LEMMA StaleHonest ==
  ASSUME BoundsInv, StatusInv, HonestInv, StaleCommand PROVE HonestInv'
<1>1. pc = "cbw" /\ xusb /\ UNCHANGED <<xusb, ro, inq, host, plug, got, csw>>
  BY DEF StaleCommand
<1>2. InScope' => InScope
  BY <1>1 DEF InScope
<1>3. ASSUME InScope, Honest PROVE Honest'
  <2>1. out.pkt # NoCbw => out.ignore
    BY <1>1, <1>3, ScopeFacts
  <2>2. state' = Counted("ok") /\ pc' = "top" /\ UNCHANGED <<cbw, wrote>>
    BY <2>1 DEF StaleCommand
  <2>3. state' \in {state, EXIT} /\ state \in {NORMAL, PROTOCOL_RESET}
    BY <1>1, <2>2, CountOK DEF StatusInv, States
  <2>4. ~Busy'
    BY <2>2, <2>3 DEF Busy, NORMAL, PROTOCOL_RESET, EXIT, ABORT_BULK_OUT
  <2>5. InEmpty'
    BY <1>1, <1>3, <2>2, SameInEmpty DEF Honest
  <2>6. OnTheWay' /\ Taken'
    BY <1>1, <1>3, <2>2, SameWay DEF Honest
  <2> QED BY <2>4, <2>5, <2>6, ToFree DEF Honest
<1> QED BY <1>1, <1>2, <1>3 DEF HonestInv

LEMMA StatusSentHonest ==
  ASSUME BoundsInv, StatusInv, HonestInv, StatusSent PROVE HonestInv'
<1>1. /\ pc = "cswwait" /\ pc' = "top" /\ inq' = IF xusb THEN inq ELSE <<>>
      /\ UNCHANGED <<xusb, ro, state, cbw, host, plug, wrote, got, csw>>
  BY DEF StatusSent
<1>2. ~Busy'
  BY <1>1 DEF Busy, StatusInv, States, NORMAL, ABORT_BULK_OUT
<1>3. InScope' => InScope
  BY <1>1 DEF InScope
<1>4. ASSUME Honest PROVE Honest'
  <2>1. InEmpty'
    BY <1>1, <1>4, SameInEmpty DEF Honest
  <2>2. OnTheWay' /\ Taken'
    BY <1>1, <1>4, SameWay DEF Honest
  <2> QED BY <1>2, <2>1, <2>2, ToFree DEF Honest
<1> QED BY <1>1, <1>3, <1>4 DEF HonestInv

\* The host gives up, or its reset is acknowledged; the gadget has not noticed.
LEMMA HostSilent ==
  ASSUME Honest, ~xusb, csw.status = "none", ~Awaits', host'.short = host.short,
         UNCHANGED <<xusb, ro, pc, state, cbw, sz, lun, io, ibuf, inq, txc, wrote, got, csw>>
  PROVE  Honest'
<1>1. InEmpty'
  BY DEF Honest, InEmpty
<1>2. AtParse' /\ Reading'
  BY DEF Honest, AtParse, Reading
<1>3. Moving'
  BY DEF Honest, Moving, WrittenNow, Moved
<1>4. Pending'
  BY DEF Honest, Pending, WrittenNow, Moved, PassNow
<1>5. Finishing' /\ Last'
  BY DEF Honest, Finishing, Last, PassNow
<1>6. OnTheWay' /\ Taken'
  BY DEF OnTheWay, Taken, Told
<1> QED BY <1>1, <1>2, <1>3, <1>4, <1>5, <1>6 DEF Honest

LEMMA Ep0WaitHonest ==
  ASSUME BoundsInv, StatusInv, HonestInv, XusbEp0 \/ Usb2Ep0InFinish PROVE HonestInv'
<1>1. /\ host.ph = "reset" /\ host' = [host EXCEPT !.ph = "idle"]
      /\ UNCHANGED <<xusb, ro, pc, state, cbw, sz, lun, io, ibuf, inq, txc, plug, wrote, got, csw>>
  BY DEF XusbEp0, Usb2Ep0InFinish
<1>2. host'.ph = "idle" /\ host'.short = host.short /\ host'.resets = host.resets
  BY <1>1 DEF BoundsInv, GadgetTypes, Hosts
<1>3. InScope' => InScope
  BY <1>1, <1>2 DEF InScope
<1>4. ASSUME InScope, Honest PROVE Honest'
  <2>1. ~xusb
    BY <1>1, <1>4, ScopeFacts
  <2>2. csw.status = "none" /\ ~Awaits'
    BY <1>1, <1>2 DEF StatusInv, OneAnswer, Awaits
  <2> QED BY <1>1, <1>2, <1>4, <2>1, <2>2, HostSilent
<1> QED BY <1>1, <1>3, <1>4 DEF HonestInv

LEMMA HostGoesHonest ==
  ASSUME BoundsInv, StatusInv, HonestInv, HostResets \/ HostLeaves PROVE HonestInv'
<1>1. CASE HostResets
  <2>1. /\ host.ph # "idle" /\ host' = [host EXCEPT !.ph = "reset", !.resets = @ + 1, !.left = 0]
        /\ UNCHANGED <<xusb, ro, pc, state, cbw, sz, lun, io, ibuf, inq, txc, plug, wrote, got, csw>>
    BY <1>1 DEF HostResets
  <2>2. PICK m \in Nat : m = host.resets + 1 /\ m > 0
    BY DEF BoundsInv, GadgetTypes, Hosts
  <2>3. host'.ph = "reset" /\ host'.short = host.short /\ host'.resets = m
    BY <2>1, <2>2 DEF BoundsInv, GadgetTypes, Hosts
  <2>4. InScope' => InScope /\ ~xusb
    BY <2>1, <2>2, <2>3 DEF InScope
  <2>5. csw.status = "none" /\ ~Awaits'
    BY <2>1, <2>3 DEF StatusInv, OneAnswer, Awaits
  <2>6. ASSUME InScope' PROVE Honest'
    <3>1. Honest /\ ~xusb
      BY <2>4, <2>6 DEF HonestInv
    <3> QED BY <2>1, <2>3, <2>5, <3>1, HostSilent
  <2> QED BY <2>1, <2>6 DEF HonestInv
<1>2. CASE HostLeaves
  <2>1. ~InScope' /\ got' = <<>> /\ csw' = NoCsw
    BY <1>2 DEF HostLeaves, InScope
  <2>2. ~csw'.fresh /\ got' \in Seq(Int)
    BY <2>1 DEF NoCsw
  <2> QED BY <2>1, <2>2 DEF HonestInv
<1> QED BY <1>1, <1>2

LEMMA GetNextHonest ==
  ASSUME BoundsInv, StatusInv, StatusInv', HonestInv, NEW c \in Commands, GetNextCommand(c)
  PROVE  HonestInv'
<1> DEFINE x == [op |-> c.op, lba |-> c.lba, n |-> c.n, h |-> c.h, odd |-> c.odd,
                 dir |-> IF c.h = 0 THEN "none" ELSE c.dir, cur |-> TRUE]
<1>1. /\ pc = "cbw" /\ plug = "on" /\ host.ph = "idle" /\ csw' = NoCsw /\ got' = <<>>
      /\ inq' = Outdated /\ UNCHANGED <<xusb, ro, plug>>
  BY DEF GetNextCommand
<1>2. /\ c.h \in Nat /\ c.dir \in {"in", "out"} /\ c.n \in Nat
      /\ c.op \in {"read", "write"} => c.n > 0
      /\ c.odd /\ c.op = "read" => c.h > 1
  BY UmsAssumption
<1>3. /\ host'.ph = CASE c.h = 0 -> "csw" [] c.dir = "in" -> "datain" [] OTHER -> "dataout"
      /\ host'.left = c.h /\ host'.resets = host.resets
  <2>1. host \in Hosts
    BY DEF BoundsInv, GadgetTypes
  <2>2. PICK q : q = CASE c.h = 0 -> "csw" [] c.dir = "in" -> "datain" [] OTHER -> "dataout"
    OBVIOUS
  <2>3. host' = [host EXCEPT !.ph = q, !.left = c.h, !.short = FALSE]
    BY <2>2 DEF GetNextCommand
  <2> QED BY <2>1, <2>2, <2>3 DEF Hosts
<1>4. got' \in Seq(Int) /\ ~csw'.fresh /\ csw'.status = "none" /\ ~Told'
  BY <1>1 DEF NoCsw, Told
<1>5. InScope' => InScope
  BY <1>1, <1>3 DEF InScope
<1>6. state' \in {state, EXIT} /\ state \in {NORMAL, PROTOCOL_RESET}
  <2>1. state' = Counted("ok")
    BY DEF GetNextCommand, Accept
  <2> QED BY <1>1, <2>1, CountOK DEF StatusInv, States
<1>7. (pc' = "parse" /\ cbw' = x) \/ pc' = "top"
  BY DEF GetNextCommand, Accept
<1>8. ASSUME InScope, Honest PROVE Honest'
  <2>1. inq = <<>>
    BY <1>1, <1>8, ScopeFacts DEF Honest, InEmpty
  <2>2. inq' = <<>> /\ Len(inq') <= 1 /\ DOMAIN inq' = {}
    <3>1. Len(inq) = 0 /\ Outdated = <<>>
      BY <2>1 DEF Outdated
    <3>2. Len(<<>>) = 0 /\ DOMAIN <<>> = {}
      OBVIOUS
    <3> QED BY <1>1, <3>1, <3>2
  <2>3. InEmpty'
    BY <2>2 DEF InEmpty
  <2>4. NoStatus'
    BY <2>2 DEF NoStatus
  <2>5. OnTheWay' /\ Taken'
    BY <2>4, <1>4 DEF NoStatus, OnTheWay, Taken
  <2>6. CASE pc' = "top"
    <3>1. ~Busy'
      BY <1>6, <2>6 DEF Busy, NORMAL, PROTOCOL_RESET, EXIT, ABORT_BULK_OUT
    <3> QED BY <2>3, <2>5, <3>1, ToFree DEF Honest
  <2>7. CASE pc' = "parse" /\ cbw' = x
    <3>1. /\ cbw'.op = c.op /\ cbw'.n = c.n /\ cbw'.h = c.h /\ cbw'.odd = c.odd
          /\ cbw'.dir = IF c.h = 0 THEN "none" ELSE c.dir
      BY <2>7
    <3>2. AtParse'
      BY <1>1, <1>2, <1>3, <3>1 DEF AtParse
    <3>3. Moving' /\ Reading' /\ Pending' /\ Finishing' /\ Last'
      BY <2>7 DEF Moving, Reading, Pending, Finishing, Last
    <3> QED BY <2>3, <2>5, <3>2, <3>3 DEF Honest
  <2> QED BY <1>7, <2>6, <2>7
<1> HIDE DEF x
<1> QED BY <1>4, <1>5, <1>8 DEF HonestInv

LEMMA LastSentHonest ==
  ASSUME BoundsInv, StatusInv, HonestInv, LastSent PROVE HonestInv'
<1>1. /\ pc = "lastwait" /\ ~Padding
      /\ UNCHANGED <<xusb, ro, state, cbw, host, plug, wrote, got, csw>>
  BY DEF LastSent
<1>2. InScope' => InScope
  BY <1>1 DEF InScope
<1>3. ASSUME InScope, Honest PROVE Honest'
  <2>1. CASE state > NORMAL
    <3>1. pc' = "top" /\ inq' = IF xusb THEN inq ELSE <<>>
      BY <2>1 DEF LastSent
    <3>2. ~Busy'
      BY <1>1, <2>1, <3>1 DEF Busy, StatusInv, States, NORMAL, PROTOCOL_RESET, ABORT_BULK_OUT
    <3>3. InEmpty'
      BY <1>1, <1>3, <3>1, SameInEmpty DEF Honest
    <3>4. OnTheWay' /\ Taken'
      BY <1>1, <1>3, <3>1, SameWay DEF Honest
    <3> QED BY <3>2, <3>3, <3>4, ToFree DEF Honest
  <2>2. CASE ~(state > NORMAL)
    <3>1. SendStatus /\ Busy
      BY <1>1, <2>2 DEF LastSent, Busy
    <3>2. xusb => host'.ph # "idle"
      BY <1>1, <1>3, <3>1, ScopeFacts DEF Awaits
    <3>3. InEmpty' /\ OnTheWay' /\ Taken' /\ ~Busy'
      BY <1>1, <1>3, <3>1, <3>2, SendHonest
    <3> QED BY <3>3, ToFree DEF Honest
  <2> QED BY <2>1, <2>2
<1> QED BY <1>1, <1>2, <1>3 DEF HonestInv

\* What a host that stops early, or not at all, leaves in the buffer.
LEMMA ReceivedTrue ==
  ASSUME BoundsInv, NEW n \in Nat, n > 0, NEW r \in Received(n)
  PROVE  /\ host.short => r.h.short
         /\ r.st # "ok" => r.actual = 0
         /\ xusb \/ ~r.h.short => \A i \in 1 .. r.actual : r.buf[i] = HOST
         /\ r.st = "ok" /\ ~r.h.short => r.actual = n
<1>1. host \in Hosts /\ xusb \in BOOLEAN
  BY DEF BoundsInv, GadgetTypes
<1> DEFINE all == [st |-> "ok", actual |-> n, buf |-> [i \in 1..n |-> HOST],
                   h |-> [host EXCEPT !.left = @ - n, !.ph = IF host.left = n THEN "csw" ELSE @]]
           cut(k) == [st |-> "ok", actual |-> IF xusb THEN k ELSE n,
                      buf |-> [i \in 1..n |-> IF i <= k THEN HOST ELSE STALE],
                      h |-> [host EXCEPT !.left = 0, !.ph = "csw", !.short = TRUE]]
           lost == [st |-> "error", actual |-> 0, buf |-> <<>>, h |-> host]
<1>2. CASE r = lost
  <2>1. r.st = "error" /\ r.actual = 0 /\ r.h = host
    BY <1>2
  <2> QED BY <2>1
<1>3. CASE r = all
  <2>1. r.st = "ok" /\ r.actual = n /\ \A i \in 1 .. n : r.buf[i] = HOST
    BY <1>3
  <2>2. PICK m, q : r.h = [host EXCEPT !.left = m, !.ph = q]
    BY <1>3
  <2>3. r.h.short = host.short
    BY <1>1, <2>2 DEF Hosts
  <2> HIDE DEF all
  <2> QED BY <2>1, <2>3
<1>4. ASSUME NEW k \in 0 .. n - 1, r = cut(k)
      PROVE  /\ host.short => r.h.short
             /\ r.st # "ok" => r.actual = 0
             /\ xusb \/ ~r.h.short => \A i \in 1 .. r.actual : r.buf[i] = HOST
             /\ r.st = "ok" /\ ~r.h.short => r.actual = n
  <2>1. /\ r.st = "ok" /\ r.actual = IF xusb THEN k ELSE n
        /\ r.buf = [i \in 1..n |-> IF i <= k THEN HOST ELSE STALE]
        /\ r.h = [host EXCEPT !.left = 0, !.ph = "csw", !.short = TRUE]
    BY <1>4
  <2>2. r.h.short = TRUE
    BY <1>1, <2>1 DEF Hosts
  <2>3. \A i \in 1 .. k : r.buf[i] = HOST
    BY <2>1
  <2> HIDE DEF cut
  <2> QED BY <2>1, <2>2, <2>3
<1>5. r = lost \/ r = all \/ \E k \in 0 .. n - 1 : r = cut(k)
  BY DEF Received
<1> HIDE DEF all, cut, lost
<1> QED BY <1>2, <1>3, <1>4, <1>5

LEMMA Ep0Short == ASSUME BoundsInv PROVE HostEp0.short = host.short
BY DEF HostEp0, BoundsInv, GadgetTypes, Hosts

LEMMA FinishOutHonest ==
  ASSUME BoundsInv, StatusInv, StatusInv', HonestInv, FinishOut PROVE HonestInv'
<1> DEFINE drains == cbw.dir = "out" /\ sz.residue > 0 /\ ~sz.short /\ sz.left > 0
           aborts == cbw.dir = "out" /\ sz.residue > 0 /\ sz.short
           n == Least(sz.left, EpMax)
<1>1. /\ pc = "finish" /\ cbw.dir # "in"
      /\ UNCHANGED <<xusb, ro, cbw, lun, plug, wrote, got, csw>>
  BY DEF FinishOut
<1>2. state \in {NORMAL, PROTOCOL_RESET} /\ AfterEp0 \in {NORMAL, PROTOCOL_RESET}
  BY <1>1, Ep0Facts DEF StatusInv, States
<1>3. /\ host.short => host'.short
      /\ host'.resets = host.resets
      /\ xusb => host'.ph = host.ph \/ host'.ph = "csw"
  <2>1. CASE host' = HostEp0
    BY <1>2, <2>1, Ep0Short, Ep0Facts
  <2>2. CASE drains /\ \E r \in Received(n) : host' = r.h
    <3>1. PICK r \in Received(n) : host' = r.h
      BY <2>2
    <3>2. PICK m \in Nat : m = n /\ m > 0
      <4>1. sz.left \in Nat /\ sz.left > 0
        BY <2>2 DEF BoundsInv, GadgetTypes, Szs
      <4>2. n \in Nat /\ n > 0
        BY <4>1, Consts DEF Least
      <4> QED BY <4>2
    <3> HIDE DEF drains, n
    <3>3. r \in Received(m)
      BY <3>1, <3>2
    <3> QED BY <3>1, <3>2, <3>3, ReceivedTrue, ReceivedHost
  <2> QED BY <2>1, <2>2 DEF FinishOut
<1>4. sz'.residue = sz.residue /\ sz'.phase = sz.phase
  <2>1. PICK m : sz' = IF drains THEN [sz EXCEPT !.left = m] ELSE sz
    BY DEF FinishOut
  <2> QED BY <2>1 DEF BoundsInv, GadgetTypes, Szs
<1>5. InScope' => InScope
  BY <1>1, <1>3 DEF InScope
<1>6. state' = IF aborts THEN Raise(AfterEp0, ABORT_BULK_OUT) ELSE AfterEp0
  BY DEF FinishOut
<1>7. /\ state' \in {NORMAL, ABORT_BULK_OUT, PROTOCOL_RESET}
      /\ state' = ABORT_BULK_OUT => cbw.dir = "out"
  BY <1>2, <1>6 DEF Raise, NORMAL, ABORT_BULK_OUT, PROTOCOL_RESET
<1>8. \/ state' > NORMAL /\ pc' = "top" /\ inq' = inq
      \/ SendStatus
  BY DEF FinishOut
<1> HIDE DEF drains, aborts, n
<1>9. ASSUME InScope, Honest PROVE Honest'
  <2>1. Busy
    BY <1>1 DEF Busy
  <2>2. xusb => host'.ph # "idle"
    BY <1>3, <1>9, <2>1, ScopeFacts DEF Awaits
  <2>3. CASE SendStatus
    <3>1. InEmpty' /\ OnTheWay' /\ Taken' /\ ~Busy'
      BY <1>1, <1>3, <1>9, <2>1, <2>2, <2>3, SendHonest
    <3> QED BY <3>1, ToFree DEF Honest
  <2>4. CASE state' > NORMAL /\ pc' = "top" /\ inq' = inq
    <3>1. InEmpty'
      <4>1. state' # NORMAL
        BY <1>7, <2>4 DEF NORMAL, ABORT_BULK_OUT, PROTOCOL_RESET
      <4> QED BY <1>1, <1>9, <2>2, <2>4, <4>1 DEF Honest, InEmpty, StatusAt
    <3>2. NoStatus /\ ~Told
      BY <1>9, <2>1, ScopeFacts
    <3>3. OnTheWay' /\ Taken'
      BY <1>1, <2>4, <3>2 DEF NoStatus, OnTheWay, StatusAt, Taken, Told
    <3>4. AtParse' /\ Moving' /\ Reading' /\ Finishing' /\ Last'
      BY <2>4 DEF AtParse, Moving, Reading, Finishing, Last
    <3>5. Pending'
      <4>1. /\ WrittenNow(sz.residue)
            /\ PassNow /\ cbw.op = "write" /\ ~host.short => Moved = cbw.n
            /\ PassNow /\ cbw.op = "read" => Moved = cbw.n /\ cbw.dir = "in"
        BY <1>1, <1>9 DEF Honest, Pending
      <4>2. WrittenNow(sz.residue)'
        BY <1>1, <1>3, <1>4, <4>1 DEF WrittenNow
      <4>3. PassNow' = PassNow /\ Moved' = Moved
        BY <1>1, <1>4 DEF PassNow, Moved
      <4> QED BY <1>1, <1>3, <1>7, <4>1, <4>2, <4>3 DEF Pending
    <3> QED BY <3>1, <3>3, <3>4, <3>5 DEF Honest
  <2> QED BY <1>8, <2>3, <2>4
<1> QED BY <1>1, <1>5, <1>9 DEF HonestInv

LEMMA RunJoin ==
  ASSUME NEW s \in Seq(Int), NEW u \in Seq(Int), NEW a \in Int, NEW b \in Int,
         b = a + Len(s), Run(s, Len(s), a), Run(u, Len(u), b)
  PROVE  Run(s \o u, Len(s) + Len(u), a)
<1>1. s \o u \in Seq(Int) /\ Len(s \o u) = Len(s) + Len(u) /\ Len(s) \in Nat /\ Len(u) \in Nat
  OBVIOUS
<1>2. ASSUME NEW i \in 1 .. Len(s) + Len(u) PROVE (s \o u)[i] = a + i - 1
  <2>1. CASE i \in 1 .. Len(s)
    <3>1. (s \o u)[i] = s[i]
      BY <2>1
    <3> QED BY <2>1, <3>1 DEF Run
  <2>2. CASE i > Len(s)
    <3>0. i - Len(s) \in 1 .. Len(u)
      BY <1>1, <1>2, <2>2
    <3>1. PICK k \in 1 .. Len(u) : k = i - Len(s)
      BY <3>0
    <3>2. (s \o u)[i] = u[k]
      BY <1>1, <2>2, <3>1
    <3>3. u[k] = b + k - 1
      BY DEF Run
    <3> QED BY <1>1, <3>1, <3>2, <3>3
  <2> QED BY <1>1, <2>1, <2>2
<1> QED BY <1>1, <1>2 DEF Run

\* A padded buffer runs as far as what is in it.
LEMMA RunPadded ==
  ASSUME NEW s \in Seq(Int), NEW u \in Seq(Int), NEW z \in Seq(Int), NEW a \in Int, NEW b \in Int,
         NEW n \in Nat, b = a + Len(s), n = Len(s) + Len(u), Run(s, Len(s), a), Run(u, Len(u), b)
  PROVE  Run(s \o (u \o z), n, a)
<1>1. s \o u \in Seq(Int) /\ Len(s \o u) = n /\ Len(u) \in Nat /\ Len(s) \in Nat /\ Len(z) \in Nat
  OBVIOUS
<1>2. Run(s \o u, n, a)
  BY RunJoin
<1>3. u \o z \in Seq(Int) /\ Len(u \o z) = Len(u) + Len(z)
  OBVIOUS
<1>4. s \o (u \o z) \in Seq(Int) /\ Len(s \o (u \o z)) = n + Len(z)
  BY <1>1, <1>3
<1>5. ASSUME NEW i \in 1 .. n PROVE (s \o (u \o z))[i] = (s \o u)[i]
  <2>1. CASE i \in 1 .. Len(s)
    BY <1>1, <1>3, <2>1
  <2>2. CASE i > Len(s)
    <3>0. i - Len(s) \in 1 .. Len(u)
      BY <1>1, <1>5, <2>2
    <3>1. PICK k \in 1 .. Len(u) : k = i - Len(s)
      BY <3>0
    <3>2. (s \o u)[i] = u[k]
      BY <1>1, <2>2, <3>1
    <3>3. (s \o (u \o z))[i] = (u \o z)[k]
      BY <1>1, <1>3, <2>2, <3>1
    <3>4. (u \o z)[k] = u[k]
      OBVIOUS
    <3> QED BY <3>2, <3>3, <3>4
  <2> QED BY <1>1, <2>1, <2>2
<1> QED BY <1>1, <1>2, <1>4, <1>5 DEF Run

LEMMA QueueFirst ==
  ASSUME inq = <<>>, NEW item \in Items, Queue(item), xusb \in BOOLEAN
  PROVE  Len(inq') = 1 /\ inq'[1] = item /\ txc' = 1 /\ DOMAIN inq' = {1}
<1>1. CASE ~xusb
  <2>1. inq' = <<item>> /\ txc' = 1
    BY <1>1 DEF Queue
  <2> QED BY <2>1
<1>2. CASE xusb
  <2> DEFINE s == [j \in 1 .. Len(inq) |->
                     IF inq[j].k = "csw" /\ item.k # "card" THEN item ELSE inq[j]]
  <2>1. inq' = Append(s, item) /\ txc' = 1
    BY <1>2 DEF Queue
  <2>2. s \in Seq(Items) /\ Len(s) = 0
    BY DEF Items
  <2> HIDE DEF s
  <2> QED BY <2>1, <2>2
<1> QED BY <1>1, <1>2

\* Nothing but zeros follows: what ran runs on.
LEMMA RunOn ==
  ASSUME NEW s \in Seq(Int), NEW z \in Seq(Int), NEW a \in Int, NEW n \in Nat, Run(s, n, a)
  PROVE  Run(s \o z, n, a)
<1>1. s \o z \in Seq(Int) /\ Len(s \o z) = Len(s) + Len(z) /\ Len(s) \in Nat /\ Len(z) \in Nat
  OBVIOUS
<1>2. n <= Len(s) /\ \A i \in 1 .. n : s[i] = a + i - 1
  BY DEF Run
<1>3. ASSUME NEW i \in 1 .. n PROVE (s \o z)[i] = s[i]
  <2>1. i \in 1 .. Len(s)
    BY <1>1, <1>2
  <2> QED BY <1>1, <2>1
<1>4. n <= Len(s \o z)
  BY <1>1, <1>2
<1> QED BY <1>2, <1>3, <1>4 DEF Run

\* How much the first transfer of a padded reply sends, and what is left for the others.
LEMMA FirstPad ==
  ASSUME NEW b \in Nat, NEW r \in Nat, NEW m \in Nat, b <= InMax,
         r = 0 => m = b, r > 0 => m = Least(b + r, EpMax)
  PROVE  /\ b <= m /\ m <= b + r /\ m - b \in Nat /\ b + r - m \in Nat
         /\ r > 0 => m > 0
         /\ r + InMax <= EpMax => m = b + r
<1>1. InMax \in Nat /\ EpMax \in Nat /\ EpMax > 0 /\ InMax <= EpMax
  BY UmsAssumption
<1>2. CASE r = 0
  BY <1>2
<1>3. CASE r > 0
  <2>1. m = IF b + r < EpMax THEN b + r ELSE EpMax
    BY <1>1, <1>3 DEF Least
  <2> QED BY <1>1, <1>3, <2>1
<1> QED BY <1>2, <1>3

LEMMA FinishInHonest ==
  ASSUME BoundsInv, BoundsInv', StatusInv, StatusInv', HonestInv, FinishIn PROVE HonestInv'
<1> DEFINE all   == Len(ibuf) + sz.residue
           nsend == IF sz.residue = 0 THEN all ELSE Least(all, EpMax)
           item  == [k |-> InKind, units |-> ibuf \o Zeros(nsend - Len(ibuf))]
<1>1. /\ pc = "finish" /\ cbw.dir = "in" /\ pc' = "lastwait" /\ host' = HostEp0
      /\ UNCHANGED <<xusb, ro, cbw, lun, io, ibuf, plug, wrote, got, csw>>
  BY DEF FinishIn
<1>2. state \in {NORMAL, PROTOCOL_RESET} /\ Busy /\ Busy'
  BY <1>1 DEF StatusInv, States, Busy
<1>3. /\ host'.short = host.short /\ host'.resets = host.resets /\ (xusb => host' = host)
      /\ host' = host \/ host'.ph = "idle"
  BY <1>1, <1>2, Ep0Short, Ep0Facts, Ep0OK
<1>4. InScope' => InScope
  BY <1>1, <1>3 DEF InScope
<1>5. \/ Queue(item)
      \/ io.flight /\ xusb
  BY DEF FinishIn
<1>6. ibuf \in Seq(Int) /\ sz.residue \in Nat /\ cbw.h \in Nat /\ cbw.n \in Nat /\ cbw.lba \in Nat
  BY DEF BoundsInv, GadgetTypes, Szs, Cbws
<1>7. PICK m \in Nat : m = nsend
  BY PadCounts
<1>8. PICK l : l = IF sz.residue = 0 THEN sz.left ELSE all - m
  OBVIOUS
<1>9. sz' = [sz EXCEPT !.left = l]
  BY <1>7, <1>8 DEF FinishIn
<1>10. sz'.residue = sz.residue /\ sz'.phase = sz.phase /\ sz'.left = l
  BY <1>9, PadCounts DEF Szs
<1>11. PICK d \in Int : d = m - Len(ibuf)
  <2>1. Len(ibuf) \in Nat
    BY <1>6
  <2>2. m - Len(ibuf) \in Int
    BY <2>1
  <2> QED BY <2>2, Zenon
<1>12. PICK it \in Items : it = item /\ it.k = InKind /\ it.units = ibuf \o Zeros(d)
  <2>1. item = [k |-> InKind, units |-> ibuf \o Zeros(d)]
    BY <1>7, <1>11
  <2> HIDE DEF item
  <2>2. item \in Items
    BY <1>6, <2>1, PaddedOK
  <2> QED BY <2>1, <2>2
<1>13. PassNow' = PassNow /\ Moved' = Moved
  BY <1>1, <1>10 DEF PassNow, Moved
<1> HIDE DEF item, nsend
<1>14. ASSUME InScope, InScope', Honest PROVE Honest'
  <2>1. OnTheWay' /\ Taken'
    BY <1>2, ToBusy
  <2>2. InEmpty'
    <3>1. CASE xusb
      <4>1. host'.ph # "idle" /\ NoStatus'
        BY <1>1, <1>2, <1>14, <3>1 DEF StatusInv, InStep, InScope
      <4> QED BY <1>1, <3>1, <4>1 DEF InEmpty, NoStatus
    <3>2. CASE ~xusb
      <4>1. inq' = <<it>>
        BY <1>5, <1>12, <3>2 DEF Queue
      <4>2. Len(inq') <= 1
        BY <4>1
      <4> QED BY <1>1, <3>2, <4>2 DEF InEmpty
    <3> QED BY <3>1, <3>2
  <2>3. AtParse' /\ Moving' /\ Reading' /\ Finishing'
    BY <1>1 DEF AtParse, Moving, Reading, Finishing
  <2>4. Pending'
    <3>2. /\ WrittenNow(sz.residue)
          /\ PassNow /\ cbw.op = "write" /\ ~host.short => Moved = cbw.n
          /\ PassNow /\ cbw.op = "read" => Moved = cbw.n /\ cbw.dir = "in"
      BY <1>1, <1>14 DEF Honest, Pending
    <3>3. WrittenNow(sz.residue)'
      BY <1>1, <1>3, <1>10, <3>2 DEF WrittenNow
    <3> QED BY <1>1, <1>3, <1>13, <3>2, <3>3 DEF Pending
  <2>5. ASSUME PassNow, Vouched, Awaits' PROVE (xusb => Rest' = 0) /\ Queued'
    <3>1. host' = host /\ Awaits /\ cbw.op = "read"
      BY <1>3, <2>5 DEF Awaits, Vouched
    <3>2. /\ ~io.flight /\ inq = <<>> /\ host.ph = "datain" /\ host.left = cbw.h - Len(got)
          /\ Run(got, Len(got), cbw.lba) /\ Len(ibuf) <= InMax
          /\ Run(ibuf, Len(ibuf), cbw.lba + Len(got)) /\ Len(got) + Len(ibuf) = cbw.n
      BY <1>1, <1>14, <2>5, <3>1 DEF Honest, Finishing
    <3>3. Queue(it) /\ it.k = "card"
      BY <1>5, <1>12, <3>1, <3>2 DEF InKind
    <3>4. Len(inq') = 1 /\ inq'[1] = it
      BY <3>2, <3>3, QueueFirst DEF BoundsInv, GadgetTypes
    <3>5. cbw.h - sz.residue = cbw.n
      BY <1>1, <1>14, <2>5, <3>1 DEF Honest, Pending, Moved
    <3>6. got \in Seq(Int) /\ Len(got) \in Nat /\ Len(ibuf) \in Nat
      BY <1>6 DEF HonestInv
    <3>7. PICK b \in Nat : b = Len(ibuf)
      BY <3>6
    <3>8. PICK r \in Nat : r = sz.residue
      BY <1>6
    <3>9. b <= InMax /\ (r = 0 => m = b) /\ (r > 0 => m = Least(b + r, EpMax))
      BY <1>7, <3>2, <3>7, <3>8 DEF nsend
    <3>10. /\ b <= m /\ m <= b + r /\ m - b \in Nat /\ b + r - m \in Nat
           /\ r > 0 => m > 0
           /\ r + InMax <= EpMax => m = b + r
      BY <3>9, FirstPad
    <3>11. Rest' = b + r - m
      BY <1>8, <1>10, <3>7, <3>8, <3>10 DEF Rest
    <3>12. xusb => Rest' = 0
      <4> SUFFICES ASSUME xusb PROVE Rest' = 0
        OBVIOUS
      <4>1. cbw.h - cbw.n + InMax <= EpMax
        BY <2>5 DEF Vouched, OneBuffer
      <4>2. cbw.h - cbw.n = r
        BY <1>6, <3>5, <3>8
      <4>3. m = b + r
        BY <3>10, <4>1, <4>2
      <4> QED BY <3>11, <4>3
    <3>13. PICK z \in Seq(Int) : z = Zeros(d) /\ Len(z) = m - b
      <4>1. d \in Nat /\ d = m - b
        BY <1>11, <3>7, <3>10
      <4> QED BY <4>1, PaddedOK, <1>6
    <3>14. it.units = ibuf \o z /\ Len(it.units) = m
      <4>1. it.units = ibuf \o z
        BY <1>12, <3>13
      <4>2. Len(ibuf \o z) = Len(ibuf) + Len(z)
        BY <1>6
      <4> QED BY <3>7, <3>10, <3>13, <4>1, <4>2
    <3>15. m + Rest' = host.left /\ (Rest' > 0 => m > 0)
      <4>1. b + r = cbw.h - Len(got)
        <5>1. PICK g \in Int : g = Len(got)
          BY <3>6
        <5>2. PICK h \in Int : h = cbw.h
          BY <1>6
        <5>3. h - r = cbw.n /\ g + b = cbw.n
          BY <3>2, <3>5, <3>7, <3>8, <5>1, <5>2
        <5>4. b + r = h - g
          BY <5>3
        <5> QED BY <5>1, <5>2, <5>4
      <4>2. m + Rest' = b + r
        BY <3>11
      <4>3. Rest' > 0 => m > 0
        BY <3>10, <3>11
      <4> QED BY <3>2, <4>1, <4>2, <4>3
    <3>16. Run(got \o (ibuf \o z), cbw.n, cbw.lba)
      <4>1. PICK c \in Int : c = cbw.lba + Len(got)
        BY <1>6, <3>6
      <4>2. PICK a \in Int : a = cbw.lba
        BY <1>6
      <4>3. PICK n \in Nat : n = cbw.n
        BY <1>6
      <4>4. PICK s \in Seq(Int) : s = got
        BY <3>6
      <4>5. PICK u \in Seq(Int) : u = ibuf
        BY <1>6
      <4>6. c = a + Len(s) /\ n = Len(s) + Len(u) /\ Run(s, Len(s), a) /\ Run(u, Len(u), c)
        BY <3>2, <4>1, <4>2, <4>3, <4>4, <4>5
      <4>7. Run(s \o (u \o z), n, a)
        BY <4>6, RunPadded
      <4> QED BY <4>2, <4>3, <4>4, <4>5, <4>7
    <3>17. Run(got \o inq[1].units, cbw.n, cbw.lba)'
      <4>1. Run(got \o it.units, cbw.n, cbw.lba)
        BY <3>14, <3>16
      <4> QED BY <1>1, <3>4, <4>1 DEF Run
    <3> QED BY <3>1, <3>2, <3>3, <3>4, <3>12, <3>14, <3>15, <3>17 DEF Queued
  <2>6. Vouched' = Vouched
    BY <1>1 DEF Vouched, OneBuffer
  <2>7. Last'
    BY <1>1, <1>13, <2>5, <2>6 DEF Last
  <2> QED BY <2>1, <2>2, <2>3, <2>4, <2>7 DEF Honest
<1> QED BY <1>1, <1>4, <1>14 DEF HonestInv

\* More zeros: behind data the host has (USB2), or in place of data it never will.
LEMMA PadMoreHonest ==
  ASSUME BoundsInv, BoundsInv', StatusInv, StatusInv', HonestInv, PadMore PROVE HonestInv'
<1> DEFINE item == [k |-> InKind, units |-> Zeros(Least(sz.left, EpMax))]
<1>1. /\ pc = "lastwait" /\ Padding
      /\ UNCHANGED <<xusb, ro, pc, state, cbw, lun, io, ibuf, host, plug, wrote, got, csw>>
  BY DEF PadMore
<1>2. Busy /\ Busy'
  BY <1>1 DEF Busy
<1>3. InScope' => InScope
  BY <1>1 DEF InScope
<1>4. PICK m \in Nat : m = Least(sz.left, EpMax) /\ m > 0 /\ m <= sz.left
  BY <1>1, PadCounts, Consts DEF Padding, Least
<1>5. sz.left \in Nat /\ sz.residue \in Nat /\ sz.left > 0 /\ sz.residue > 0
  BY <1>1, PadCounts DEF Padding
<1>6. sz'.residue = sz.residue /\ sz'.phase = sz.phase /\ sz'.left = sz.left - m
  <2>1. PICK l : l = sz.left - m
    OBVIOUS
  <2>2. sz' = [sz EXCEPT !.left = l]
    BY <1>4, <2>1 DEF PadMore
  <2> QED BY <2>1, <2>2, PadCounts DEF Szs
<1>13. m \in Int /\ ibuf \in Seq(Int)
  BY PadCounts
<1>14. /\ Zeros(m) \in Seq(Int) /\ [k |-> InKind, units |-> Zeros(m)] \in Items
       /\ Len(Zeros(m)) = m
  BY <1>13, PaddedOK
<1>7. PICK z \in Seq(Int) : z = Zeros(m) /\ Len(z) = m
  BY <1>14
<1>8. PICK it \in Items : it = item /\ it.k = InKind /\ it.units = z
  <2>1. item = [k |-> InKind, units |-> Zeros(m)]
    BY <1>4
  <2> HIDE DEF item
  <2>2. item \in Items
    BY <1>14, <2>1
  <2> QED BY <1>7, <2>1, <2>2
<1>9. ~xusb => inq' = <<it>>
  BY <1>8 DEF PadMore, Queue
<1>10. PassNow' = PassNow /\ Moved' = Moved /\ Vouched' = Vouched /\ Awaits' = Awaits
  BY <1>1, <1>6 DEF PassNow, Moved, Vouched, OneBuffer, Awaits
<1>11. Rest = sz.left /\ Rest' = sz.left - m
  BY <1>5, <1>6 DEF Rest
<1> HIDE DEF item
<1>12. ASSUME InScope, InScope', Honest PROVE Honest'
  <2>1. OnTheWay' /\ Taken'
    BY <1>2, ToBusy
  <2>2. InEmpty'
    <3>1. CASE xusb
      <4>1. host'.ph # "idle" /\ NoStatus'
        BY <1>1, <1>2, <1>12, <3>1 DEF StatusInv, InStep, InScope
      <4> QED BY <1>1, <3>1, <4>1 DEF InEmpty, NoStatus
    <3>2. CASE ~xusb
      <4>1. inq' = <<it>>
        BY <1>9, <3>2
      <4>2. Len(inq') <= 1
        BY <4>1
      <4> QED BY <1>1, <3>2, <4>2 DEF InEmpty
    <3> QED BY <3>1, <3>2
  <2>3. AtParse' /\ Moving' /\ Reading' /\ Finishing'
    BY <1>1 DEF AtParse, Moving, Reading, Finishing
  <2>4. Pending'
    <3>1. /\ WrittenNow(sz.residue)
          /\ PassNow /\ cbw.op = "write" /\ ~host.short => Moved = cbw.n
          /\ PassNow /\ cbw.op = "read" => Moved = cbw.n /\ cbw.dir = "in"
      BY <1>1, <1>12 DEF Honest, Pending
    <3>2. WrittenNow(sz.residue)'
      BY <1>1, <1>6, <3>1 DEF WrittenNow
    <3> QED BY <1>1, <1>10, <3>1, <3>2 DEF Pending
  <2>5. ASSUME PassNow, Vouched, Awaits PROVE (xusb => Rest' = 0) /\ (Queued' \/ Starved')
    <3>1. (xusb => Rest = 0) /\ (Complete \/ Queued \/ Starved)
      BY <1>1, <1>12, <2>5 DEF Honest, Last
    <3>2. ~xusb
      BY <1>5, <1>11, <3>1
    <3>3. Len(inq') = 1 /\ inq'[1] = it /\ it.k = "card" /\ Len(it.units) = m
      BY <1>7, <1>8, <1>9, <2>5, <3>2 DEF InKind, Vouched
    <3>4. host.left \in Nat /\ host' = host
      BY <1>1 DEF BoundsInv, GadgetTypes, Hosts
    <3>5. CASE Complete
      <4>1. host.left = Rest /\ host.ph = "datain" /\ Run(got, cbw.n, cbw.lba)
        BY <1>5, <1>11, <3>5 DEF Complete
      <4>2. m + Rest' = host'.left
        BY <1>4, <1>5, <1>11, <3>4, <4>1
      <4>3. Run(got \o z, cbw.n, cbw.lba)
        <5>1. got \in Seq(Int) /\ cbw.n \in Nat /\ cbw.lba \in Int
          BY DEF HonestInv, BoundsInv, GadgetTypes, Cbws
        <5> QED BY <4>1, <5>1, RunOn
      <4>4. Run(got \o inq[1].units, cbw.n, cbw.lba)'
        BY <1>1, <1>8, <3>3, <4>3 DEF Run
      <4> QED BY <1>4, <3>2, <3>3, <3>4, <4>1, <4>2, <4>4 DEF Queued
    <3>6. CASE Queued \/ Starved
      <4>1. Rest < host.left /\ host.ph = "datain"
        <5>1. CASE Starved
          BY <5>1 DEF Starved
        <5>2. CASE Queued
          <6>1. inq \in Seq(Items) /\ Len(inq) = 1 /\ inq[1].k = "card" /\ Len(inq[1].units) > 0
            BY <1>5, <1>11, <5>2 DEF Queued, BoundsInv, GadgetTypes
          <6>2. 1 \in DOMAIN inq
            BY <6>1
          <6>3. inq[1] \in Items
            BY <6>1, <6>2
          <6>4. Len(inq[1].units) \in Nat
            BY <6>1, <6>3 DEF Items
          <6>5. Len(inq[1].units) + Rest = host.left /\ host.ph = "datain"
            BY <5>2 DEF Queued
          <6> QED BY <1>5, <1>11, <6>1, <6>4, <6>5
        <5> QED BY <3>6, <5>1, <5>2
      <4>2. Rest' < host'.left /\ m + Rest' < host'.left
        BY <1>4, <1>5, <1>11, <3>4, <4>1
      <4> QED BY <1>1, <1>4, <3>2, <3>3, <3>4, <4>1, <4>2 DEF Starved
    <3> QED BY <3>1, <3>2, <3>5, <3>6, <1>1
  <2>6. Last'
    BY <1>1, <1>10, <2>5 DEF Last
  <2> QED BY <2>1, <2>2, <2>3, <2>4, <2>6 DEF Honest
<1> QED BY <1>1, <1>3, <1>12 DEF HonestInv

\* What a command that is accepted, and one that would pass, has been checked for.
LEMMA ParseFacts ==
  ASSUME BoundsInv, HonestInv, InScope, NEW rd \in BOOLEAN, Parse(rd)
  PROVE  /\ cbw.op \in {"read", "write"} => sz'.residue = cbw.h
         /\ pc' \in {"read", "write"} =>
              /\ pc' = cbw.op /\ lun'.sense = "none" /\ io'.lba = cbw.lba /\ ~io'.flight
              /\ io'.todo > 0 /\ (~sz'.phase => io'.todo = cbw.n)
              /\ cbw.op = "read" => cbw.dir = "in"
         /\ pc' \notin {"read", "write"} =>
              /\ pc' = "finish" \/ (pc' = "top" /\ state' > NORMAL)
              /\ cbw.op \in {"read", "write"} => ~PassNow'
<1> DEFINE v == Verdict
           s1 == CASE ~v.ok -> v.sense
                   [] v.ok /\ cbw.op = "write" /\ ro -> "protected"
                   [] v.ok /\ cbw.op = "verify" /\ cbw.lba < NumSectors /\ cbw.n > 0 /\ ~rd -> "read"
                   [] OTHER -> CmdSense
           moves == v.ok /\ s1 = "none" /\ cbw.op \in {"read", "write"} /\ Checked.cmnd > 0
           reply == ReplyLen(v.ok)
           phase == cbw.h < CmdLen \/ Partial \/ Mismatch
<1>1. cbw \in Cbws /\ sz \in Szs /\ lun \in Luns /\ pc = "parse"
  BY DEF BoundsInv, GadgetTypes, Parse
<1>2. cbw.h \in Nat /\ cbw.n \in Nat /\ cbw.lba \in Nat
  BY <1>1 DEF Cbws
<1>3. cbw.op \in {"read", "write"} => cbw.n > 0
  BY <1>1 DEF HonestInv, Honest, AtParse
<1>4. cbw.op \in {"read", "write"} => CmdLen = cbw.n
  BY DEF CmdLen, Replies
<1>5. Checked.cmnd = Least(CmdLen, cbw.h) /\ Checked.residue = cbw.h /\ Checked.phase = phase
        /\ Checked \in [cmnd : {Least(CmdLen, cbw.h)}, residue : Nat, left : Nat, phase : BOOLEAN,
                        short : BOOLEAN]
  <2>1. PICK n, h, p : n = Least(CmdLen, cbw.h) /\ h = cbw.h /\ p = phase
    OBVIOUS
  <2>2. Checked = [sz EXCEPT !.cmnd = n, !.residue = h, !.left = h, !.phase = p, !.short = FALSE]
    BY <2>1 DEF Checked
  <2>3. Checked = [cmnd |-> n, residue |-> h, left |-> h, phase |-> p, short |-> FALSE]
    BY <1>1, <2>2 DEF Szs
  <2>4. p \in BOOLEAN /\ h \in Nat
    BY <1>2, <2>1
  <2> HIDE DEF phase
  <2> QED BY <2>1, <2>3, <2>4
<1>6. cbw.op \in {"read", "write"} => reply = 0
  BY DEF ReplyLen, Replies
<1>7. ~v.ok => Mismatch \/ v.sense # "none"
  <2>1. Attention => lun.attention # "none"
    BY DEF Attention
  <2> QED BY <2>1 DEF Verdict
<1>8. v.ok => ~Mismatch
  BY DEF Verdict
<1>9. v.ok \in BOOLEAN
  BY DEF Verdict
<1> HIDE DEF v
<1>10. moves => v.ok /\ cbw.op \in {"read", "write"} /\ s1 = "none" /\ Checked.cmnd > 0
  OBVIOUS
<1>11. cbw.op \in {"read", "write"} /\ s1 = "none" /\ ~phase => moves
  <2> SUFFICES ASSUME cbw.op \in {"read", "write"}, s1 = "none", ~phase PROVE moves
    OBVIOUS
  <2>1. v.ok
    BY <1>7, <1>9
  <2>2. Least(CmdLen, cbw.h) > 0
    BY <1>2, <1>3, <1>4 DEF Least
  <2> QED BY <1>5, <2>1, <2>2
<1> HIDE DEF s1, moves, reply
<1>12. /\ lun' = [lun EXCEPT !.sense = s1, !.attention = v.attention,
                    !.unmounted = @ \/ Ejects(v.ok), !.prevent = Prevents(v.ok)]
       /\ sz' = [Checked EXCEPT !.residue = @ - reply]
       /\ io' = IF moves THEN [lba |-> cbw.lba, ulba |-> cbw.lba, req |-> sz'.cmnd,
                               todo |-> IF cbw.op = "read" THEN Whole(sz'.cmnd) ELSE sz'.cmnd,
                               flight |-> FALSE]
                         ELSE NoIo
       /\ pc' = CASE moves -> cbw.op
                  [] ~moves /\ state' > NORMAL -> "top"
                  [] OTHER -> "finish"
  BY DEF Parse, v, s1, moves, reply
<1>13. lun'.sense = s1
  <2>1. PICK a, u, p : lun' = [lun EXCEPT !.sense = s1, !.attention = a, !.unmounted = u, !.prevent = p]
    BY <1>12
  <2> QED BY <1>1, <2>1 DEF Luns
<1>14. PICK r : sz' = [Checked EXCEPT !.residue = r] /\ r = cbw.h - reply
  BY <1>5, <1>12
<1>15. sz'.residue = cbw.h - reply /\ sz'.phase = phase /\ sz'.cmnd = Least(CmdLen, cbw.h)
  <2> HIDE DEF phase
  <2> QED BY <1>5, <1>14
<1>16. moves => cbw.dir = CmdDir
  <2> SUFFICES ASSUME moves PROVE cbw.dir = CmdDir
    OBVIOUS
  <2>1. ~Mismatch /\ Least(CmdLen, cbw.h) > 0
    BY <1>5, <1>8, <1>10
  <2> QED BY <2>1 DEF Mismatch
<1>17. cbw.op = "read" => CmdDir = "in"
  BY <1>2, <1>3, <1>4 DEF CmdDir
<1>18. cbw.op \in {"read", "write"} => sz'.residue = cbw.h
  BY <1>2, <1>6, <1>15
<1>19. pc' \in {"read", "write"} => moves
  BY <1>12
<1>20. ASSUME moves
       PROVE  /\ pc' = cbw.op /\ lun'.sense = "none" /\ io'.lba = cbw.lba /\ ~io'.flight
              /\ io'.todo > 0 /\ (~sz'.phase => io'.todo = cbw.n)
              /\ cbw.op = "read" => cbw.dir = "in"
  <2>1. cbw.op \in {"read", "write"} /\ s1 = "none" /\ Checked.cmnd > 0
    BY <1>10, <1>20
  <2>2. pc' = cbw.op /\ lun'.sense = "none"
    BY <1>12, <1>13, <1>20, <2>1
  <2>3. /\ io'.lba = cbw.lba /\ ~io'.flight
        /\ io'.todo = IF cbw.op = "read" THEN Whole(sz'.cmnd) ELSE sz'.cmnd
    BY <1>12, <1>20
  <2>4. sz'.cmnd = Least(cbw.n, cbw.h) /\ sz'.cmnd > 0
    BY <1>4, <1>5, <1>15, <2>1
  <2>7. io'.todo > 0
    <3>1. CASE cbw.op = "read" /\ Partial
      <4>1. cbw.h <= cbw.n /\ cbw.odd
        BY <3>1 DEF Partial
      <4>2. cbw.h > 1
        BY <1>1, <3>1, <4>1 DEF HonestInv, Honest, AtParse
      <4>3. Least(cbw.n, cbw.h) = cbw.h
        BY <1>2, <4>1 DEF Least
      <4>4. io'.todo = cbw.h - 1
        BY <2>3, <2>4, <3>1, <4>3 DEF Whole
      <4> QED BY <1>2, <4>2, <4>4
    <3>2. CASE ~(cbw.op = "read" /\ Partial)
      BY <2>3, <2>4, <3>2 DEF Whole
    <3> QED BY <3>1, <3>2
  <2>5. ASSUME ~sz'.phase PROVE io'.todo = cbw.n
    <3>1. ~(cbw.h < CmdLen) /\ CmdLen = cbw.n /\ ~Partial
      BY <1>4, <1>15, <2>1, <2>5
    <3>2. Least(cbw.n, cbw.h) = cbw.n
      BY <1>2, <3>1 DEF Least
    <3> QED BY <2>3, <2>4, <3>1, <3>2 DEF Whole
  <2>6. cbw.op = "read" => cbw.dir = "in"
    BY <1>16, <1>17, <1>20
  <2> QED BY <2>2, <2>3, <2>5, <2>6, <2>7
<1>21. ASSUME ~moves
       PROVE  /\ pc' = "finish" \/ (pc' = "top" /\ state' > NORMAL)
              /\ cbw.op \in {"read", "write"} => ~PassNow'
  <2>1. pc' = "finish" \/ (pc' = "top" /\ state' > NORMAL)
    BY <1>12, <1>21
  <2>2. cbw.op \in {"read", "write"} => ~PassNow'
    BY <1>11, <1>13, <1>15, <1>21 DEF PassNow
  <2> QED BY <2>1, <2>2
<1>22. moves => pc' \in {"read", "write"}
  BY <1>10, <1>20
<1> HIDE DEF phase
<1> QED BY <1>18, <1>19, <1>20, <1>21, <1>22

LEMMA ParseHonest ==
  ASSUME BoundsInv, BoundsInv', StatusInv, StatusInv', HonestInv, NEW rd \in BOOLEAN, Parse(rd)
  PROVE  HonestInv'
<1>1. /\ pc = "parse" /\ host' = HostEp0 /\ state' = AfterEp0
      /\ UNCHANGED <<xusb, ro, cbw, inq, txc, plug, wrote, got, csw>>
  BY DEF Parse
<1>2. state = NORMAL /\ Busy
  BY <1>1 DEF StatusInv, States, Busy
<1>3. /\ host'.short = host.short /\ host'.resets = host.resets /\ (xusb => host' = host)
      /\ host' = host \/ host'.ph = "idle"
      /\ state' \in {NORMAL, PROTOCOL_RESET}
  BY <1>1, <1>2, Ep0Short, Ep0Facts, Ep0OK
<1>4. InScope' => InScope
  BY <1>1, <1>3 DEF InScope
<1>5. cbw.h \in Nat /\ cbw.n \in Nat /\ cbw.lba \in Nat /\ wrote = {}
  BY <1>1 DEF BoundsInv, GadgetTypes, Cbws, Loops
<1>6. got \in Seq(Int) /\ Len(<<>>) = 0
  BY DEF HonestInv
<1>7. Written(0, cbw.lba) = {}
  BY DEF Written
<1>8. ASSUME InScope, Honest PROVE Honest'
  <2>1. inq = <<>>
    BY <1>1, <1>8 DEF Honest, InEmpty
  <2>2. /\ cbw.op \in {"read", "write"} => sz'.residue = cbw.h
        /\ pc' \in {"read", "write"} =>
              /\ pc' = cbw.op /\ lun'.sense = "none" /\ io'.lba = cbw.lba /\ ~io'.flight
              /\ io'.todo > 0 /\ (~sz'.phase => io'.todo = cbw.n)
              /\ cbw.op = "read" => cbw.dir = "in"
        /\ pc' \notin {"read", "write"} =>
              /\ pc' = "finish" \/ (pc' = "top" /\ state' > NORMAL)
              /\ cbw.op \in {"read", "write"} => ~PassNow'
    BY <1>8, ParseFacts
  <2>3. inq' = <<>> /\ Len(inq') <= 1 /\ DOMAIN inq' = {}
    BY <1>1, <1>6, <2>1
  <2>4. InEmpty'
    BY <2>3 DEF InEmpty
  <2>5. OnTheWay' /\ Taken'
    <3>1. ~Told'
      BY <1>1, <1>2, <1>8, ScopeFacts DEF Told
    <3> QED BY <2>3, <3>1 DEF OnTheWay, Taken
  <2>6. pc' # "parse" /\ pc' # "lastwait"
    BY <2>2
  <2>7. AtParse' /\ Last'
    BY <2>6 DEF AtParse, Last
  <2>8. cbw.op = "write" => WrittenNow(sz.residue)'
    <3> SUFFICES ASSUME cbw.op = "write" PROVE WrittenNow(sz.residue)'
      OBVIOUS
    <3>1. cbw'.h - sz'.residue = 0 /\ cbw' = cbw /\ wrote' = {}
      BY <1>1, <1>5, <2>2
    <3> QED BY <1>7, <3>1 DEF WrittenNow
  <2>9. WrittenNow(sz.residue)'
    BY <1>1, <2>8 DEF WrittenNow
  <2>10. CASE pc' \in {"read", "write"}
    <3>1. Moved' = 0 /\ sz'.residue = cbw.h
      BY <1>1, <1>5, <2>2, <2>10 DEF Moved
    <3>3. cbw'.op = pc' /\ lun'.sense = "none" /\ io'.todo > 0
      BY <1>1, <2>2, <2>10
    <3>4. /\ sz'.residue <= cbw'.h /\ io'.lba = cbw'.lba + Moved'
          /\ ~sz'.phase => io'.todo + Moved' = cbw'.n
      <4>1. cbw.h <= cbw.h /\ cbw.lba = cbw.lba + 0 /\ cbw.n + 0 = cbw.n
        BY <1>5
      <4> QED BY <1>1, <2>2, <2>10, <3>1, <4>1
    <3>6. Moving'
      BY <2>9, <3>3, <3>4 DEF Moving
    <3>7. Reading'
      <4>1. CASE pc' = "read"
        <5>1. cbw'.dir = "in"
          BY <1>1, <2>2, <4>1
        <5>2. ASSUME Awaits'
              PROVE  /\ host'.ph = "datain" /\ host'.left = cbw'.h - Len(got')
                     /\ Run(got, Len(got), cbw.lba)' /\ Len(got') = Moved'
          <6>1. host' = host /\ Awaits
            BY <1>3, <5>2 DEF Awaits
          <6>2. host.ph = "datain" /\ host.left = cbw.h /\ got = <<>>
            BY <1>1, <1>8, <5>1, <6>1 DEF Honest, AtParse
          <6>3. Len(got') = 0 /\ cbw.h = cbw.h - 0
            BY <1>1, <1>5, <1>6, <6>2
          <6>4. Run(got, Len(got), cbw.lba)'
            BY <6>3 DEF Run
          <6> QED BY <1>1, <3>1, <6>1, <6>2, <6>3, <6>4
        <5> QED BY <2>3, <5>1, <5>2 DEF Reading
      <4>2. CASE pc' # "read"
        BY <4>2 DEF Reading
      <4> QED BY <4>1, <4>2
    <3>8. Pending' /\ Finishing'
      BY <2>10 DEF Pending, Finishing
    <3> QED BY <2>4, <2>5, <2>7, <3>6, <3>7, <3>8 DEF Honest
  <2>11. CASE pc' \notin {"read", "write"}
    <3>1. Moving' /\ Reading'
      BY <2>11 DEF Moving, Reading
    <3>2. cbw' = cbw /\ (cbw.op \in {"read", "write"} => ~PassNow')
      BY <1>1, <2>2, <2>11
    <3>3. Finishing'
      BY <3>2 DEF Finishing
    <3>4. ~(pc' = "top" /\ state' = ABORT_BULK_OUT)
      BY <1>3 DEF NORMAL, PROTOCOL_RESET, ABORT_BULK_OUT
    <3>5. Pending'
      BY <2>2, <2>9, <2>11, <3>2, <3>4 DEF Pending
    <3> QED BY <2>4, <2>5, <2>7, <3>1, <3>3, <3>5 DEF Honest
  <2> QED BY <2>10, <2>11
<1> QED BY <1>1, <1>4, <1>6, <1>8 DEF HonestInv

LEMMA ReadHonest ==
  ASSUME BoundsInv, BoundsInv', StatusInv, StatusInv', HonestInv, NEW ok \in BOOLEAN, ReadChunk(ok)
  PROVE  HonestInv'
<1> DEFINE chunk == [i \in 1..ReadAmount |-> io.lba + i - 1]
<1>1. pc = "read" /\ UNCHANGED <<xusb, ro, state, cbw, host, plug, wrote, got, csw>>
  BY DEF ReadChunk
<1>2. state \in {NORMAL, PROTOCOL_RESET} /\ Busy
  BY <1>1 DEF StatusInv, States, Busy
<1>3. InScope' => InScope
  BY <1>1 DEF InScope
<1>4. /\ ReadAmount \in Nat /\ ReadAmount <= io.todo /\ io.lba \in Nat /\ io.todo \in Nat
      /\ io.todo <= sz.residue /\ sz.residue \in Nat /\ sz \in Szs /\ io \in Ios /\ lun \in Luns
      /\ cbw.h \in Nat /\ cbw.n \in Nat /\ cbw.lba \in Nat
  BY <1>1, ReadAmountOK DEF BoundsInv, GadgetTypes, Cbws
<1>5. got \in Seq(Int) /\ Len(got) \in Nat
  BY DEF HonestInv
<1>6. ASSUME InScope, Honest PROVE Honest'
  <2>1. /\ cbw.op = "read" /\ lun.sense = "none" /\ (~sz.phase => io.todo + Moved = cbw.n)
        /\ sz.residue <= cbw.h /\ io.todo > 0 /\ io.lba = cbw.lba + Moved
    BY <1>1, <1>6 DEF Honest, Moving
  <2>2. /\ cbw.dir = "in"
        /\ Awaits =>
            /\ host.ph = "datain" /\ host.left = cbw.h - Len(got) /\ Run(got, Len(got), cbw.lba)
            /\ \/ inq = <<>> /\ Len(got) = Moved
               \/ Len(inq) = 1 /\ (xusb => txc = 1)
    BY <1>1, <1>6 DEF Honest, Reading
  <2>3. \A r : WrittenNow(r)'
    BY <1>1, <2>1 DEF WrittenNow
  <2>4. ASSUME inq' = inq, sz' = sz, lun'.sense # "none", Parsed PROVE Honest'
    <3>1. /\ pc' \in {"finish", "top"} /\ (pc' = "top" => state' # NORMAL)
          /\ ~(pc' = "top" /\ state' = ABORT_BULK_OUT)
      BY <1>1, <1>2, <2>4 DEF Parsed, NORMAL, PROTOCOL_RESET, ABORT_BULK_OUT
    <3>2. ~PassNow' /\ cbw'.op = "read"
      BY <1>1, <2>1, <2>4 DEF PassNow
    <3>3. InEmpty'
      BY <1>1, <1>6, <2>4, <3>1, SameInEmpty DEF Honest
    <3>4. OnTheWay' /\ Taken'
      BY <1>1, <1>6, <2>4, SameWay DEF Honest
    <3>5. AtParse' /\ Moving' /\ Reading' /\ Last'
      BY <3>1 DEF AtParse, Moving, Reading, Last
    <3>6. Pending'
      BY <2>3, <3>1, <3>2 DEF Pending
    <3>7. Finishing'
      BY <3>2 DEF Finishing
    <3> QED BY <3>3, <3>4, <3>5, <3>6, <3>7 DEF Honest
  <2>5. CASE ReadAmount = 0
    <3>1. lun' = [lun EXCEPT !.sense = "range"] /\ Parsed /\ sz' = sz /\ inq' = inq
      BY <2>5 DEF ReadChunk
    <3>2. lun'.sense = "range"
      BY <1>4, <3>1 DEF Luns
    <3> QED BY <2>4, <3>1, <3>2
  <2>6. CASE ReadAmount # 0 /\ ~ok
    <3>1. lun' = [lun EXCEPT !.sense = "read"] /\ Parsed /\ sz' = sz /\ inq' = inq
      BY <2>6 DEF ReadChunk
    <3>2. lun'.sense = "read"
      BY <1>4, <3>1 DEF Luns
    <3> QED BY <2>4, <3>1, <3>2
  <2>7. CASE ReadAmount # 0 /\ ok
    <3>1. /\ io.flight => InDone
          /\ sz' = [sz EXCEPT !.residue = @ - ReadAmount] /\ lun' = lun
          /\ io' = [io EXCEPT !.lba = @ + ReadAmount, !.todo = @ - ReadAmount,
                              !.flight = io.todo > ReadAmount]
          /\ IF io.todo = ReadAmount
             THEN ibuf' = chunk /\ Parsed /\ UNCHANGED <<inq, txc>>
             ELSE Queue([k |-> "card", units |-> chunk]) /\ UNCHANGED <<ibuf, pc>>
      BY <2>7 DEF ReadChunk
    <3>2. PICK a \in Nat : a = ReadAmount /\ a > 0 /\ a <= io.todo /\ a <= InMax
      BY <1>1, <1>4, <2>7, ReadAmountOK
    <3>3. /\ sz'.residue = sz.residue - a /\ sz'.phase = sz.phase
          /\ io'.lba = io.lba + a /\ io'.todo = io.todo - a
          /\ io'.flight <=> io.todo > a
      <4>0. PICK f : f = (io.todo > a)
        OBVIOUS
      <4>1. PICK r, l, t : r = sz.residue - a /\ l = io.lba + a /\ t = io.todo - a
        OBVIOUS
      <4>2. sz' = [sz EXCEPT !.residue = r] /\ io' = [io EXCEPT !.lba = l, !.todo = t, !.flight = f]
        BY <3>1, <3>2, <4>0, <4>1
      <4>3. sz'.residue = r /\ sz'.phase = sz.phase /\ io'.lba = l /\ io'.todo = t /\ io'.flight = f
        BY <1>4, <4>2 DEF Szs, Ios
      <4>4. io.todo > a => f = TRUE
        BY <4>0
      <4>5. ~(io.todo > a) => f # TRUE
        BY <4>0
      <4>6. io'.flight <=> io.todo > a
        <5>1. io'.flight \in BOOLEAN
          BY DEF BoundsInv, GadgetTypes, Ios
        <5> QED BY <4>3, <4>4, <4>5, <5>1
      <4> QED BY <4>1, <4>3, <4>6
    <3>4. Moved \in Nat /\ Moved' = Moved + a /\ PassNow' = PassNow
      <4>1. Moved \in Nat
        BY <1>4, <2>1 DEF Moved
      <4>2. Moved' = Moved + a
        BY <1>1, <1>4, <3>2, <3>3 DEF Moved
      <4> QED BY <3>1, <3>3, <4>1, <4>2 DEF PassNow
    <3>5. inq = <<>>
      <4>1. CASE ~io.flight
        BY <1>1, <1>6, <4>1 DEF Honest, InEmpty
      <4>2. CASE io.flight /\ ~xusb
        BY <3>1, <4>2 DEF InDone
      <4>3. CASE io.flight /\ xusb
        <5>1. txc = 0 /\ Awaits
          BY <1>2, <1>6, <3>1, <4>3, ScopeFacts DEF InDone
        <5> QED BY <2>2, <4>3, <5>1
      <4> QED BY <4>1, <4>2, <4>3
    <3>6. Awaits => Len(got) = Moved
      <4>1. Len(inq) = 0
        BY <3>5
      <4> QED BY <2>2, <4>1
    <3>7. chunk \in Seq(Int) /\ Len(chunk) = a /\ Run(chunk, a, io.lba)
      <4>1. chunk \in Seq(Int) /\ Len(chunk) = a /\ DOMAIN chunk = 1 .. a
        BY <1>4, <3>2
      <4>2. \A i \in 1 .. a : chunk[i] = io.lba + i - 1
        BY <3>2
      <4> HIDE DEF chunk
      <4> QED BY <4>1, <4>2, <3>2 DEF Run
    <3>8. PICK u \in Seq(Int) : u = chunk
      BY <3>7
    <3> HIDE DEF chunk
    <3>9. Len(u) = a /\ (Awaits => Run(u, Len(u), cbw.lba + Len(got)))
      BY <2>1, <3>6, <3>7, <3>8
    <3>10. Awaits' = Awaits
      BY <1>1 DEF Awaits
    <3>11. CASE io.todo = ReadAmount
      <4>1. /\ ibuf' = u /\ inq' = <<>>
            /\ pc' \in {"finish", "top"} /\ (pc' = "top" => state' # NORMAL)
            /\ ~(pc' = "top" /\ state' = ABORT_BULK_OUT)
        BY <1>1, <1>2, <3>1, <3>5, <3>8, <3>11 DEF Parsed, NORMAL, PROTOCOL_RESET, ABORT_BULK_OUT
      <4>2. InEmpty'
        BY <1>1, <1>6, <4>1, SameInEmpty DEF Honest
      <4>3. OnTheWay' /\ Taken'
        BY <1>1, <1>6, <4>1, SameWay DEF Honest
      <4>4. AtParse' /\ Moving' /\ Reading' /\ Last'
        BY <4>1 DEF AtParse, Moving, Reading, Last
      <4>5. PassNow => Moved' = cbw.n
        <5> SUFFICES ASSUME PassNow PROVE Moved' = cbw.n
          OBVIOUS
        <5>1. io.todo + Moved = cbw.n
          BY <2>1 DEF PassNow
        <5>3. Moved + a = cbw.n
          BY <1>4, <3>2, <3>4, <3>11, <5>1
        <5> QED BY <3>4, <5>3
      <4>6. Pending'
        BY <1>1, <2>1, <2>2, <2>3, <3>4, <4>1, <4>5 DEF Pending
      <4>7. ~io'.flight
        BY <1>4, <3>2, <3>3, <3>11
      <4>8. Finishing'
        <5> SUFFICES ASSUME PassNow, Awaits
                     PROVE  /\ host.ph = "datain" /\ host.left = cbw.h - Len(got)
                            /\ Run(got, Len(got), cbw.lba)
                            /\ Run(u, Len(u), cbw.lba + Len(got)) /\ Len(got) + Len(u) = cbw.n
          BY <1>1, <3>2, <3>4, <3>9, <3>10, <4>1, <4>7 DEF Finishing
        <5>1. Len(got) + Len(u) = cbw.n
          BY <3>4, <3>6, <3>9, <4>5
        <5> QED BY <2>2, <3>9, <5>1
      <4> QED BY <4>2, <4>3, <4>4, <4>6, <4>8 DEF Honest
    <3>12. CASE io.todo # ReadAmount
      <4>1. Queue([k |-> "card", units |-> u]) /\ pc' = "read"
        BY <1>1, <3>1, <3>8, <3>12
      <4>2. PICK it \in Items : it = [k |-> "card", units |-> u]
        BY DEF Items
      <4>3. it.k = "card" /\ it.units = u /\ Queue(it)
        BY <4>1, <4>2
      <4>4. Len(inq') = 1 /\ inq'[1] = it /\ txc' = 1 /\ DOMAIN inq' = {1}
        BY <3>5, <4>3, QueueFirst DEF BoundsInv, GadgetTypes
      <4>5. Busy'
        BY <4>1 DEF Busy
      <4>6. OnTheWay' /\ Taken'
        BY <4>5, ToBusy
      <4>7. io'.flight /\ io'.todo > 0
        BY <1>4, <3>2, <3>3, <3>12
      <4>8. InEmpty'
        <5>1. xusb' => host'.ph # "idle"
          BY <1>1, <1>2, <1>6, ScopeFacts DEF Awaits
        <5>2. Len(inq') <= 1
          BY <4>4
        <5>3. \A j \in DOMAIN inq' : inq'[j].k # "csw"
          BY <4>3, <4>4
        <5> QED BY <4>1, <4>7, <5>1, <5>2, <5>3 DEF InEmpty, StatusAt
      <4>9. AtParse' /\ Pending' /\ Finishing' /\ Last'
        BY <4>1 DEF AtParse, Pending, Finishing, Last
      <4>10. Moving'
        <5>1. sz'.residue <= cbw.h
          BY <1>4, <2>1, <3>2, <3>3
        <5>2. io'.lba = cbw.lba + Moved'
          BY <1>4, <2>1, <3>2, <3>3, <3>4
        <5>3. ~sz'.phase => io'.todo + Moved' = cbw.n
          BY <1>4, <2>1, <3>2, <3>3, <3>4
        <5>5. WrittenNow(sz.residue)'
          BY <2>3 DEF WrittenNow
        <5> QED BY <1>1, <2>1, <3>1, <3>3, <4>1, <4>7, <5>1, <5>2, <5>3, <5>5 DEF Moving
      <4>11. Reading'
        <5> SUFFICES ASSUME Awaits
                     PROVE  /\ host.ph = "datain" /\ host.left = cbw.h - Len(got)
                            /\ Run(got, Len(got), cbw.lba)
                            /\ Len(inq') = 1 /\ inq'[1].k = "card" /\ Len(inq'[1].units) > 0
                            /\ Run(inq'[1].units, Len(inq'[1].units), cbw.lba + Len(got))
                            /\ Len(got) + Len(inq'[1].units) = Moved'
                            /\ txc' = 1
          BY <1>1, <2>2, <3>10 DEF Reading
        <5>1. Len(got) + Len(u) = Moved' /\ Len(u) > 0
          BY <3>2, <3>4, <3>6, <3>9
        <5> QED BY <2>2, <3>9, <4>3, <4>4, <5>1
      <4> QED BY <4>6, <4>8, <4>9, <4>10, <4>11 DEF Honest
    <3> QED BY <3>11, <3>12
  <2> QED BY <2>5, <2>6, <2>7
<1> HIDE DEF chunk
<1> QED BY <1>1, <1>3, <1>5, <1>6 DEF HonestInv

\* What one round of the loop writes.
Chunk(w, b) == {<<b + i - 1, HOST>> : i \in 1 .. w}
Extends(k, w, t, a, b) == Written(k, a) \cup Chunk(w, b) = Written(t, a)

LEMMA WrittenJoin ==
  ASSUME NEW k \in Nat, NEW w \in Nat, NEW t \in Nat, t = k + w,
         NEW a \in Int, NEW b \in Int, b = a + k
  PROVE  Extends(k, w, t, a, b)
<1> USE DEF Chunk, Extends
<1>1. ASSUME NEW x \in Written(k, a) PROVE x \in Written(t, a)
  <2>1. PICK i \in 0 .. k - 1 : x = <<a + i, HOST>>
    BY DEF Written
  <2>2. i \in 0 .. t - 1
    OBVIOUS
  <2> QED BY <2>1, <2>2 DEF Written
<1>2. ASSUME NEW i \in 1 .. w PROVE <<b + i - 1, HOST>> \in Written(t, a)
  <2>1. PICK j \in 0 .. t - 1 : a + j = b + i - 1
    <3>1. k + i - 1 \in 0 .. t - 1 /\ a + (k + i - 1) = b + i - 1
      OBVIOUS
    <3> QED BY <3>1
  <2>2. <<a + j, HOST>> \in Written(t, a)
    BY DEF Written
  <2> QED BY <2>1, <2>2
<1>3. ASSUME NEW x \in Written(t, a) PROVE x \in Written(k, a) \cup Chunk(w, b)
  <2>1. PICK j \in 0 .. t - 1 : x = <<a + j, HOST>>
    BY DEF Written
  <2>2. CASE j < k
    <3>1. j \in 0 .. k - 1
      BY <2>2
    <3> QED BY <2>1, <3>1 DEF Written
  <2>3. CASE j >= k
    <3>1. j - k + 1 \in 1 .. w /\ b + (j - k + 1) - 1 = a + j
      BY <2>3
    <3>2. PICK i \in 1 .. w : b + i - 1 = a + j
      BY <3>1
    <3> QED BY <2>1, <3>2
  <2> QED BY <2>2, <2>3
<1>4. Written(k, a) \cup Chunk(w, b) \subseteq Written(t, a)
  BY <1>1, <1>2
<1> QED BY <1>3, <1>4

\* What one round of the write loop does to the medium and to the counts.
LEMMA WriteFacts ==
  ASSUME BoundsInv, BoundsInv', StatusInv, NEW ok \in BOOLEAN, WriteChunk(ok),
         ~(io.ulba >= NumSectors)
  PROVE  \E w \in Nat :
           /\ w <= io.todo /\ sz'.residue = sz.residue - w /\ sz'.phase = sz.phase
           /\ io'.lba = io.lba + w /\ io'.todo = io.todo - w
           /\ xusb \/ ~host'.short =>
                wrote' = wrote \cup {<<io.lba + i - 1, HOST>> : i \in 1 .. w}
           /\ host.short => host'.short
           /\ host'.resets = host.resets
           /\ pc' = "write" => lun'.sense = "none" /\ io'.todo # 0
           /\ pc' # "write" => /\ Parsed
                               /\ lun'.sense = "none" /\ ~host'.short => io'.todo = 0
<1> DEFINE n == Least(io.req, OutMax)
           whole == IF n = io.req THEN Whole(n) ELSE n
           a(r) == Least(Least(r.actual, NumSectors - io.lba), whole)
           w(r) == IF ok THEN a(r) ELSE 0
<1>1. /\ pc = "write" /\ io.req > 0
  BY DEF WriteChunk
<1>2. /\ sz \in Szs /\ io \in Ios /\ lun \in Luns /\ io.req <= io.todo /\ io.todo <= sz.residue
      /\ sz' \in Szs /\ io' \in Ios
  BY <1>1 DEF BoundsInv, GadgetTypes, Loops
<1>3. /\ io.lba \in 0 .. NumSectors /\ io.req \in Nat /\ io.todo \in Nat /\ io.ulba \in Nat
      /\ sz.residue \in Nat
  BY <1>2 DEF Ios, Szs
<1>4. PICK r \in Received(n) :
             /\ host' = r.h
             /\ wrote' = wrote \cup {<<io.lba + i - 1, r.buf[i]>> : i \in 1..w(r)}
             /\ io' = [io EXCEPT !.ulba = @ + whole, !.req = @ - n,
                                 !.lba = @ + w(r), !.todo = @ - w(r)]
             /\ sz' = [sz EXCEPT !.left = @ - n, !.residue = @ - w(r),
                                 !.short = ok /\ ShortPacket(r, n)]
             /\ lun' = [lun EXCEPT !.sense = CASE r.st # "ok" -> "comm"
                                               [] r.st = "ok" /\ ~ok -> "write"
                                               [] OTHER -> @]
             /\ IF lun'.sense # "none" \/ sz'.short \/ io'.todo = 0
                THEN Parsed ELSE pc' = pc
  BY DEF WriteChunk
<1>5. PICK m \in Nat : m = n /\ m > 0 /\ m <= io.req
  <2>1. n \in Nat /\ n > 0 /\ n <= io.req
    BY <1>1, <1>3, Consts DEF Least
  <2> QED BY <2>1
<1>17. PICK c \in Nat : c = whole
  <2>1. whole \in Nat
    BY <1>5 DEF Whole
  <2> QED BY <2>1
<1> HIDE DEF n, whole
<1>6. r \in Received(m)
  BY <1>4, <1>5
<1>7. /\ r.actual \in 0 .. m
      /\ host.short => r.h.short
      /\ r.st # "ok" => r.actual = 0
      /\ xusb \/ ~r.h.short => \A i \in 1 .. r.actual : r.buf[i] = HOST
      /\ r.st = "ok" /\ ~r.h.short => r.actual = m
      /\ r.h.resets = host.resets
  BY <1>5, <1>6, ReceivedOK, ReceivedTrue, ReceivedHost
<1>8. PICK b \in Nat : b = w(r) /\ b <= r.actual
  <2>1. a(r) \in Nat /\ a(r) <= r.actual
    BY <1>3, <1>7, <1>17, Consts DEF Least
  <2>2. w(r) \in Nat /\ w(r) <= r.actual
    <3> HIDE DEF a
    <3> QED BY <1>7, <2>1
  <2> QED BY <2>2
<1>9. b <= io.todo
  BY <1>2, <1>3, <1>5, <1>7, <1>8
<1> HIDE DEF a, w
<1>10. sz'.residue = sz.residue - b /\ sz'.phase = sz.phase /\ (ShortPacket(r, m) \/ ~sz'.short)
  <2>1. PICK l, q, f : l = sz.left - n /\ q = sz.residue - b /\ f = (ok /\ ShortPacket(r, n))
    OBVIOUS
  <2>2. sz' = [sz EXCEPT !.left = l, !.residue = q, !.short = f]
    BY <1>4, <1>8, <2>1
  <2>3. sz'.residue = q /\ sz'.phase = sz.phase /\ sz'.short = f
    BY <1>2, <2>2 DEF Szs
  <2>4. ~ShortPacket(r, m) => f # TRUE
    BY <1>5, <2>1
  <2>5. sz'.short \in BOOLEAN
    BY <1>2 DEF Szs
  <2> QED BY <2>1, <2>3, <2>4, <2>5
<1>11. io'.lba = io.lba + b /\ io'.todo = io.todo - b
  <2>1. PICK u, q, l, t : u = io.ulba + whole /\ q = io.req - n /\ l = io.lba + b /\ t = io.todo - b
    OBVIOUS
  <2>2. io' = [io EXCEPT !.ulba = u, !.req = q, !.lba = l, !.todo = t]
    BY <1>4, <1>8, <2>1
  <2>3. io'.lba = l /\ io'.todo = t
    BY <1>2, <2>2 DEF Ios
  <2> QED BY <2>1, <2>3
<1>12. ASSUME xusb \/ ~host'.short
       PROVE  wrote' = wrote \cup {<<io.lba + i - 1, HOST>> : i \in 1 .. b}
  <2>1. \A i \in 1 .. b : r.buf[i] = HOST
    BY <1>4, <1>7, <1>8, <1>12
  <2>2. {<<io.lba + i - 1, r.buf[i]>> : i \in 1 .. b} = {<<io.lba + i - 1, HOST>> : i \in 1 .. b}
    BY <2>1
  <2> QED BY <1>4, <1>8, <2>2
<1>13. lun'.sense = "none" => r.st = "ok"
  <2>1. PICK s : s = CASE r.st # "ok" -> "comm" [] r.st = "ok" /\ ~ok -> "write" [] OTHER -> lun.sense
    OBVIOUS
  <2>2. lun' = [lun EXCEPT !.sense = s]
    BY <1>4, <2>1
  <2>3. lun'.sense = s
    BY <1>2, <2>2 DEF Luns
  <2>4. r.st # "ok" => s = "comm"
    BY <2>1
  <2> QED BY <2>3, <2>4
<1>14. pc' = "write" => lun'.sense = "none" /\ io'.todo # 0
  BY <1>4 DEF Parsed
<1>15. ASSUME pc' # "write"
       PROVE  /\ Parsed
              /\ lun'.sense = "none" /\ ~host'.short => io'.todo = 0
  <2>1. Parsed /\ (lun'.sense # "none" \/ sz'.short \/ io'.todo = 0)
    BY <1>1, <1>4, <1>15
  <2>2. ASSUME lun'.sense = "none", ~host'.short PROVE ~ShortPacket(r, m)
    <3>1. r.actual = m
      BY <1>4, <1>7, <1>13, <2>2
    <3> QED BY <3>1 DEF ShortPacket
  <2> QED BY <1>10, <2>1, <2>2
<1>16. (host.short => host'.short) /\ host'.resets = host.resets
  BY <1>4, <1>7
<1> QED BY <1>8, <1>9, <1>10, <1>11, <1>12, <1>14, <1>15, <1>16

LEMMA WriteHonest ==
  ASSUME BoundsInv, BoundsInv', StatusInv, HonestInv, NEW ok \in BOOLEAN, WriteChunk(ok)
  PROVE  HonestInv'
<1>1. pc = "write" /\ UNCHANGED <<xusb, ro, state, cbw, inq, plug, got, csw>>
  BY DEF WriteChunk
<1>2. state \in {NORMAL, PROTOCOL_RESET} /\ Busy
  BY <1>1 DEF StatusInv, States, Busy
<1>3. ASSUME Parsed
      PROVE  pc' \in {"finish", "top"} /\ ~(pc' = "top" /\ state' = ABORT_BULK_OUT)
  BY <1>1, <1>2, <1>3 DEF Parsed, NORMAL, PROTOCOL_RESET, ABORT_BULK_OUT
<1>4. /\ sz.residue \in Nat /\ io.todo \in Nat /\ io.lba \in Nat
      /\ cbw.h \in Nat /\ cbw.n \in Nat /\ cbw.lba \in Nat
  BY DEF BoundsInv, GadgetTypes, Cbws, Szs, Ios
<1>5. ASSUME InScope, Honest, pc' \in {"write", "finish", "top"}, Moving', Pending' PROVE Honest'
  <2>1. inq' = <<>> /\ Len(inq') <= 1 /\ DOMAIN inq' = {}
    <3>1. inq = <<>>
      BY <1>1, <1>5 DEF Honest, InEmpty
    <3>2. inq' = <<>>
      BY <1>1, <3>1
    <3> QED BY <3>2
  <2>2. InEmpty'
    BY <2>1 DEF InEmpty
  <2>3. ~Told
    BY <1>2, <1>5, ScopeFacts
  <2>4. OnTheWay' /\ Taken'
    BY <1>1, <2>1, <2>3 DEF OnTheWay, Taken, Told
  <2>5. cbw'.op = "write"
    BY <1>1, <1>5 DEF Honest, Moving
  <2>6. AtParse' /\ Reading' /\ Last' /\ Finishing'
    BY <1>5, <2>5 DEF AtParse, Reading, Last, Finishing
  <2> QED BY <1>5, <2>2, <2>4, <2>6 DEF Honest
<1>6. CASE io.ulba >= NumSectors
  <2>1. lun' = [lun EXCEPT !.sense = "range"] /\ Parsed /\ UNCHANGED <<sz, host, wrote>>
    BY <1>6 DEF WriteChunk
  <2>2. lun'.sense = "range"
    BY <2>1 DEF BoundsInv, GadgetTypes, Luns
  <2>3. ~PassNow'
    BY <2>2 DEF PassNow
  <2>4. InScope' => InScope
    BY <1>1, <2>1 DEF InScope
  <2>5. ASSUME InScope, Honest PROVE Honest'
    <3>1. pc' \in {"finish", "top"} /\ ~(pc' = "top" /\ state' = ABORT_BULK_OUT)
      BY <1>3, <2>1
    <3>2. Moving'
      BY <3>1 DEF Moving
    <3>3. WrittenNow(sz.residue)
      BY <1>1, <2>5 DEF Honest, Moving
    <3>4. WrittenNow(sz.residue)'
      BY <1>1, <2>1, <3>3 DEF WrittenNow
    <3>5. Pending'
      BY <2>3, <3>1, <3>4 DEF Pending
    <3> QED BY <1>5, <2>5, <3>1, <3>2, <3>5
  <2> QED BY <1>1, <2>4, <2>5 DEF HonestInv
<1>7. CASE ~(io.ulba >= NumSectors)
  <2>1. PICK w \in Nat :
           /\ w <= io.todo /\ sz'.residue = sz.residue - w /\ sz'.phase = sz.phase
           /\ io'.lba = io.lba + w /\ io'.todo = io.todo - w
           /\ xusb \/ ~host'.short =>
                wrote' = wrote \cup {<<io.lba + i - 1, HOST>> : i \in 1 .. w}
           /\ host.short => host'.short
           /\ host'.resets = host.resets
           /\ pc' = "write" => lun'.sense = "none" /\ io'.todo # 0
           /\ pc' # "write" => /\ Parsed
                               /\ lun'.sense = "none" /\ ~host'.short => io'.todo = 0
    BY <1>7, WriteFacts
  <2>2. InScope' => InScope
    BY <1>1, <2>1 DEF InScope
  <2>3. ASSUME InScope, Honest PROVE Honest'
    <3>1. /\ cbw.op = "write" /\ (~sz.phase => io.todo + Moved = cbw.n)
          /\ sz.residue <= cbw.h /\ io.todo > 0 /\ io.lba = cbw.lba + Moved
          /\ WrittenNow(sz.residue)
      BY <1>1, <2>3 DEF Honest, Moving
    <3>2. PICK k \in Nat : k = Moved
      BY <1>4, <3>1 DEF Moved
    <3>3. Moved' = k + w
      BY <1>1, <1>4, <2>1, <3>2 DEF Moved
    <3>4. /\ ~sz'.phase => io'.todo + Moved' = cbw.n
          /\ io'.lba = cbw.lba + Moved' /\ sz'.residue <= cbw.h
      BY <1>4, <2>1, <3>1, <3>2, <3>3
    <3>5. WrittenNow(sz.residue)'
      <4> SUFFICES ASSUME ~ro, xusb \/ ~host'.short
                   PROVE  wrote' = Written(k + w, cbw.lba)
        BY <1>1, <3>3 DEF WrittenNow, Moved
      <4>1. wrote = Written(k, cbw.lba)
        BY <2>1, <3>1, <3>2 DEF WrittenNow, Moved
      <4>2. PICK a \in Int : a = cbw.lba
        BY <1>4
      <4>3. PICK b \in Int : b = io.lba
        BY <1>4
      <4>4. b = a + k
        BY <3>1, <3>2, <4>2, <4>3
      <4>6. PICK t \in Nat : t = k + w
        OBVIOUS
      <4>7. Extends(k, w, t, a, b)
        BY <4>4, <4>6, WrittenJoin
      <4>8. wrote' = wrote \cup Chunk(w, b)
        BY <2>1, <4>3 DEF Chunk
      <4> QED BY <4>1, <4>2, <4>6, <4>7, <4>8 DEF Extends
    <3>6. pc' \in {"write", "finish", "top"} /\ ~(pc' = "top" /\ state' = ABORT_BULK_OUT)
      BY <1>3, <2>1
    <3>8. Moving'
      <4> SUFFICES ASSUME pc' = "write" PROVE Moving'
        BY <3>6 DEF Moving
      <4>1. lun'.sense = "none" /\ io'.todo > 0
        BY <1>4, <2>1
      <4> QED BY <1>1, <2>1, <3>1, <3>4, <3>5, <4>1 DEF Moving
    <3>9. Pending'
      <4> SUFFICES ASSUME pc' = "finish", PassNow', ~host'.short PROVE Moved' = cbw.n
        BY <1>1, <3>1, <3>5, <3>6 DEF Pending
      <4>1. io'.todo = 0
        BY <2>1 DEF PassNow
      <4>2. io'.todo + Moved' = cbw.n
        BY <3>4 DEF PassNow
      <4> QED BY <3>3, <4>1, <4>2
    <3> QED BY <1>5, <2>3, <3>6, <3>8, <3>9
  <2> QED BY <1>1, <2>2, <2>3 DEF HonestInv
<1> QED BY <1>6, <1>7

\* The host takes the first transfer: what is left, and what it has then.
LEMMA TakesFacts ==
  ASSUME BoundsInv, HonestInv, HostTakes
  PROVE  /\ inq # <<>> /\ Len(inq) \in Nat /\ Len(inq) > 0 /\ inq[1] \in Items
         /\ Len(inq') = Len(inq) - 1 /\ (Len(inq) = 1 => inq' = <<>>)
         /\ \A j \in DOMAIN inq' : j \in Nat /\ j > 0 /\ j + 1 \in DOMAIN inq /\ inq'[j] = inq[j + 1]
         /\ host'.short = host.short /\ host'.resets = host.resets
<1>1. inq \in Seq(Items) /\ inq # <<>> /\ inq' = Tail(inq)
  BY DEF BoundsInv, GadgetTypes, HostTakes
<1>2. Len(inq) \in Nat /\ Len(inq) > 0 /\ inq[1] \in Items
  BY <1>1
<1>3. Tail(inq) \in Seq(Items) /\ Len(Tail(inq)) = Len(inq) - 1
  BY <1>1
<1>4. \A j \in 1 .. Len(inq) - 1 : Tail(inq)[j] = inq[j + 1]
  BY <1>1, <1>2
<1>5. Len(inq) = 1 => inq' = <<>>
  BY <1>1, <1>3
<1>6. \A j \in DOMAIN inq' : j \in Nat /\ j > 0 /\ j + 1 \in DOMAIN inq /\ inq'[j] = inq[j + 1]
  <2>1. DOMAIN inq = 1 .. Len(inq) /\ DOMAIN inq' = 1 .. Len(inq) - 1
    BY <1>1, <1>3
  <2> QED BY <1>1, <1>2, <1>4, <2>1
<1>7. host \in Hosts
  BY DEF BoundsInv, GadgetTypes
<1>8. \E l, p : host' = [host EXCEPT !.left = l, !.ph = p]
  <2>1. CASE host.ph = "datain"
    <3>1. \E k, q : host' = [host EXCEPT !.left = @ - k, !.ph = q]
      BY <2>1 DEF HostTakes
    <3> QED BY <3>1
  <2>2. CASE host.ph # "datain"
    <3>1. \E p : host' = [host EXCEPT !.ph = p]
      BY <2>2 DEF HostTakes
    <3>2. PICK p : host' = [host EXCEPT !.ph = p]
      BY <3>1
    <3>3. host' = [host EXCEPT !.left = host.left, !.ph = p]
      BY <1>7, <3>2 DEF Hosts
    <3> QED BY <3>3
  <2> QED BY <2>1, <2>2
<1>9. host'.short = host.short /\ host'.resets = host.resets
  BY <1>7, <1>8 DEF Hosts
<1> QED BY <1>1, <1>2, <1>3, <1>5, <1>6, <1>9

\* Data taken in the data phase.
LEMMA TakesData ==
  ASSUME BoundsInv, HonestInv, HostTakes, host.ph = "datain"
  PROVE  /\ got' \in Seq(Int) /\ csw' = csw /\ host'.ph \in {"datain", "csw"}
         /\ inq[1].k # "csw" =>
              /\ inq[1].units \in Seq(Int)
              /\ Len(inq[1].units) <= host.left =>
                   got' = got \o inq[1].units /\ host'.left = host.left - Len(inq[1].units)
              /\ Len(inq[1].units) = host.left => host'.ph = "csw"
              /\ 0 < Len(inq[1].units) /\ Len(inq[1].units) < host.left => host'.ph = "datain"
<1> DEFINE x == Head(inq)
           u == IF x.k = "csw" THEN <<STALE>> ELSE x.units
           k == Least(Len(u), host.left)
           ph == IF x.k = "csw" \/ u = <<>> \/ k = host.left THEN "csw" ELSE host.ph
<1>1. inq[1] \in Items /\ inq # <<>> /\ inq \in Seq(Items)
  BY TakesFacts DEF BoundsInv, GadgetTypes
<1>2. x = inq[1]
  BY <1>1
<1>3. /\ got' = got \o SubSeq(u, 1, k) /\ csw' = csw
      /\ host' = [host EXCEPT !.left = @ - k, !.ph = ph]
  BY DEF HostTakes
<1>4. x.k # "csw" => x.units \in Seq(Int)
  BY <1>1, <1>2 DEF Items
<1>5. PICK v \in Seq(Int) : v = u
  <2>1. <<STALE>> \in Seq(Int)
    BY DEF STALE
  <2>2. u \in Seq(Int)
    BY <1>4, <2>1
  <2> QED BY <2>2
<1>6. x.k # "csw" => v = inq[1].units
  BY <1>2, <1>5
<1>7. host \in Hosts /\ host.left \in Nat
  BY DEF BoundsInv, GadgetTypes, Hosts
<1> HIDE DEF x, u
<1>8. PICK m \in Nat : m = k /\ m <= Len(v) /\ m <= host.left /\ (Len(v) <= host.left => m = Len(v))
  <2>1. Len(v) \in Nat
    OBVIOUS
  <2>2. k \in Nat /\ k <= Len(v) /\ k <= host.left /\ (Len(v) <= host.left => k = Len(v))
    BY <1>5, <1>7, <2>1 DEF Least
  <2> QED BY <2>2
<1>9. got \in Seq(Int) /\ SubSeq(v, 1, m) \in Seq(Int) /\ got' = got \o SubSeq(v, 1, m)
  <2>1. got \in Seq(Int)
    BY DEF HonestInv
  <2>2. SubSeq(v, 1, m) \in Seq(Int)
    BY <1>8
  <2> QED BY <1>3, <1>5, <1>8, <2>1, <2>2
<1>10. got' \in Seq(Int)
  BY <1>9
<1>11. host'.ph = ph /\ host'.left = host.left - m
  <2>1. PICK l, p : l = host.left - k /\ p = ph
    OBVIOUS
  <2>2. host' = [host EXCEPT !.left = l, !.ph = p]
    BY <1>3, <2>1
  <2>3. host'.left = l /\ host'.ph = p
    BY <1>7, <2>2 DEF Hosts
  <2> QED BY <1>8, <2>1, <2>3
<1>12. Len(v) <= host.left => got' = got \o v
  <2>1. SubSeq(v, 1, Len(v)) = v
    OBVIOUS
  <2> QED BY <1>8, <1>9, <2>1
<1>13. Len(v) = host.left => host'.ph = "csw"
  <2>1. Len(v) = host.left => k = host.left
    BY <1>7, <1>8
  <2> QED BY <1>11, <2>1
<1>14. x.k # "csw" /\ 0 < Len(v) /\ Len(v) < host.left => host'.ph = "datain"
  <2> SUFFICES ASSUME x.k # "csw", 0 < Len(v), Len(v) < host.left PROVE host'.ph = "datain"
    OBVIOUS
  <2>1. u # <<>>
    BY <1>5
  <2>2. k # host.left
    BY <1>7, <1>8
  <2> QED BY <1>11, <2>1, <2>2
<1>15. host'.ph \in {"datain", "csw"}
  BY <1>11
<1> HIDE DEF k, ph
<1>16. Len(v) <= host.left => host'.left = host.left - Len(v)
  BY <1>8, <1>11
<1> QED BY <1>2, <1>3, <1>4, <1>6, <1>10, <1>12, <1>13, <1>14, <1>15, <1>16

LEMMA TakesStatus ==
  ASSUME BoundsInv, HonestInv, HostTakes, host.ph # "datain"
  PROVE  /\ host.ph = "csw" /\ got' = got
         /\ inq[1].k = "csw" =>
              /\ host'.ph = "idle" /\ csw'.status = inq[1].status /\ csw'.residue = inq[1].residue
              /\ csw'.cur = inq[1].cur /\ csw'.status # "none"
         /\ inq[1].k # "csw" => host'.ph = "lost" /\ csw' = csw
<1>1. inq[1] \in Items /\ Head(inq) = inq[1] /\ host \in Hosts
  <2>1. inq \in Seq(Items) /\ inq # <<>>
    BY DEF BoundsInv, GadgetTypes, HostTakes
  <2> QED BY <2>1 DEF BoundsInv, GadgetTypes
<1>2. host.ph = "csw"
  BY DEF HostTakes
<1>3. CASE inq[1].k = "csw"
  <2>1. /\ csw' = [status |-> inq[1].status, residue |-> inq[1].residue,
                   cur |-> inq[1].cur, fresh |-> TRUE]
        /\ host' = [host EXCEPT !.ph = "idle"] /\ got' = got
    BY <1>1, <1>3 DEF HostTakes
  <2>2. inq[1].status # "none"
    BY <1>1, <1>3 DEF Items
  <2>3. host'.ph = "idle"
    BY <1>1, <2>1 DEF Hosts
  <2> QED BY <1>2, <1>3, <2>1, <2>2, <2>3
<1>4. CASE inq[1].k # "csw"
  <2>1. host' = [host EXCEPT !.ph = "lost"] /\ csw' = csw /\ got' = got
    BY <1>1, <1>4 DEF HostTakes
  <2>2. host'.ph = "lost"
    BY <1>1, <2>1 DEF Hosts
  <2> QED BY <1>2, <1>4, <2>1, <2>2
<1> QED BY <1>3, <1>4

LEMMA HostTakesHonest ==
  ASSUME BoundsInv, StatusInv, HonestInv, HostTakes PROVE HonestInv'
<1>1. /\ UNCHANGED <<xusb, ro, pc, state, cbw, sz, lun, io, ibuf, plug, wrote>>
      /\ host.ph \in {"datain", "csw"}
  BY DEF HostTakes
<1>2. /\ inq # <<>> /\ Len(inq) \in Nat /\ Len(inq) > 0 /\ inq[1] \in Items
      /\ Len(inq') = Len(inq) - 1 /\ (Len(inq) = 1 => inq' = <<>>)
      /\ \A j \in DOMAIN inq' : j \in Nat /\ j > 0 /\ j + 1 \in DOMAIN inq /\ inq'[j] = inq[j + 1]
      /\ host'.short = host.short /\ host'.resets = host.resets
  BY TakesFacts
<1>3. csw.status = "none" /\ ~Told /\ Awaits
  BY <1>1 DEF StatusInv, OneAnswer, Told, Awaits
<1>4. InScope' => InScope
  BY <1>1, <1>2 DEF InScope
<1>5. got \in Seq(Int) /\ (csw.fresh => csw.status # "none")
  BY DEF HonestInv
<1>6. got' \in Seq(Int) /\ (csw'.fresh => csw'.status # "none")
  <2>1. CASE host.ph = "datain"
    BY <1>5, <2>1, TakesData
  <2>2. CASE host.ph # "datain"
    BY <1>5, <2>2, TakesStatus
  <2> QED BY <2>1, <2>2
<1>7. ASSUME InScope, Honest PROVE Honest'
  <2>1. xusb => \A j \in DOMAIN inq : inq[j].k = "csw" => j = Len(inq)
    BY <1>7 DEF Honest, InEmpty, StatusAt
  <2>2. xusb => \A j \in DOMAIN inq' : inq'[j].k = "csw" => j = Len(inq')
    <3> SUFFICES ASSUME xusb, NEW j \in DOMAIN inq', inq'[j].k = "csw" PROVE j = Len(inq')
      OBVIOUS
    <3>1. j \in Nat /\ j + 1 = Len(inq)
      BY <1>2, <2>1
    <3> QED BY <1>2, <3>1
  <2>3. xusb /\ host'.ph = "idle" => inq' = <<>>
    <3> SUFFICES ASSUME xusb, host'.ph = "idle" PROVE inq' = <<>>
      OBVIOUS
    <3>1. inq[1].k = "csw"
      <4>1. CASE host.ph = "datain"
        BY <4>1, TakesData
      <4>2. CASE host.ph # "datain"
        BY <4>2, TakesStatus
      <4> QED BY <4>1, <4>2
    <3>2. 1 \in DOMAIN inq
      <4>1. inq \in Seq(Items)
        BY DEF BoundsInv, GadgetTypes
      <4> QED BY <1>2, <4>1
    <3> QED BY <1>2, <2>1, <3>1, <3>2
  <2>4. ~xusb => Len(inq') <= 1
    <3>1. ~xusb => Len(inq) <= 1
      BY <1>7 DEF Honest, InEmpty
    <3> QED BY <1>2, <3>1
  <2>5. /\ pc \notin {"parse", "write"} /\ ~(pc = "read" /\ ~io.flight)
        /\ ~xusb => ~(pc \in {"start", "cbw"} \/ (pc = "top" /\ state = NORMAL))
    BY <1>2, <1>7 DEF Honest, InEmpty
  <2>6. InEmpty'
    BY <1>1, <2>2, <2>3, <2>4, <2>5 DEF InEmpty, StatusAt
  <2>7. AtParse'
    BY <1>1, <2>5 DEF AtParse
  <2>8. PassNow' = PassNow /\ Moved' = Moved
    BY <1>1 DEF PassNow, Moved
  <2>9. Vouched' = Vouched /\ Rest' = Rest
    BY <1>1 DEF Vouched, OneBuffer, Rest
  <2>10. Moving'
    <3>1. WrittenNow(sz.residue)' = WrittenNow(sz.residue)
      BY <1>1, <1>2 DEF WrittenNow
    <3> QED BY <1>1, <1>7, <2>8, <3>1 DEF Honest, Moving
  <2>11. Pending'
    <3>1. WrittenNow(sz.residue)' = WrittenNow(sz.residue)
      BY <1>1, <1>2 DEF WrittenNow
    <3> QED BY <1>1, <1>2, <1>7, <2>8, <3>1 DEF Honest, Pending
  <2>12. ~(pc = "finish" /\ PassNow /\ cbw.op = "read")
    BY <1>2, <1>3, <1>7 DEF Honest, Finishing
  <2>13. Finishing'
    BY <1>1, <2>8, <2>12 DEF Finishing
  <2>14. Reading'
    <3> SUFFICES ASSUME pc = "read" PROVE Reading'
      BY <1>1 DEF Reading
    <3>1. /\ cbw.dir = "in"
          /\ host.ph = "datain" /\ host.left = cbw.h - Len(got) /\ Run(got, Len(got), cbw.lba)
          /\ Len(inq) = 1 /\ inq[1].k = "card" /\ Len(inq[1].units) > 0
          /\ Run(inq[1].units, Len(inq[1].units), cbw.lba + Len(got))
          /\ Len(got) + Len(inq[1].units) = Moved
      BY <1>2, <1>3, <1>7 DEF Honest, Reading
    <3>2. PICK u \in Seq(Int) : u = inq[1].units
      BY <3>1, TakesData
    <3>3. PICK g \in Seq(Int) : g = got
      BY <1>5
    <3>4. Len(u) \in Nat /\ Len(g) \in Nat /\ cbw.h \in Nat /\ cbw.lba \in Nat /\ sz.residue \in Nat
      BY DEF BoundsInv, GadgetTypes, Cbws, Szs
    <3>5. sz.residue > 0
      <4>1. io.todo > 0 /\ io.todo <= sz.residue /\ io.todo \in Nat
        BY <1>7 DEF Honest, Moving, BoundsInv, GadgetTypes, Loops, Ios
      <4> QED BY <3>4, <4>1
    <3>6. Len(g) + Len(u) = cbw.h - sz.residue
      BY <3>1, <3>2, <3>3 DEF Moved
    <3>7. Len(u) > 0 /\ Len(u) < host.left /\ Len(u) <= host.left
      BY <3>1, <3>2, <3>3, <3>4, <3>5, <3>6
    <3>8. got' = got \o u /\ host'.left = host.left - Len(u) /\ host'.ph = "datain"
      BY <3>1, <3>2, <3>7, TakesData
    <3>9. PICK a \in Int : a = cbw.lba
      BY <3>4
    <3>10. PICK b \in Int : b = a + Len(g)
      BY <3>4
    <3>11. Run(g, Len(g), a) /\ Run(u, Len(u), b)
      BY <3>1, <3>2, <3>3, <3>9, <3>10
    <3>12. Run(g \o u, Len(g) + Len(u), a)
      BY <3>10, <3>11, RunJoin
    <3>13. Len(g \o u) = Len(g) + Len(u)
      OBVIOUS
    <3>14. got' = g \o u /\ Len(got') = Len(g) + Len(u)
      BY <3>3, <3>8, <3>13
    <3>15. Run(got, Len(got), cbw.lba)'
      <4>1. Run(got', Len(got'), cbw.lba)
        BY <3>9, <3>12, <3>14
      <4> QED BY <1>1, <4>1 DEF Run
    <3>16. host'.left = cbw.h - Len(got')
      BY <3>1, <3>3, <3>4, <3>8, <3>14
    <3>17. Len(got') = Moved
      BY <3>6, <3>14 DEF Moved
    <3> QED BY <1>1, <1>2, <2>8, <3>1, <3>8, <3>15, <3>16, <3>17 DEF Reading
  <2>15. Last'
    <3> SUFFICES ASSUME pc = "lastwait", PassNow, Vouched
                 PROVE  (xusb => Rest = 0) /\ (Complete' \/ Queued' \/ Starved')
      BY <1>1, <2>8, <2>9 DEF Last
    <3>1. (xusb => Rest = 0) /\ (Queued \/ Starved)
      BY <1>2, <1>3, <1>7 DEF Honest, Last, Complete
    <3>2. /\ Len(inq) = 1 /\ inq[1].k = "card" /\ host.ph = "datain" /\ inq' = <<>>
          /\ inq[1].units \in Seq(Int)
      BY <1>2, <3>1, TakesData DEF Queued, Starved
    <3>3. PICK u \in Seq(Int) : u = inq[1].units
      BY <3>2
    <3>4. host.left \in Nat /\ Rest \in Nat /\ Len(u) \in Nat
      BY DEF BoundsInv, GadgetTypes, Hosts, Szs, Rest
    <3>5. ASSUME Len(u) <= host.left PROVE got' = got \o u /\ host'.left = host.left - Len(u)
      BY <3>2, <3>3, <3>5, TakesData
    <3>6. CASE Queued
      <4>1. Len(u) + Rest = host.left /\ (Rest > 0 => Len(u) > 0) /\ Run(got \o u, cbw.n, cbw.lba)
        BY <3>3, <3>6 DEF Queued
      <4>2. got' = got \o u /\ host'.left = Rest
        BY <3>4, <3>5, <4>1
      <4>3. host'.ph = IF Rest = 0 THEN "csw" ELSE "datain"
        <5>1. CASE Rest = 0
          <6>1. Len(inq[1].units) = host.left
            BY <3>3, <3>4, <4>1, <5>1
          <6> QED BY <3>2, <5>1, <6>1, TakesData
        <5>2. CASE Rest # 0
          <6>1. 0 < Len(inq[1].units) /\ Len(inq[1].units) < host.left
            BY <3>3, <3>4, <4>1, <5>2
          <6> QED BY <3>2, <5>2, <6>1, TakesData
        <5> QED BY <5>1, <5>2
      <4>4. Run(got', cbw.n, cbw.lba)
        BY <4>1, <4>2
      <4>5. Run(got, cbw.n, cbw.lba)'
        BY <1>1, <4>4 DEF Run
      <4> QED BY <2>9, <3>1, <3>2, <4>2, <4>3, <4>5 DEF Complete
    <3>7. CASE Starved
      <4>1. ~xusb /\ Len(u) > 0 /\ Len(u) + Rest < host.left
        BY <1>2, <3>3, <3>7 DEF Starved
      <4>2. Len(u) <= host.left /\ 0 < Len(u) /\ Len(u) < host.left /\ Rest < host.left - Len(u)
        BY <3>4, <4>1
      <4>3. host'.left = host.left - Len(u) /\ host'.ph = "datain"
        BY <3>2, <3>3, <3>5, <4>2, TakesData
      <4> QED BY <1>1, <2>9, <3>1, <3>2, <4>1, <4>2, <4>3 DEF Starved
    <3> QED BY <3>1, <3>6, <3>7
  <2>16. ASSUME cbw.cur, NEW j \in DOMAIN inq, inq[j].k = "csw", inq[j].cur
         PROVE  /\ Truth(inq[j].status, inq[j].residue)
                /\ inq[j].status = "pass" /\ Vouched =>
                     /\ host.ph = "csw" => Run(got, cbw.n, cbw.lba)
                     /\ host.ph = "datain" /\ j # 1 =>
                          /\ j = 2 /\ inq[1].k # "csw" /\ Len(inq[1].units) = host.left
                          /\ Run(got \o inq[1].units, cbw.n, cbw.lba)
    BY <1>3, <1>7, <2>16 DEF Honest, OnTheWay, StatusAt
  <2>17. OnTheWay'
    <3> SUFFICES ASSUME cbw.cur, Awaits', NEW j \in DOMAIN inq', inq'[j].k = "csw", inq'[j].cur
                 PROVE  /\ Truth(inq[j].status, inq[j].residue)'
                        /\ inq'[j].status = "pass" /\ Vouched =>
                             /\ host'.ph # "dataout"
                             /\ host'.ph = "csw" => Run(got, cbw.n, cbw.lba)'
                             /\ host'.ph # "datain"
      BY <1>1, <2>9 DEF OnTheWay, StatusAt
    <3>1. j \in Nat /\ j > 0 /\ j + 1 \in DOMAIN inq /\ inq'[j] = inq[j + 1]
      BY <1>2
    <3>2. PICK i \in DOMAIN inq : i = j + 1 /\ i # 1 /\ inq'[j] = inq[i]
      BY <3>1
    <3>3. /\ Truth(inq[i].status, inq[i].residue)
          /\ inq[i].status = "pass" /\ Vouched =>
               /\ host.ph = "csw" => Run(got, cbw.n, cbw.lba)
               /\ host.ph = "datain" =>
                    /\ inq[1].k # "csw" /\ Len(inq[1].units) = host.left
                    /\ Run(got \o inq[1].units, cbw.n, cbw.lba)
      BY <2>16, <3>2
    <3>4. Truth(inq[j].status, inq[j].residue)'
      BY <1>1, <1>2, <3>2, <3>3 DEF Truth, WrittenNow
    <3>5. ASSUME inq'[j].status = "pass", Vouched
          PROVE  /\ host'.ph # "dataout" /\ host'.ph # "datain"
                 /\ host'.ph = "csw" => Run(got, cbw.n, cbw.lba)'
      <4>1. inq[i].status = "pass"
        BY <3>2, <3>5
      <4>2. CASE host.ph = "datain"
        <5>1. /\ inq[1].k # "csw" /\ Len(inq[1].units) = host.left
              /\ Run(got \o inq[1].units, cbw.n, cbw.lba)
          BY <3>3, <3>5, <4>1, <4>2
        <5>2. host.left <= host.left
          BY DEF BoundsInv, GadgetTypes, Hosts
        <5>3. got' = got \o inq[1].units /\ host'.ph = "csw"
          BY <4>2, <5>1, <5>2, TakesData
        <5>4. Run(got', cbw.n, cbw.lba)
          BY <5>1, <5>3
        <5> QED BY <1>1, <5>3, <5>4 DEF Run
      <4>3. CASE host.ph # "datain"
        <5>1. host'.ph \in {"idle", "lost"}
          BY <4>3, TakesStatus
        <5> QED BY <5>1
      <4> QED BY <4>2, <4>3
    <3> QED BY <3>4, <3>5
  <2>18. Taken'
    <3>1. CASE host.ph = "datain"
      BY <3>1, TakesData DEF Taken
    <3>2. CASE host.ph # "datain"
      <4> SUFFICES ASSUME Told', cbw.cur, host'.ph = "idle"
                   PROVE  /\ Truth(csw.status, csw.residue)'
                          /\ csw'.status = "pass" /\ Vouched => Run(got, cbw.n, cbw.lba)'
        BY <1>1, <2>9 DEF Taken
      <4>1. /\ inq[1].k = "csw" /\ csw'.status = inq[1].status /\ csw'.residue = inq[1].residue
            /\ csw'.cur = inq[1].cur /\ host.ph = "csw" /\ got' = got
        BY <3>2, TakesStatus
      <4>2. inq[1].cur /\ 1 \in DOMAIN inq
        <5>1. inq \in Seq(Items)
          BY DEF BoundsInv, GadgetTypes
        <5> QED BY <1>2, <4>1, <5>1 DEF Told
      <4>3. /\ Truth(inq[1].status, inq[1].residue)
            /\ inq[1].status = "pass" /\ Vouched => Run(got, cbw.n, cbw.lba)
        BY <2>16, <4>1, <4>2
      <4>4. Truth(csw.status, csw.residue)'
        BY <1>1, <1>2, <4>1, <4>3 DEF Truth, WrittenNow
      <4> QED BY <1>1, <4>1, <4>3, <4>4 DEF Run
    <3> QED BY <3>1, <3>2
  <2> QED BY <2>6, <2>7, <2>10, <2>11, <2>13, <2>14, <2>15, <2>17, <2>18 DEF Honest
<1> QED BY <1>4, <1>6, <1>7 DEF HonestInv

LEMMA NextHonest ==
  BoundsInv /\ BoundsInv' /\ StatusInv /\ StatusInv' /\ HonestInv /\ [UmsNext]_umsVars => HonestInv'
<1> SUFFICES ASSUME BoundsInv, BoundsInv', StatusInv, StatusInv', HonestInv, [UmsNext]_umsVars
             PROVE HonestInv'
  OBVIOUS
<1>1. CASE Start \/ Buttons \/ HandleException \/ AskForCommand \/ StaleCommand
  BY <1>1, StartHonest, ExceptionHonest, AskHonest, StaleHonest
<1>2. CASE JunkCommand \/ \E st \in {"timeout", "error", "disabled"} : NoCommand(st)
  BY <1>2, JunkHonest, NoCommandHonest
<1>3. CASE \E c \in Commands : GetNextCommand(c)
  BY <1>3, GetNextHonest
<1>4. CASE \E ok \in BOOLEAN : Parse(ok) \/ ReadChunk(ok) \/ WriteChunk(ok)
  BY <1>4, ParseHonest, ReadHonest, WriteHonest
<1>5. CASE FinishIn \/ PadMore \/ FinishOut \/ LastSent \/ StatusSent \/ XusbEp0 \/ Usb2Ep0InFinish
  BY <1>5, FinishInHonest, PadMoreHonest, FinishOutHonest, LastSentHonest, StatusSentHonest, Ep0WaitHonest
<1>6. CASE HostTakes \/ HostResets \/ HostLeaves
  BY <1>6, HostTakesHonest, HostGoesHonest
<1>7. CASE UNCHANGED umsVars
  <2>1. UNCHANGED <<xusb, ro, pc, state, cbw, sz, lun, out, io, ibuf, inq, txc, host, plug,
                    wrote, got, csw>>
    BY <1>7 DEF umsVars
  <2>2. InScope' => InScope
    BY <2>1 DEF InScope
  <2>3. InEmpty' = InEmpty /\ AtParse' = AtParse /\ Reading' = Reading
    BY <2>1 DEF InEmpty, AtParse, Reading, StatusAt, Awaits, Run, Moved
  <2>4. Moving' = Moving /\ Pending' = Pending
    BY <2>1 DEF Moving, Pending, WrittenNow, Moved, PassNow
  <2>5. Finishing' = Finishing /\ Last' = Last
    BY <2>1 DEF Finishing, Last, PassNow, Awaits, Run, Vouched, OneBuffer, Rest, Complete, Queued,
                Starved
  <2>6. OnTheWay /\ Taken => OnTheWay' /\ Taken'
    BY <2>1, SameWay
  <2> QED BY <2>1, <2>2, <2>3, <2>4, <2>5, <2>6 DEF HonestInv, Honest
<1> QED BY <1>1, <1>2, <1>3, <1>4, <1>5, <1>6, <1>7 DEF UmsNext, Gadget

LEMMA HonestSays == BoundsInv /\ StatusInv /\ HonestInv => CswHonest
<1> SUFFICES ASSUME BoundsInv, StatusInv, HonestInv, Answered, xusb \/ ~host.short,
                    ~xusb \/ (host.resets = 0 /\ (cbw.op = "read" => OneBuffer))
             PROVE  /\ cbw.op = "write" /\ ~ro =>
                         wrote = {<<cbw.lba + i, HOST>> : i \in 0..Claimed - 1}
                    /\ cbw.op = "read" /\ csw.status = "pass" =>
                         SubSeq(got, 1, Claimed) = Sectors(Claimed)
                    /\ cbw.op \in {"read", "write"} /\ csw.status = "pass" /\ ~host.short =>
                         Claimed = cbw.n
  BY DEF CswHonest, CswHonestAlways
<1>1. csw.status # "none" /\ csw.cur /\ cbw.cur /\ host.ph = "idle"
  BY DEF Answered, HonestInv
<1>2. InScope
  BY <1>1 DEF StatusInv, Current, InScope
<1>3. /\ Truth(csw.status, csw.residue)
      /\ csw.status = "pass" /\ cbw.op = "read" => Run(got, cbw.n, cbw.lba)
  BY <1>1, <1>2 DEF HonestInv, Honest, Taken, Told, Vouched
<1>4. cbw.op = "write" /\ ~ro => wrote = {<<cbw.lba + i, HOST>> : i \in 0..Claimed - 1}
  BY <1>3 DEF Truth, WrittenNow, Written, Claimed
<1>5. cbw.op \in {"read", "write"} /\ csw.status = "pass" /\ ~host.short => Claimed = cbw.n
  BY <1>3 DEF Truth, Claimed
<1>6. ASSUME cbw.op = "read", csw.status = "pass" PROVE SubSeq(got, 1, Claimed) = Sectors(Claimed)
  <2>1. Claimed = cbw.n /\ Run(got, cbw.n, cbw.lba)
    BY <1>3, <1>6 DEF Truth, Claimed
  <2>2. PICK n \in Nat : n = Claimed
    BY <2>1 DEF BoundsInv, GadgetTypes, Cbws
  <2>3. got \in Seq(Int) /\ n <= Len(got) /\ \A i \in 1 .. n : got[i] = cbw.lba + i - 1
    BY <2>1, <2>2 DEF Run, HonestInv
  <2>4. SubSeq(got, 1, n) = [i \in 1 .. n |-> got[i]]
    <3>1. SubSeq(got, 1, n) = [i \in 1 .. (n - 1 + 1) |-> got[1 + i - 1]]
      BY <2>3
    <3>2. n - 1 + 1 = n /\ \A i \in 1 .. n : 1 + i - 1 = i
      OBVIOUS
    <3> QED BY <3>1, <3>2
  <2>5. [i \in 1 .. n |-> got[i]] = [i \in 1 .. n |-> cbw.lba + i - 1]
    BY <2>3
  <2> QED BY <2>2, <2>4, <2>5 DEF Sectors
<1> QED BY <1>4, <1>5, <1>6

\* On either controller, for any disk, transfer sizes, commands and number of resets, through
\* failing reads and writes, short packets, timeouts and late answers: a status the host takes
\* claims what _scsi_read and _scsi_write did.  A write put exactly the claimed sectors on
\* the medium, a read that passed delivered exactly the claimed sectors, and a pass leaves
\* nothing out (_send_status; on XUSB as long as the host has not reset and for
\* reads whose padding fits one transfer, on USB2 unless the host stopped early, which that
\* driver cannot see).
THEOREM CswAlwaysHonest == UmsSpec => []CswHonest
<1>1. UmsSpec => []StatusInv
  BY InitStatus, NextStatus, BoundsHold, PTL DEF UmsSpec
<1>2. UmsSpec => []HonestInv
  BY InitHonest, NextHonest, BoundsHold, <1>1, PTL DEF UmsSpec
<1> QED BY <1>1, <1>2, BoundsHold, HonestSays, PTL
=============================================================================
