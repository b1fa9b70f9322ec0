------------------------------- MODULE MCUsb -------------------------------
(* The mass storage gadget on a disk of three sectors: one sector per IN    *)
(* chunk, two per endpoint buffer and per OUT transfer, so that reads and   *)
(* writes take several rounds, cross the end of the disk, and are padded or *)
(* leave excess data in one buffer and in more.                             *)
EXTENDS UsbUms

C(op, lba, n, h, dir) ==
    [op |-> op, lba |-> lba, n |-> n, h |-> h, odd |-> FALSE, dir |-> dir]
Odd(c) == [c EXCEPT !.odd = TRUE]

\* Read-only sessions differ in _scsi_write only: one controller is enough.
MCSessions == [xusb : BOOLEAN, ro : {FALSE}] \cup [xusb : {FALSE}, ro : {TRUE}]

\* Reads and writes of the length the command says, past the end of the disk,
\* with more or less data than it says, and with a partial block.
MCCommands ==
    { C("read", 0, 2, 2, "in"), C("read", 2, 2, 2, "in"), C("read", 1, 1, 2, "in"),
      C("read", 1, 1, 4, "in"), Odd(C("read", 0, 2, 2, "in")), C("write", 0, 3, 3, "out"),
      C("write", 0, 1, 4, "out"), C("write", 2, 2, 2, "out"), C("write", 0, 2, 1, "out"),
      Odd(C("write", 0, 2, 2, "out")),
      C("sense", 0, 0, 1, "in"), C("capacity", 0, 0, 1, "in"), C("verify", 0, 1, 0, "in"),
      C("prevent", 0, 0, 0, "in"), C("eject", 0, 0, 0, "in") }

\* Enough for the ring of XUSB to hold what a reset should have cleared.
MCXusb == [xusb : {TRUE}, ro : {FALSE}]
MCReads == {C("read", 0, 2, 2, "in"), C("read", 1, 2, 2, "in")}
=============================================================================
