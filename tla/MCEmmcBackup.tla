---------------------------- MODULE MCEmmcBackup ----------------------------
(* The backup tool on a small eMMC: a chunk stands for many. *)
EXTENDS EmmcBackup

MCSize == [BOOT0 |-> 1, BOOT1 |-> 1, SAFE |-> 1, SYSTEM |-> 3, USER |-> 4,
           RAW |-> 5, EMUBOOT0 |-> 1, EMUBOOT1 |-> 1, EMURAW |-> 4]
MCFirst == [BOOT0 |-> 0, BOOT1 |-> 0, SAFE |-> 0, SYSTEM |-> 1, USER |-> 4,
            RAW |-> 0, EMUBOOT0 |-> 0, EMUBOOT1 |-> 1, EMURAW |-> 2]
=============================================================================
