--------------------------- MODULE MCEmmcRestore ---------------------------
(* The restore tool for TLC: a GPP of seven units, so that its last chunk  *)
(* is a short one, and part files of every shape the tool tells apart.     *)
EXTENDS EmmcRestore, TLC

MCRoom == [BOOT0 |-> 2, BOOT1 |-> 2, SYSTEM |-> 3, USER |-> 4, RAW |-> 7]
MCLba == [BOOT0 |-> 0, BOOT1 |-> 0, SYSTEM |-> 0, USER |-> 3, RAW |-> 0]

OneFile(n) == [single |-> n, parts |-> <<>>]
SplitFile(s) == [single |-> NoFile, parts |-> s]

RawBackups ==
    {OneFile(n) : n \in {0, 5, 7, 8}} \cup
    {SplitFile(s) : s \in {<<4, 3>>, <<2, 2, 3>>, <<4>>, <<3, 4>>, <<2, 3, 2>>, <<6, 1>>, <<4, 4>>}}

AllSmall == [BOOT0 |-> OneFile(2), BOOT1 |-> OneFile(2), SYSTEM |-> OneFile(3), USER |-> OneFile(4)]
NoSmall == [t \in {"BOOT0", "BOOT1", "SYSTEM", "USER"} |-> OneFile(0)]
Odd == [BOOT0 |-> OneFile(1), BOOT1 |-> OneFile(0), SYSTEM |-> OneFile(0), USER |-> OneFile(5)]

Card(small, r, t) == [files |-> small @@ ("RAW" :> r), mbr |-> t]

MbrEntry(start, size, type) == [start |-> start, size |-> size, type |-> type]
NoEntry == MbrEntry(0, 0, "none")

\* An emuMMC partition with room for all behind a Linux one; one just large
\* enough for the check behind a partition for files.
Roomy == <<MbrEntry(1, 20, "linux"), MbrEntry(21, 19, "emummc"), NoEntry>>
Tight == <<MbrEntry(1, 12, "fat"), MbrEntry(13, 15, "emummc"), NoEntry>>

MCSdCards ==
    {Card(NoSmall, r, <<NoEntry, NoEntry, NoEntry>>) : r \in RawBackups} \cup
    {Card(AllSmall, SplitFile(<<4, 3>>), Roomy), Card(Odd, SplitFile(<<4>>), Tight)}
=============================================================================
