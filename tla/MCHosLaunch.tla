---------------------------- MODULE MCHosLaunch ----------------------------
(* Launching HOS: consoles, firmwares and entries for TLC. *)
EXTENDS HosLaunch

Erista(burnt, sbk, nogc) == [t210b01 |-> FALSE, burnt |-> burnt, sbk |-> sbk, autonogc |-> nogc]
Mariko(burnt, nogc) == [t210b01 |-> TRUE, burnt |-> burnt, sbk |-> TRUE, autonogc |-> nogc]

MCUnits ==
    {Erista(4, TRUE, TRUE), Erista(10, FALSE, TRUE), Erista(11, TRUE, FALSE),
     Mariko(13, TRUE), Mariko(14, TRUE), Mariko(15, FALSE)}

On(s, e) == [sys |-> s, emu |-> e]

MCInstalls ==
    {On(<<2, 4>>, <<3, 5>>), On(<<3, 5>>, <<8, 10>>), On(<<4, 6>>, <<10, 14>>),
     On(<<5, 7>>, <<6, 8>>), On(<<7, 9>>, <<22, 24>>), On(<<12, 15>>, <<7, 9>>)}

Plain == [stock |-> FALSE, exo |-> FALSE, warmboot |-> FALSE, emu |-> FALSE,
          disable |-> FALSE, forced |-> FALSE, patches |-> <<>>]
Ams == [Plain EXCEPT !.exo = TRUE, !.warmboot = TRUE]

MCEntries ==
    {Plain, Ams, [Plain EXCEPT !.stock = TRUE],
     [Ams EXCEPT !.emu = TRUE, !.patches = <<"user">>],
     [Ams EXCEPT !.emu = TRUE, !.forced = TRUE],
     [Ams EXCEPT !.emu = TRUE, !.disable = TRUE, !.patches = <<"nogc", "user">>],
     [Ams EXCEPT !.forced = TRUE],
     [Plain EXCEPT !.emu = TRUE, !.patches = <<"user", "other">>]}

Patchset(p, ext, match) == [patch |-> p, ext |-> ext, match |-> match]
Kip(n, known, z, inj, sets) ==
    [name |-> n, known |-> known, decompresses |-> z, injects |-> inj, sets |-> sets]

MCKipLists ==
    LET FS(known, z, inj, gc) ==
            Kip("FS", known, z, inj, <<Patchset("nogc", FALSE, gc), Patchset("user", TRUE, TRUE)>>)
        Ldr(match) == Kip("Loader", TRUE, TRUE, TRUE, <<Patchset("user", TRUE, match), Patchset("other", TRUE, TRUE)>>)
    IN  {<<FS(known, z, inj, gc), Ldr(match)>> : known, z, inj, gc, match \in BOOLEAN}
        \cup {<<Ldr(FALSE), FS(TRUE, TRUE, TRUE, TRUE)>>}
=============================================================================
