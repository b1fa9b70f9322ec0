-------------------------- MODULE MCSdRepartition --------------------------
EXTENDS SdRepartition

CardFile(at, size) == [at |-> at, size |-> size]

\* Up to three files in any order of their directories.
MCContents ==
    {c \in UNION {[1 .. n -> {CardFile("other", 0), CardFile("other", 3),
                       CardFile("bootloader", 2), CardFile("bootloader", 5),
                       CardFile("payload.bin", 1)}] : n \in 0 .. 3} :
        \A m, n \in DOMAIN c : c[m].at = "payload.bin" /\ c[n].at = "payload.bin" => m = n}
=============================================================================
