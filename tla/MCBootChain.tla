---------------------------- MODULE MCBootChain ----------------------------
(* Instances of BootChain for TLC. *)
EXTENDS BootChain

\* Injected between an older, a newer and an oversized update.bin.
MCVersions == 1 .. 4
MCTooBig == {4}

\* All images are bundled with the same Lockpick.
MCSameTag(v) == "v1"

\* The newer release came with a newer Lockpick.
MCNewTag(v) == IF v >= 3 THEN "v2" ELSE "v1"

=============================================================================
