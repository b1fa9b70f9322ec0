---------------------------- MODULE MCBootEntry ----------------------------
(* Instances of BootEntry for TLC. *)
EXTENDS BootEntry

Section(k, i, f, p) == [kind |-> k, id |-> i, force |-> f, emupath |-> p]

MCMain == << Section("payload", NoName, FALSE, NoName), Section("config", NoName, FALSE, NoName),
             Section("hos", "CFW", FALSE, NoName), Section("hos", "STOCK", TRUE, NoName),
             Section("hos", NoName, FALSE, "RAW1"), Section("l4t", "L4T", FALSE, NoName),
             Section("hos", "BAD", FALSE, "NONE") >>

MCList == << Section("hos", "LST", FALSE, "SD00"), Section("hos", "ZERO", FALSE, "RAW0"),
             Section("hos", NoName, TRUE, NoName) >>

Ids == {NoName, "CFW", "LST", "GONE"}

MCBootCfgs ==
    {b \in [autoboot_en : BOOLEAN, from_launch : BOOLEAN, from_id : BOOLEAN,
            to_emummc : BOOLEAN, autoboot : {0, 3}, list : BOOLEAN, id : Ids,
            path : {NoName, "RAW1", "NONE"}] :
       /\ ~b.from_id => b.id = NoName
       /\ ~b.to_emummc => b.path = NoName
       /\ ~b.autoboot_en => b.autoboot = 0 /\ ~b.list}

MCConfigs == [autoboot : {0, 4}, list : BOOLEAN]

MCRaw == {"RAW1"}
MCFileBased == {"SD00", "EMU"}
MCBadRaw == {"RAW0"}

=============================================================================
