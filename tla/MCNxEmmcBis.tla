---------------------------- MODULE MCNxEmmcBis ----------------------------
(* Instances of NxEmmcBis for TLC.                                         *)
EXTENDS NxEmmcBis

MCParts == {"USER"}
MCEmmc == {"emmc"}
MCCached == {TRUE}
MCDirect == {FALSE}
\* The callers that use the cache (USER) and those that do not (PRODINFO) run
\* one at a time; a behaviour has the sessions of one kind.
MCNext == Next /\ cache'.enabled = cache.enabled
MCSpec == Init /\ [][MCNext]_vars

MCValues == {"blank", "new"}

============================================================================
