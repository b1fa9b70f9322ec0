--------------------------- MODULE MCEmummcTools ---------------------------
(* The emuMMC tools for TLC: two folders of each kind, so that they run     *)
(* out; partitions of every size the tool tells apart.                      *)
EXTENDS EmummcTools, TLC

TableEntry(start, size, type) == [start |-> start, size |-> size, type |-> type]

MCTables ==
    { <<TableEntry(1, 9, "fat"), TableEntry(10, 12, "linux"), TableEntry(22, 13, "fat")>>,
      <<TableEntry(1, 12, "fat"), TableEntry(13, 4, "fat"), TableEntry(0, 0, "none")>> }

FileFolder == [file |-> TRUE, raw |-> 0, img |-> [p \in PieceSet |-> "whole"]]

MCFolders0 == { <<>>, SdFolder(0) :> FileFolder, (SdFolder(0) :> FileFolder) @@ (SdFolder(1) :> FileFolder) }

MCSaved == { {}, PieceSet, {"BOOT0", "GPP"} }
=============================================================================
