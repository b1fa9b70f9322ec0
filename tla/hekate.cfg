SPECIFICATION MCSpec
CONSTANTS
  Kinds = {"sd", "emmc"}
  Cards = {a, b}
  Chip = e
  NumSectors = 3
  AMax = 2
  IoRetries = 5
  ReinitTries = 3
  FlakyHosts = {TRUE, FALSE}
  CardFaults = TRUE
  Caps <- MCCaps
  NumIter = 12
  MinWindow = 3
  Defrag = TRUE
  Unit = 2
  MinSplit = 2
  Requests = {0, 3, 6}
  Limit = 8
  Versions <- MCVersions
  Injected = 2
  Tag <- MCSameTag
  LockpickTag = "v1"
  TooBig <- MCTooBig
  FileFaults = TRUE
  MaxEvents = 3
  Main <- MCMain
  IniList <- MCList
  BootCfgs <- MCBootCfgs
  Configs <- MCConfigs
  Raw <- MCRaw
  FileBased <- MCFileBased
  BadRaw <- MCBadRaw
  EmuIni = "EMU"
  Units <- MCUnits
  Installs <- MCInstalls
  Entries <- MCEntries
  KipLists <- MCKipLists
  MaxPatches = 4
  MaxLaunches = 3
  MaxTroubles = 1
INVARIANTS FrontSound TransferNotSplit
INVARIANTS BringUpSound LowerModeIsSlower TapIsStable ScanInvariant
INVARIANTS HeapInv
INVARIANTS DumpsBounded FlagConsumed InjectedCarriesOver LaunchIsOwn
INVARIANTS KeysAsFresh BadKeysOnce BootedAsAsked
PROPERTIES CallsEnd ImplementsAbstract BootSettles
CHECK_DEADLOCK FALSE
