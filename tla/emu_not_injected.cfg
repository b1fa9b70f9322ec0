SPECIFICATION LaunchSpec
CONSTANTS
  Units <- MCUnits
  Installs <- MCInstalls
  Entries <- MCEntries
  KipLists <- MCKipLists
  MaxPatches = 32
  MaxLaunches = 1
  MaxTroubles = 0
INVARIANT EmuIsInjected
CHECK_DEADLOCK FALSE
