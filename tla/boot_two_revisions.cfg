SPECIFICATION ChainSpec
CONSTANTS
  Versions <- MCVersions
  Injected = 2
  Tag <- MCNewTag
  LockpickTag = "v2"
  TooBig <- MCTooBig
  FileFaults = FALSE
  MaxEvents = 2
CHECK_DEADLOCK FALSE
INVARIANTS DumpsBounded
