SPECIFICATION RepartSpec
CONSTANTS
  Contents <- MCContents
  RamClusters = 6
  RamLimit = 11
INVARIANT FilesKept
CHECK_DEADLOCK FALSE
