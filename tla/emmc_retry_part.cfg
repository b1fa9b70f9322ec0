SPECIFICATION FrontSpec
CONSTANTS
  Kinds = {"emmc"}
  Cards = {}
  Chip = e
  NumSectors = 2
  AMax = 1
  IoRetries = 5
  ReinitTries = 3
  FlakyHosts = {FALSE}
  CardFaults = TRUE
INVARIANT RetryOnSelectedPartition
