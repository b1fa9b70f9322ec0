SPECIFICATION FlashFairSpec
CONSTANTS
  L4tImages <- MCL4tImages
  FlashTargets <- MCTargets
  AndroidImages <- MCAndroidImages
  FlashDevice = 12
  MinL4t = 4
  FlashWrap = 4
PROPERTY FlashEnds
CHECK_DEADLOCK FALSE
