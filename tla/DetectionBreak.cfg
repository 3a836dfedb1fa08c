\* The same band without the burst: a transmission that lasts.
CONSTANTS
  ItemSize = 4
  GroupSize = 2
  GroupingX = 1
  GroupingY = 1
  Spectra <- FewSpectra
  Usable <- MCUsable
  StartLevel = 2
  StopLevel = 1
  MinTime = 1
  Timeout = 1
  MaxTime = 2
  NoValue = NoValue
SPECIFICATION FairSpec
INVARIANTS LongTransmissionsAreBroken
CHECK_DEADLOCK FALSE
