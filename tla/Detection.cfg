\* Four bins, the last one is strong only where it is usable; two spectra average.
CONSTANTS
  ItemSize = 4
  GroupSize = 2
  GroupingX = 1
  GroupingY = 2
  Spectra <- MCSpectra
  Usable <- MCUsable
  StartLevel = 2
  StopLevel = 1
  MinTime = 1
  Timeout = 1
  MaxTime = 2
  NoValue = NoValue
SPECIFICATION FairSpec
INVARIANTS SignalsAreIndexed NewSignalsAreNew StrongIsListed
PROPERTIES SilenceEndsRecorders
CHECK_DEADLOCK FALSE
