SPECIFICATION FairSpec
CONSTANTS
  Frequency <- MCFrequency
  Bandwidth <- MCBandwidth
  SampleRate = 4
  Shift = 1
  Horizon = 3
  Lists <- MCLists
  MaxAsked = 2
INVARIANTS
  NothingDueDropped
  RecordsWhatIsOnAir
  OneLateQuery
PROPERTIES
  ServingEnds
  AsksForEver
