\* Three spectra an average, rows of up to three, four samples.
SPECIFICATION OneBlockSpec
CONSTANTS
  v = v
  w = w
  Bin = {1, 2}
  Frames <- MCFrames
  Silence = Silence
  Lowest = Lowest
  Broken = Broken
  NoData <- MCNoData
  LearningTime = 2
  GroupingY = 3
  OutputSize = 1
  DecimatorFactor = 2
  Powers <- MCPowers
  Zero = Zero
  NoNumber = NoNumber
  Undefined = Undefined
  SendInterval = 1
  MaxPending = 3
  Samples = {v, w}
  Blocks <- MCBlocks
  MaxReceived = 4
  MaxTime = 2
INVARIANTS
  AverageIsOverNoise
  RowsAreMeans
PROPERTIES
  ActsAsSampleStream
CHECK_DEADLOCK FALSE
