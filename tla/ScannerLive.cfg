SPECIFICATION FairSpec
CONSTANTS
  c1 = c1
  c2 = c2
  c3 = c3
  f1 = f1
  f2 = f2
  f3 = f3
  f4 = f4
  NoFrequency = NoFrequency
  NoSchedule = NoSchedule
  NoValue = NoValue
  RecorderIds = {r1, r2, r3}
  Frequency <- MCFrequency
  Ranges <- TwoBands
  RecordersCount = 1
  Detections <- HalfQuietDetections
  Schedules <- OneSchedule
  MaxInFlight = 1
PROPERTIES
  QuietBandsAreVisited
  ScheduleIsServed
  StopEnds
