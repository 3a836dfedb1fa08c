SPECIFICATION Spec
CONSTANTS
  c1 = c1
  c2 = c2
  c3 = c3
  f1 = f1
  f2 = f2
  f3 = f3
  f4 = f4
  NoFrequency = NoFrequency
  NoSchedule = NoSchedule
  NoValue = NoValue
  RecorderIds = {r1, r2, r3}
  Frequency <- MCFrequency
  Ranges <- OneBand
  RecordersCount = 2
  Detections <- OneBandDetections
  Schedules <- AllSchedules
  MaxInFlight = 1
INVARIANTS
  ScheduledRecordersOnAir
