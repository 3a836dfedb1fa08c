\* Two good configurations and one that no Application can be constructed with.
CONSTANTS
  Configs = {a, b, bad}
  Valid = {a, b}
  None = None
  Part = Part
  MaxStarts = 2
SPECIFICATION FairSpec
INVARIANTS RunsWhatWasAsked FileIsWhole
PROPERTIES Settles SignalEnds
CHECK_DEADLOCK FALSE
