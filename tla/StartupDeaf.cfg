\* One device with two bands that share a centre, a single frequency, and a range above
\* 1.07 GHz.
SPECIFICATION Spec
CONSTANTS
  s1 = s1
  s2 = s2
  g = g
  MaxFrequency = 21474
  Megahertz = 10
  MaxStep = 4
  Serials = {s1, s2}
  NoSerial = NoSerial
  NoDriver = NoDriver
  Enumerations <- MCEnumerations
  RateLists <- MCRateLists
  GainNames = {g}
  MaxGain = 50
  GainValues = {20}
  Setups <- DeafSetups
  Defaults <- MCDefaults
  LastRange <- MCLastRange
  MaxReloads = 1
INVARIANTS
  EveryFrequencyIsHeard
CHECK_DEADLOCK FALSE
