\* Frequencies in units of 100 kHz, up to 2^31 - 1 Hz.
SPECIFICATION Spec
CONSTANTS
  s1 = s1
  s2 = s2
  g = g
  MaxFrequency = 21474
  Megahertz = 10
  MaxStep = 4
  Serials = {s1, s2}
  NoSerial = NoSerial
  NoDriver = NoDriver
  Enumerations <- MCEnumerations
  RateLists <- MCRateLists
  GainNames = {g}
  MaxGain = 50
  GainValues = {20}
  Setups <- MCSetups
  Defaults <- MCDefaults
  LastRange <- MCLastRange
  MaxReloads = 1
INVARIANTS
  SerialsOnce
  SettingsSurvive
  ConnectedIsCurrent
  LocalFirst
  ConfiguredIsHeard
CHECK_DEADLOCK FALSE
