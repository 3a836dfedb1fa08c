------------------------------- MODULE Startup -------------------------------
(***************************************************************************)
(* How an Application gets its scanners: it reads a configuration, updates *)
(* its devices with the radios that are attached (file_config.cpp,         *)
(* radio/sdr_device_reader.cpp), and constructs a scanner for each enabled *)
(* device (application.cpp); then again with the configuration the hub     *)
(* sends back.  What SoapySDR answers, and when it throws, is free.        *)
(*                                                                         *)
(* A device has its setup (sample rate and ranges), and its gains by name; *)
(* what a driver says of a gain's limits is left out.                      *)
(***************************************************************************)
EXTENDS RadioUtils, FiniteSets, Functions

CONSTANTS
  Serials,
  NoSerial,     \* in place of the serial a result does not have
  NoDriver,     \* the empty driver of a device that was not found
  Enumerations, \* what SoapySDR::Device::enumerate may return
  RateLists,    \* the sample rates a radio may list, sorted
  GainNames,
  MaxGain,      \* the value of a gain nobody set
  GainValues,   \* the values the hub sets
  Setups,       \* the setups the hub sends
  Defaults,     \* createDevice's setups, the first a new radio can run
  LastRange,    \* the range of its last, with the radio's highest rate
  MaxReloads    \* bound: how often the configuration is reloaded

Driver == {"local", "remote"}

Radio == [serial : Serials \cup {NoSerial}, driver : Driver]

Gains == UNION {[G -> GainValues \cup {MaxGain}] : G \in SUBSET GainNames}

Device == [serial : Serials, enabled : BOOLEAN, connected : BOOLEAN,
           driver : Driver \cup {NoDriver}, gains : Gains, setup : Setup]

ASSUME StartupAssumption ==
  /\ NoSerial \notin Serials
  /\ NoDriver \notin Driver
  /\ Enumerations \subseteq Seq(Radio)
  /\ RateLists \subseteq Seq(1..MaxFrequency)
  /\ Setups \subseteq Setup
  /\ Defaults \in Seq(Setup)
  /\ LastRange \in FrequencyRange

VARIABLES
  pc,        \* where the constructor of Application is, "run" after it
  devices,   \* m_fileConfig.devices
  at,        \* the result updateDevices looks at
  scanners,  \* m_scanners: the setups of those constructed, by device
  temporary, \* history: was the configuration one that is not saved
  read,      \* history: the devices as they were read
  found,     \* the results of the enumeration
  opened,    \* history: the serials of the radios that could be opened
  unlisted,  \* history: the gains a radio's driver did not list when it was asked
  reloads    \* history: how often the configuration was reloaded

vars == <<pc, devices, at, scanners, temporary, read, found, opened, unlisted, reloads>>

TypeOK ==
  /\ pc \in {"enumerate", "update", "construct", "run", "crashed"}
  /\ devices \in Seq(Device)
  /\ at \in Nat \ {0}
  /\ \A k \in DOMAIN scanners : scanners[k] \in Setup
  /\ temporary \in BOOLEAN
  /\ read \in Seq(Device)
  /\ found \in Seq(Radio)
  /\ opened \subseteq Serials
  /\ unlisted \subseteq Serials \X GainNames
  /\ reloads \in Nat

-----------------------------------------------------------------------------
(* the configuration *)

\* ConfigMigrator::sort leaves open which of two ranges with one start is the first.
Sortings(ranges) ==
  LET I == 1..Len(ranges)
  IN {[k \in I |-> ranges[p[k]]] :
        p \in {p \in Bijection(I, I) :
                 \A j, k \in I : j < k => ranges[p[j]].start <= ranges[p[k]].start}}

\* Fault: a device stays connected in the file.
SavedConnected(d) ==
  {[d EXCEPT !.driver = NoDriver, !.setup.ranges = ranges] : ranges \in Sortings(d.setup.ranges)}

\* toSave: what an enumeration found out is left out, the ranges are sorted.
Saved(d) ==
  {[d EXCEPT !.driver = NoDriver, !.connected = FALSE, !.setup.ranges = ranges] :
     ranges \in Sortings(d.setup.ranges)}

SavedLists(list) ==
  {l \in [1..Len(list) -> UNION {Saved(list[k]) : k \in 1..Len(list)}] :
     \A k \in 1..Len(list) : l[k] \in Saved(list[k])}

\* The first configuration has no devices: FileConfig().
Init ==
  /\ pc = "enumerate"
  /\ devices = <<>>
  /\ at = 1
  /\ scanners = <<>>
  /\ temporary = FALSE
  /\ read = <<>>
  /\ found = <<>>
  /\ opened = {}
  /\ unlisted = {}
  /\ reloads = 0

EditedDevice(d, enabled, setup, value) ==
  [d EXCEPT !.enabled = enabled, !.setup = setup, !.gains = [gain \in DOMAIN d.gains |-> value]]

\* The devices the hub was told of, one of them changed by its user.
Edited ==
  {[devices EXCEPT ![k] = EditedDevice(devices[k], enabled, setup, value)] :
     k \in 1..Len(devices), enabled \in BOOLEAN, setup \in Setups, value \in GainValues}

\* A reload, with a configuration that is only tried or with one that was saved.
Reload ==
  /\ pc = "run"
  /\ reloads < MaxReloads
  /\ reloads' = reloads + 1
  /\ \E list \in Edited \cup {devices} :
       \/ devices' = list /\ temporary' = TRUE
       \/ devices' \in SavedLists(list) /\ temporary' = FALSE
  /\ read' = devices'
  /\ pc' = "enumerate"
  /\ scanners' = <<>>
  /\ opened' = {}
  /\ unlisted' = {}
  /\ UNCHANGED <<at, found>>

-----------------------------------------------------------------------------
(* SdrDeviceReader *)

\* Fault: nothing is erased.
KeptAll(results) == 1..Len(results)

\* A radio with a serial that is found more than once is not used remotely; a
\* result without a serial throws, and nothing is erased.
Kept(results) ==
  LET I == 1..Len(results)
      twice(i) == \E j \in I \ {i} : results[j].serial = results[i].serial
  IN IF \E i \in I : results[i].serial = NoSerial
       THEN I
       ELSE {i \in I : ~(twice(i) /\ results[i].driver = "remote")}

Enumerate ==
  /\ pc = "enumerate"
  /\ found' \in Enumerations
  /\ at' = 1
  /\ pc' = "update"
  /\ UNCHANGED <<devices, scanners, temporary, read, opened, unlisted, reloads>>

\* enumerate() is called outside of the try, and main() ends with what it throws.
EnumerateThrows ==
  /\ pc = "enumerate"
  /\ pc' = "crashed"
  /\ UNCHANGED <<devices, at, scanners, temporary, read, found, opened, unlisted, reloads>>

\* Fault: a device is looked up by its driver too, which the file does not have.
FindByName(r) == {k \in 1..Len(devices) : devices[k].serial = r.serial /\ devices[k].driver = r.driver}

Find(r) == {k \in 1..Len(devices) : devices[k].serial = r.serial}

NextResult ==
  /\ pc = "update"
  /\ at <= Len(found)
  /\ at' = at + 1
  /\ UNCHANGED <<scanners, temporary, read, found, reloads>>

Result == found[at]

\* Erased; or no serial, or make() fails; or a radio that is not configured throws.
ResultSkipped ==
  /\ NextResult
  /\ UNCHANGED <<pc, devices, opened, unlisted>>

\* Fault: every gain gets what the driver lists.
ListedGainsOnly(gains, G) == [g \in G |-> MaxGain]

\* Gains of the names the driver lists, with the values they had.
ListedGains(gains, G) == [g \in G |-> IF g \in DOMAIN gains THEN gains[g] ELSE MaxGain]

FoundDevice(d, driver, gains) ==
  [d EXCEPT !.connected = TRUE, !.driver = driver, !.gains = gains]

UpdateDevice ==
  /\ NextResult
  /\ at \in Kept(found)
  /\ \E k \in Find(Result), G \in SUBSET GainNames :
       /\ devices' = [devices EXCEPT
            ![k] = FoundDevice(devices[k], Result.driver, ListedGains(devices[k].gains, G))]
       /\ unlisted' = unlisted \cup {Result.serial} \X (GainNames \ G)
  /\ opened' = opened \cup {Result.serial}
  /\ UNCHANGED pc

\* The driver throws at the sample rates or at the gains, which stay.
UpdateDeviceFails ==
  /\ NextResult
  /\ at \in Kept(found)
  /\ \E k \in Find(Result) :
       devices' = [devices EXCEPT ![k] = FoundDevice(devices[k], Result.driver, devices[k].gains)]
  /\ opened' = opened \cup {Result.serial}
  /\ UNCHANGED <<pc, unlisted>>

\* The first of the defaults whose rate the radio has, else its highest rate.
FirstSetups(rates) ==
  LET fits == {i \in 1..Len(Defaults) : \E j \in 1..Len(rates) : rates[j] = Defaults[i].rate}
  IN IF fits = {} THEN {[rate |-> rates[Len(rates)], ranges |-> <<LastRange>>]}
                  ELSE {Defaults[i] : i \in {i \in fits : \A j \in fits : i <= j}}

CreateDevice ==
  /\ NextResult
  /\ at \in Kept(found)
  /\ Result.serial # NoSerial /\ Find(Result) = {}
  /\ \E rates \in RateLists \ {<<>>}, G \in SUBSET GainNames : \E setup \in FirstSetups(rates) :
       devices' = Append(devices,
         [serial |-> Result.serial, enabled |-> TRUE, connected |-> TRUE,
          driver |-> Result.driver, gains |-> ListedGains(<<>>, G),
          setup |-> setup])
  /\ opened' = opened \cup {Result.serial}
  /\ UNCHANGED <<pc, unlisted>>

\* The last of no sample rates is read.
CreateUndefined ==
  /\ NextResult
  /\ at \in Kept(found)
  /\ Result.serial # NoSerial /\ Find(Result) = {}
  /\ <<>> \in RateLists
  /\ pc' = "crashed"
  /\ UNCHANGED <<devices, opened, unlisted>>

-----------------------------------------------------------------------------
(* the constructor of Application *)

Updated ==
  /\ pc = "update"
  /\ at > Len(found)
  /\ pc' = "construct"
  /\ UNCHANGED <<devices, at, scanners, temporary, read, found, opened, unlisted, reloads>>

\* A scanner for each enabled device whose radio can be opened now.
Construct ==
  /\ pc = "construct"
  /\ \E K \in SUBSET {k \in 1..Len(devices) : devices[k].enabled} :
       scanners' = [k \in K |-> devices[k].setup]
  /\ pc' = "run"
  /\ UNCHANGED <<devices, at, temporary, read, found, opened, unlisted, reloads>>

\* splitRange overflows, which is undefined: its bands go on below zero, in Construct
\* too, or there is no end of them.
ConstructUndefined ==
  /\ pc = "construct"
  /\ \E k \in 1..Len(devices) : devices[k].enabled /\ ~Representable(devices[k].setup)
  /\ pc' = "crashed"
  /\ UNCHANGED <<devices, at, scanners, temporary, read, found, opened, unlisted, reloads>>

Next ==
  \/ Enumerate \/ EnumerateThrows
  \/ ResultSkipped \/ UpdateDevice \/ UpdateDeviceFails \/ CreateDevice \/ CreateUndefined
  \/ Updated \/ Construct \/ ConstructUndefined
  \/ Reload

Spec == Init /\ [][Next]_vars

-----------------------------------------------------------------------------
(* Properties *)

Ready == pc \in {"construct", "run"}

\* One entry a radio, whatever configuration comes back and however often and in
\* whatever order a radio is found.
SerialsOnce ==
  \A j, k \in 1..Len(devices) : devices[j].serial = devices[k].serial => j = k

\* No answer of a driver, and no failure at any point, costs a user the settings of
\* a device: its place, its switch, its setup, and the value of each gain, unless it is
\* one that the device's own driver did not list when it was asked.
SettingsSurvive ==
  Ready =>
    /\ Len(read) <= Len(devices)
    /\ \A k \in 1..Len(read) :
         /\ devices[k].serial = read[k].serial
         /\ devices[k].enabled = read[k].enabled
         /\ devices[k].setup = read[k].setup
         /\ \A gain \in DOMAIN read[k].gains :
              \/ <<read[k].serial, gain>> \in unlisted
              \/ gain \in DOMAIN devices[k].gains /\ devices[k].gains[gain] = read[k].gains[gain]

\* What the hub is told of a saved configuration: connected are the radios that could
\* be opened this time.
ConnectedIsCurrent ==
  Ready /\ ~temporary =>
    {devices[k].serial : k \in {k \in 1..Len(devices) : devices[k].connected}} = opened

\* A radio that is attached is not used through the network, unless a result without
\* a serial spoils the filter.
LocalFirst ==
  Ready /\ (\A i \in 1..Len(found) : found[i].serial # NoSerial) =>
    \A k \in 1..Len(devices) :
      devices[k].serial \in opened /\ devices[k].driver = "remote" =>
        ~\E i \in 1..Len(found) : found[i] = [serial |-> devices[k].serial, driver |-> "local"]

\* All of a scanner's ranges lies in its bands, and each band that is alone with its
\* centre and no narrower than a step is heard to its edges, unless splitRange overflows.
ConfiguredIsHeard ==
  \A k \in DOMAIN scanners : Representable(scanners[k]) => RangesAreHeard(scanners[k])

\* README.md:3, "scan and record multiple interesting frequencies bandwidth": each
\* configured frequency is heard while the radio is on one of the bands.
EveryFrequencyIsHeard ==
  \A k \in DOMAIN scanners : \A i \in 1..Len(scanners[k].ranges) :
    \A f \in scanners[k].ranges[i].start..scanners[k].ranges[i].stop :
      \E p \in Bands(scanners[k]) : f \in HeardBy(scanners[k], p)

=============================================================================
