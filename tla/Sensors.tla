----------------------------- MODULE Sensors ------------------------------
(***************************************************************************)
(* The collectors of internal/collector that have to find their source     *)
(* first: temperature.go (a thermal zone, and the firmware's two sensors), *)
(* throttled.go, and vcgencmd.go, which both ask the firmware with.  A     *)
(* zone or a command that is missing is looked for again, at most once per *)
(* DetectRetryInterval.                                                    *)
(***************************************************************************)
EXTENDS Integers, FiniteSets

CONSTANTS ZoneLists,           \* the thermal zones there can be: their types, in glob order
          Preferred,           \* preferredThermalZoneTypes, a sequence of types
          DetectRetryInterval, \* detectRetryInterval
          MaxChanges,          \* bound: changes of the hardware
          LastChange           \* bound: the last instant of one

ASSUME SensorsAssumption ==
  /\ DetectRetryInterval \in Nat \ {0} /\ {MaxChanges, LastChange} \subseteq Nat
  /\ DOMAIN Preferred \subseteq Nat \ {0}
  /\ \A list \in ZoneLists : DOMAIN list \subseteq Nat \ {0}

None == -1

VARIABLES zones,           \* the types of the thermal zones that are there
          vcgencmd,        \* whether the command is installed
          pmic,            \* whether the board's power controller has a sensor
          changes,         \* history: how often the hardware changed
          zonesSince,      \* history: since when the zones are what they are
          vcgencmdSince,   \* history: since when the command is (un)installed
          zone,            \* zonePath, None if there is none
          lastZoneDetect,  \* when a zone was looked for last
          detected,        \* whether the command was ever found
          lastDetect,      \* when it was looked for last
          pmicUnsupported, \* the board has answered that it has no such sensor
          missed           \* history: what the last tick could have read, and did not

hardware == <<zones, vcgencmd, pmic, changes, zonesSince, vcgencmdSince>>
detection == <<zone, lastZoneDetect, detected, lastDetect, pmicUnsupported>>
svars == <<hardware, detection, missed>>

\* The vcgencmd invocations of a tick, and what may become of one.
Invocations == {"gpu", "pmic", "throttled"}
Outcomes == {"answers", "fails", "hangs"}

-----------------------------------------------------------------------------
\* Detection.

\* findCPUThermalZone: any zone of the first type in Preferred that some zone has,
\* or else the first zone.
FindCPUThermalZone ==
  LET ofType(i) == {z \in DOMAIN zones : zones[z] = Preferred[i]}
      ranks == {i \in DOMAIN Preferred : ofType(i) # {}}
  IN  IF ranks # {}
      THEN UNION {ofType(i) : i \in {r \in ranks : \A q \in ranks : r <= q}}
      ELSE {z \in DOMAIN zones : \A y \in DOMAIN zones : z <= y}

\* A search is due if there was none for DetectRetryInterval.
Due(last, t) == t - last >= DetectRetryInterval

\* Mutant: a search that is put off counts as one.
RedetectZonePuttingOff(t) ==
  LET lost == zone \notin DOMAIN zones
  IN  /\ lastZoneDetect' = IF lost THEN t ELSE lastZoneDetect
      /\ IF lost /\ Due(lastZoneDetect, t) /\ DOMAIN zones # {}
         THEN zone' \in FindCPUThermalZone
         ELSE zone' = IF lost THEN None ELSE zone

\* redetectZoneLocked, before the read and again if the zone to read has gone.  A
\* zone that is there is kept.
RedetectZone(t) ==
  LET searches == zone \notin DOMAIN zones /\ Due(lastZoneDetect, t)
  IN  /\ lastZoneDetect' = IF searches THEN t ELSE lastZoneDetect
      /\ IF searches /\ DOMAIN zones # {}
         THEN zone' \in FindCPUThermalZone
         ELSE zone' = IF zone \in DOMAIN zones THEN zone ELSE None

\* redetectLocked, which never looks again for what it has found.
RedetectVcgencmd(t) ==
  LET searches == ~detected /\ Due(lastDetect, t)
  IN  /\ lastDetect' = IF searches THEN t ELSE lastDetect
      /\ detected' = (detected \/ (searches /\ vcgencmd))

\* The constructors, at instant 0, search at once.
SensorsInit ==
  /\ zones \in ZoneLists
  /\ zone \in IF DOMAIN zones = {} THEN {None} ELSE FindCPUThermalZone
  /\ vcgencmd \in BOOLEAN /\ pmic \in BOOLEAN
  /\ detected = vcgencmd /\ pmicUnsupported = FALSE
  /\ lastZoneDetect = 0 /\ lastDetect = 0
  /\ changes = 0 /\ zonesSince = -DetectRetryInterval /\ vcgencmdSince = -DetectRetryInterval
  /\ missed = {}

-----------------------------------------------------------------------------
\* Reading.

\* What may become of a tick's invocations: without the command they fail.
Fates == {o \in [Invocations -> Outcomes] : vcgencmd \/ \A i \in Invocations : o[i] = "fails"}

Temperature(zoneAnswers) == zone' # None /\ zoneAnswers

\* The firmware's temperatures are asked for only with a reading of the zone.
Asked(zoneAnswers) ==
  {i \in Invocations : /\ detected'
                       /\ i # "throttled" => Temperature(zoneAnswers)
                       /\ i = "pmic" => ~pmicUnsupported}

\* What the firmware answers, a reading or not.
Answering(outcome) == {i \in Invocations : vcgencmd /\ outcome[i] = "answers"}

\* The invocations that run into their timeout.
Hung(zoneAnswers, outcome) ==
  {i \in Asked(zoneAnswers) : vcgencmd /\ outcome[i] = "hangs"}

\* Mutant: any failure of the pmic invocation is taken for the answer that there is none.
LatchOnFailure(asked, answering) == "pmic" \in asked /\ ~("pmic" \in answering /\ pmic)

\* An answer that is no reading: this board has no such sensor.
Unsupported(asked, answering) == "pmic" \in asked \intersect answering /\ ~pmic

\* Collect of TemperatureCollector, then of ThrottledCollector, at t: the read of the
\* zone fails or not, and each invocation of the command has an outcome.
ReadSensors(t, zoneAnswers, outcome) ==
  /\ RedetectZone(t) /\ RedetectVcgencmd(t)
  /\ pmicUnsupported' =
       (pmicUnsupported \/ Unsupported(Asked(zoneAnswers), Answering(outcome)))
  /\ LET readable == {i \in Answering(outcome) : /\ i # "throttled" => Temperature(zoneAnswers)
                                                 /\ i = "pmic" => pmic}
     IN  missed' = (readable \ Asked(zoneAnswers))
                     \union (IF zoneAnswers /\ zone' = None /\ DOMAIN zones # {} THEN {"zone"} ELSE {})
  /\ UNCHANGED hardware

-----------------------------------------------------------------------------
\* The hardware: drivers come and go, the command is installed or removed.

ZonesChange(t) ==
  /\ changes < MaxChanges /\ t <= LastChange /\ changes' = changes + 1
  /\ zones' \in ZoneLists \ {zones}
  /\ zonesSince' = t
  /\ UNCHANGED <<vcgencmd, pmic, vcgencmdSince, detection, missed>>

VcgencmdChanges(t) ==
  /\ changes < MaxChanges /\ t <= LastChange /\ changes' = changes + 1
  /\ vcgencmd' = ~vcgencmd /\ vcgencmdSince' = t
  /\ UNCHANGED <<zones, pmic, zonesSince, detection, missed>>
=============================================================================
