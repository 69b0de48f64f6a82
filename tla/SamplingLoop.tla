--------------------------- MODULE SamplingLoop ---------------------------
(***************************************************************************)
(* The collector's goroutine in time (Run, fastTick and slowTick of        *)
(* internal/collector/collector.go), from the configuration the process is *)
(* started with to what the health endpoint says of it.                    *)
(*                                                                         *)
(* Two tickers feed one select.  A fast tick asks the firmware up to three *)
(* times and stats filesystems, a slow tick runs apt: each of these calls  *)
(* may hang until its timeout, and the snapshot carries the instant the    *)
(* tick began, not the one it was published at.  What the ticks do besides *)
(* is the matter of HistoryPersistence, DiskMonitor and RateCollectors.    *)
(***************************************************************************)
EXTENDS Config, Sensors

CONSTANTS Inputs,          \* what a process may be started with: [args, env, file]
          VcgencmdTimeout, \* vcgencmdTimeout
          StatfsTimeout,   \* defaultStatfsTimeout
          Mounts,          \* how many filesystems may hang in one tick
          AptTimeout,      \* of apt list, in UpdatesCollector.Collect
          Patience,        \* bound: how long the select passes over a due slow tick
          MaxTime          \* bound: the last instant

ASSUME LoopAssumption ==
  {VcgencmdTimeout, StatfsTimeout, Mounts, AptTimeout, Patience, MaxTime} \subseteq Nat

\* A layer gives a field values of its type: decoding rejects any other.
ASSUME InputsAssumption ==
  \A i \in Inputs : Load(i.args, i.env, i.file).config \in Config

VARIABLES now,
          input,    \* arguments, environment and file; nobody's once they are read
          config,   \* of the collector and the health endpoint
          phase,    \* what the goroutine does
          stamp,    \* the instant its last fast tick began
          until,    \* the instant the tick under way ends
          fastNext, \* when the fast ticker fires next, None before it is made
          fastDue,  \* it has fired and the tick was not taken
          slowNext, slowDue,
          excess,   \* history: filesystems that hung, beside one, in the last fast tick begun
          latest,   \* the timestamp of the published snapshot, None if it has none
          latestExcess, \* history: the same of the tick it is from
          served    \* history: a slow tick has begun since the last fast tick ended

lvars == <<now, input, config, phase, stamp, until, excess, fastNext, fastDue, slowNext,
           slowDue, latest, latestExcess, served>>
published == <<latest, latestExcess>>
tickers == <<fastNext, fastDue, slowNext, slowDue>>

WorstCaseTickOverhead == 3 * VcgencmdTimeout + StatfsTimeout

\* Of k filesystems that hang in a tick, those WorstCaseTickOverhead does not count.
Excess(k) == IF k > 1 THEN k - 1 ELSE 0

-----------------------------------------------------------------------------
\* Starting.

\* Mutant: an interval is taken as it is.
ClampIntervalNot(d) == d

\* A ticker needs a positive interval.
ClampInterval(d) == IF d <= 0 THEN Second ELSE d

\* run maps the configuration onto the collector's and the server's.
Configured(c) ==
  [poll |-> FastInterval(c),
   fast |-> ClampInterval(FastInterval(c)), slow |-> ClampInterval(SlowInterval(c)),
   derived |-> c.healthz_max_staleness = 0,
   staleness |-> HealthzMaxStaleness(c, WorstCaseTickOverhead)]

NoInput == <<"none">>
NoConfig == [poll |-> 0, fast |-> 0, slow |-> 0, derived |-> FALSE, staleness |-> 0]

Loaded == Load(input.args, input.env, input.file)

LoopInit ==
  /\ now = 0 /\ phase = "loading" /\ input \in Inputs /\ config = NoConfig
  /\ stamp = None /\ until = None
  /\ fastNext = None /\ slowNext = None /\ fastDue = FALSE /\ slowDue = FALSE
  /\ excess = 0 /\ latest = None /\ latestExcess = 0 /\ served = FALSE

Init == LoopInit /\ SensorsInit

\* The process starts, or ends with an error or after printing its version.
Start ==
  /\ phase = "loading" /\ input' = NoInput
  /\ IF Loaded.error \/ Loaded.version
     THEN phase' = "ended" /\ UNCHANGED config
     ELSE phase' = "idle" /\ config' = Configured(Loaded.config)
  /\ UNCHANGED <<now, stamp, until, excess, tickers, published, served, svars>>

-----------------------------------------------------------------------------
\* Time and the tickers.

Ticking == fastNext # None

\* Something happens now: a ticker fires, a tick ends, or the select takes one.
Urgent ==
  \/ Ticking /\ now \in {fastNext, slowNext}
  \/ phase \in {"fast", "slow"} /\ now = until
  \/ phase = "loading"
  \/ phase = "idle" /\ (~Ticking \/ fastDue \/ slowDue)

Ahead == (IF Ticking THEN {fastNext, slowNext} ELSE {})
           \union (IF phase \in {"fast", "slow"} THEN {until} ELSE {})

\* The clock moves on to the next instant at which something happens.
Pass ==
  /\ ~Urgent /\ phase # "ended"
  /\ \E t \in Ahead : /\ \A u \in Ahead : t <= u
                      /\ t <= MaxTime
                      /\ now' = t
  /\ UNCHANGED <<input, config, phase, stamp, until, excess, tickers, published, served,
                 svars>>

\* A ticker's channel holds one tick; what does not fit is dropped.
FastFires ==
  /\ Ticking /\ now = fastNext
  /\ fastDue' = TRUE /\ fastNext' = fastNext + config.fast
  /\ UNCHANGED <<now, input, config, phase, stamp, until, excess, slowNext, slowDue,
                 published, served, svars>>

SlowFires ==
  /\ Ticking /\ now = slowNext
  /\ slowDue' = TRUE /\ slowNext' = slowNext + config.slow
  /\ UNCHANGED <<now, input, config, phase, stamp, until, excess, fastNext, fastDue,
                 published, served, svars>>

-----------------------------------------------------------------------------
\* The ticks.

\* The select takes any tick that is due; it is a coin that does not pass over the
\* slow one for longer than Patience.  The first fast tick is not the ticker's.  The
\* filesystems are asked one after the other, and each may hang.
FastBegins ==
  /\ phase = "idle"
  /\ \/ ~Ticking /\ latest = None
     \/ /\ fastDue
        /\ slowDue => now <= slowNext - config.slow + Patience
  /\ \E zoneAnswers \in BOOLEAN, outcome \in Fates :
       /\ ReadSensors(now, zoneAnswers, outcome)
       /\ \E stalls \in 0..Mounts :
            /\ excess' = Excess(stalls)
            /\ until' = now + Cardinality(Hung(zoneAnswers, outcome)) * VcgencmdTimeout
                           + stalls * StatfsTimeout
  /\ phase' = "fast" /\ stamp' = now /\ fastDue' = FALSE
  /\ UNCHANGED <<now, input, config, fastNext, slowNext, slowDue, published, served>>

\* fastTick publishes what it has sampled.
FastEnds ==
  /\ phase = "fast" /\ now = until
  /\ phase' = "idle" /\ until' = None /\ served' = FALSE
  /\ latest' = stamp /\ latestExcess' = excess
  /\ UNCHANGED <<now, input, config, stamp, excess, tickers, svars>>

\* apt runs for up to AptTimeout.  The first slow tick follows the first fast one.
SlowBegins ==
  /\ phase = "idle"
  /\ IF Ticking THEN slowDue ELSE latest # None
  /\ \E d \in {0, AptTimeout} : until' = now + d
  /\ phase' = "slow" /\ slowDue' = FALSE /\ served' = TRUE
  /\ UNCHANGED <<now, input, config, stamp, excess, fastNext, fastDue, slowNext, published,
                 svars>>

\* After the first slow tick, Run makes the tickers.
SlowEnds ==
  /\ phase = "slow" /\ now = until /\ phase' = "idle" /\ until' = None
  /\ fastNext' = IF Ticking THEN fastNext ELSE now + config.fast
  /\ slowNext' = IF Ticking THEN slowNext ELSE now + config.slow
  /\ UNCHANGED <<now, input, config, stamp, excess, fastDue, slowDue, published, served,
                 svars>>

\* Between two ticks: a tick reads at the instant it begins.
HardwareStep == /\ phase = "idle"
                /\ ZonesChange(now) \/ VcgencmdChanges(now)
                /\ UNCHANGED lvars

Next ==
  \/ Start \/ Pass \/ FastFires \/ SlowFires
  \/ FastBegins \/ FastEnds \/ SlowBegins \/ SlowEnds
  \/ HardwareStep

Spec == Init /\ [][Next]_<<lvars, svars>>

-----------------------------------------------------------------------------

LongestTick == WorstCaseTickOverhead + Excess(Mounts) * StatfsTimeout

\* apt lasts no longer than two intervals, and slow ticks leave room for fast ones.  For
\* the timeouts of the code, an interval of five seconds is just long enough.  The bound
\* does not know of an interval that was clamped, and is to fit a Duration.
Spaced ==
  /\ config.poll = config.fast
  /\ AptTimeout <= 2 * config.fast
  /\ config.slow > Patience + LongestTick + AptTimeout + config.fast
  /\ 3 * config.poll + 2 * WorstCaseTickOverhead <= MaxDuration

\* Filesystems beyond the one that are waited for while `latest` stays what it is: in the
\* tick it is from, and in one under way.
Unbudgeted == latestExcess + (IF phase = "fast" THEN excess ELSE 0)

\* A collector whose calls run into their timeouts is not taken for a stalled one (the
\* bound HealthzMaxStaleness derives, WorstCaseTickOverhead, and Run): if the configuration
\* is Spaced, the published snapshot is older than the derived bound by no more than one
\* statfs timeout for each filesystem that hung beside the first one of its tick; and so
\* the health endpoint answers ok while no two hang in one tick, whatever else does.
NotMistakenForStalled ==
  config.derived /\ latest # None /\ Spaced =>
    now - latest <= config.staleness + Unbudgeted * StatfsTimeout

\* No source stays unnoticed (re-detection in temperature.go and vcgencmd.go, and the
\* latch on the controller's sensor): a reading that could have been had is missed only
\* if its source changed within the last DetectRetryInterval; and unless the zones have
\* changed since a zone was looked for, it is one of the best type there is.
ReadingsComplete ==
  /\ "zone" \in missed => zonesSince > stamp - DetectRetryInterval
  /\ missed \intersect Invocations # {} => vcgencmdSince > stamp - DetectRetryInterval
  /\ zone # None /\ zonesSince < lastZoneDetect =>
       \A i \in DOMAIN Preferred : (\E z \in DOMAIN zones : zones[z] = Preferred[i]) =>
         \E j \in 1..i : zones[zone] = Preferred[j]

\* The bound of the health endpoint fits a Duration.
Representable(c) ==
  IF c.healthz_max_staleness > 0 THEN Truncated(c.healthz_max_staleness) <= MaxDuration
  ELSE 3 * Truncated(c.poll_interval) + 2 * WorstCaseTickOverhead <= MaxDuration

\* The health endpoint allows for a tick.
AllowsForATick(c) == HealthzMaxStaleness(c, WorstCaseTickOverhead) >= FastInterval(c)

Accepted == phase = "loading" /\ ~Loaded.error /\ ~Loaded.version

\* What passes validation can be run (validateTiming, validateServer and the derived
\* values): the retained points cover the window and no more, there are not too many,
\* and the health endpoint allows for a tick if its bound fits a Duration.
UsableConfig ==
  Accepted =>
    LET c == Loaded.config
        capacity == HistoryCapacity(c)
    IN  /\ capacity \in 1..MaxHistoryCapacity
        /\ capacity = 1 \/ capacity * c.poll_interval <= c.history_window
        /\ (capacity + 1) * c.poll_interval > c.history_window
        /\ Representable(c) => AllowsForATick(c)
=============================================================================
