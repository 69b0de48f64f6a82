------------------------------ MODULE Config ------------------------------
(***************************************************************************)
(* The configuration (internal/config/config.go): the layers it is read    *)
(* from, what validation rejects, and the bounds that are derived from it. *)
(*                                                                         *)
(* A length of time is a number of seconds, a float64, in the              *)
(* configuration and a Duration in the program, an integer of 64 bits;     *)
(* converting one to the other drops what is finer than a Duration can     *)
(* tell, and what is longer than the longest one becomes something else.   *)
(* Here the first count Resolution units to each unit of the second.       *)
(***************************************************************************)
EXTENDS Integers, Sequences

CONSTANTS Second,             \* clock units in a second
          Resolution,         \* the units of the configuration in a clock unit
          MaxDuration,        \* the longest Duration, math.MaxInt64
          Saturates,          \* the processor converts what is too long to the longest
          MaxHistoryCapacity, \* maxHistoryCapacity
          MaxProcessesTopN    \* maxProcessesTopN

ASSUME ConfigAssumption ==
  /\ {Second, Resolution, MaxHistoryCapacity, MaxProcessesTopN} \subseteq Nat \ {0}
  /\ MaxDuration \in Nat /\ Saturates \in BOOLEAN

Metrics == {"temperature", "cpu", "disk", "swap", "memory"}

Webhook == [url: STRING, min_level: STRING, timeout: Int]

\* The fields that decide behaviour; the others switch a collector or an endpoint.
Config ==
  [listen_addr: STRING, log_level: STRING, api_key: STRING, data_dir: STRING,
   tls_cert: STRING, tls_key: STRING,
   poll_interval: Int, updates_check: Int, updates_stale: Int,
   history_window: Int, history_persist: BOOLEAN, healthz_max_staleness: Int,
   warn: [Metrics -> Int], crit: [Metrics -> Int],
   for: Int, webhooks: Seq(Webhook),
   notify_max_retries: Int, notify_backoff: Int, notify_min_interval: Int,
   processes_enabled: BOOLEAN, processes_top_n: Int]

Seconds(n) == n * Second * Resolution

Default ==
  [listen_addr |-> ":8080", log_level |-> "info", api_key |-> "",
   data_dir |-> "/var/lib/pimonitor", tls_cert |-> "", tls_key |-> "",
   poll_interval |-> Seconds(5), updates_check |-> Seconds(15 * 60),
   updates_stale |-> Seconds(12 * 60 * 60), history_window |-> Seconds(60 * 60),
   history_persist |-> TRUE, healthz_max_staleness |-> 0,
   warn |-> [m \in Metrics |-> CASE m = "temperature" -> 60 [] m = "swap" -> 50 [] OTHER -> 80],
   crit |-> [m \in Metrics |-> CASE m = "temperature" -> 75 [] m = "swap" -> 90 [] OTHER -> 95],
   for |-> Seconds(30), webhooks |-> << >>, notify_max_retries |-> 3,
   notify_backoff |-> Seconds(1), notify_min_interval |-> Seconds(5),
   processes_enabled |-> FALSE, processes_top_n |-> 5]

-----------------------------------------------------------------------------
\* Derived values.

Truncated(x) == IF x >= 0 THEN x \div Resolution ELSE -((-x) \div Resolution)

\* Converting to a Duration rounds towards zero.  What is too long becomes the longest
\* one (arm64) or the most negative one (amd64).
Duration(x) ==
  LET d == Truncated(x)
  IN  IF d \in -MaxDuration - 1 .. MaxDuration THEN d
      ELSE IF Saturates /\ d > 0 THEN MaxDuration
      ELSE -MaxDuration - 1

\* Arithmetic on Durations wraps around.
Wrapped(d) == ((d + MaxDuration + 1) % (2 * MaxDuration + 2)) - MaxDuration - 1

AlertFor(c) == Duration(c.for)
FastInterval(c) == Duration(c.poll_interval)
SlowInterval(c) == Duration(c.updates_check)
UpdatesStaleThreshold(c) == Duration(c.updates_stale)
HistoryWindow(c) == Duration(c.history_window)

\* The points that cover the history window, one at least.
HistoryCapacity(c) ==
  IF c.poll_interval <= 0 \/ c.history_window < c.poll_interval THEN 1
  ELSE c.history_window \div c.poll_interval

\* Mutant: room for one slow tick only.
HealthzMaxStalenessOneTick(c, tickOverhead) ==
  IF c.healthz_max_staleness > 0 THEN Duration(c.healthz_max_staleness)
  ELSE Wrapped(3 * FastInterval(c) + tickOverhead)

\* How old the latest snapshot may be before the process counts as stalled.
HealthzMaxStaleness(c, tickOverhead) ==
  IF c.healthz_max_staleness > 0 THEN Duration(c.healthz_max_staleness)
  ELSE Wrapped(3 * FastInterval(c) + 2 * tickOverhead)

-----------------------------------------------------------------------------
\* Validation.

\* Mutant: the number of points is not limited.
ValidTimingUnlimited(c) ==
  /\ c.poll_interval > 0 /\ c.updates_check > 0 /\ c.updates_stale >= 0
  /\ c.history_window > 0

ValidTiming(c) ==
  /\ c.poll_interval > 0 /\ c.updates_check > 0 /\ c.updates_stale >= 0
  /\ c.history_window > 0
  /\ c.history_window <= MaxHistoryCapacity * c.poll_interval

ValidServer(c) ==
  /\ c.history_persist => c.data_dir # ""
  /\ c.listen_addr # ""
  /\ c.log_level \in {"debug", "info", "warn", "error"}
  /\ c.healthz_max_staleness >= 0
  /\ (c.tls_cert = "") <=> (c.tls_key = "")
  /\ c.healthz_max_staleness > 0 => c.healthz_max_staleness >= c.poll_interval

ValidThresholds(c) ==
  \A m \in Metrics : c.warn[m] >= 0 /\ c.crit[m] >= 0 /\ c.warn[m] <= c.crit[m]

ValidAlerts(c) ==
  /\ c.for >= 0
  /\ c.notify_max_retries >= 0 /\ c.notify_backoff >= 0 /\ c.notify_min_interval >= 0
  /\ \A i \in DOMAIN c.webhooks :
       /\ c.webhooks[i].url # ""
       /\ c.webhooks[i].min_level \in {"", "warn", "crit"}
       /\ c.webhooks[i].timeout >= 0

Validate(c) ==
  /\ ValidTiming(c) /\ ValidServer(c) /\ ValidThresholds(c) /\ ValidAlerts(c)
  /\ c.processes_top_n \in 1..MaxProcessesTopN

-----------------------------------------------------------------------------
\* The layers.  A file is "none" (not asked for), "bad" (missing, not YAML, or
\* with a key or a type that no field has) or gives some of the fields.  The
\* environment holds a key, maybe an empty one, or none (an empty function).
\* Arguments are "bad" or give flags, of which an empty one counts as not given.

\* A layer sets the fields it names.
Override(c, layer) == [f \in DOMAIN c |-> IF f \in DOMAIN layer THEN layer[f] ELSE c[f]]

NonEmpty(layer) == [f \in {g \in DOMAIN layer : layer[g] # ""} |-> layer[f]]

\* loadYAMLFile, for a file that can be read; an empty one changes nothing.
FromFile(file) == IF file.state = "read" THEN Override(Default, file.fields) ELSE Default

\* load: its error, whether only the version is asked for, the configuration, and
\* what is left of the key in the environment once it has been looked up.
Load(args, env, file) ==
  LET conf == Override(Override(FromFile(file), NonEmpty(env)), NonEmpty(args.flags))
      unread == args.state = "bad" \/ file.state = "bad"
  IN  [error |-> unread \/ (~args.version /\ ~Validate(conf)),
       version |-> ~unread /\ args.version,
       config |-> conf,
       env |-> IF unread THEN env ELSE << >>]
=============================================================================
