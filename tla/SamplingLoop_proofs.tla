------------------------ MODULE SamplingLoop_proofs ------------------------
(***************************************************************************)
(* Proofs about SamplingLoop and Config, for all intervals, timeouts and   *)
(* inputs: a configuration that passes validation can be run, a loop whose *)
(* calls run into their timeouts is taken for a stalled one only by what   *)
(* the bound does not budget for, and a source that is there is not missed *)
(* for longer than a retry interval.                                       *)
(*                                                                         *)
(* Timely says when the next fast tick begins.  One slow tick at most      *)
(* comes between two fast ones: a snapshot is replaced, at the latest, by  *)
(* a tick that begins Gap after the one it is from, and then takes as long *)
(* as the filesystems that hang in it make it.  Searched says what the     *)
(* sensors remember of their last search.                                  *)
(***************************************************************************)
EXTENDS SamplingLoop, FiniteSetTheorems, TLAPS

Overhead == WorstCaseTickOverhead

\* How long a tick can last in which e filesystems more than one hang, the one the
\* snapshot is from and the last one that began.
TickOf(e) == Overhead + e * StatfsTimeout
Past == TickOf(latestExcess)
Last == TickOf(excess)

Gap == Past + config.fast + AptTimeout

Ticks == {"idle", "fast", "slow"}
Instant == Nat \union {None}

LoopTypes ==
  /\ now \in Nat /\ phase \in Ticks \union {"loading", "ended"}
  /\ phase = "loading" => input \in Inputs
  /\ config \in [poll: Int, fast: Nat, slow: Nat, derived: BOOLEAN, staleness: Int]
  /\ config.derived => config.staleness = Wrapped(3 * config.poll + 2 * Overhead)
  /\ excess \in 0..Excess(Mounts) /\ latestExcess \in 0..Excess(Mounts)
  /\ Past \in 0..LongestTick /\ Last \in 0..LongestTick
  /\ stamp \in Instant /\ until \in Instant /\ latest \in Instant
  /\ fastNext \in Instant /\ slowNext \in Instant
  /\ fastDue \in BOOLEAN /\ slowDue \in BOOLEAN /\ served \in BOOLEAN

\* The tickers are ahead, and so is the end of a tick under way.
Clocks ==
  /\ phase \in {"loading", "ended"} => latest = None /\ ~Ticking
  /\ Ticking => /\ latest # None /\ slowNext # None
                /\ now <= fastNext /\ fastNext <= now + config.fast /\ now <= slowNext
  /\ ~Ticking => slowNext = None /\ ~fastDue /\ ~slowDue /\ (phase = "fast" => latest = None)
  /\ latest # None => latest <= now
  /\ phase = "fast" => /\ stamp # None /\ until # None
                       /\ stamp <= now /\ now <= until /\ until <= stamp + Last
  /\ phase = "slow" => /\ latest # None /\ until # None /\ now <= until /\ served

\* How much later the next fast tick can begin, of the calls that were still ahead.
Slack == IF served THEN AptTimeout ELSE 0

\* The slow tick that is due became so no longer than Patience before t.
DueSince(t) == slowDue => t <= slowNext - config.slow + Patience

Timely ==
  /\ ~Ticking /\ latest # None =>
       /\ phase = "idle" => now <= latest + Past
       /\ phase = "slow" => until <= latest + Past + AptTimeout
  /\ Ticking /\ phase = "fast" => stamp <= latest + Gap /\ DueSince(stamp)
  /\ Ticking /\ phase # "fast" =>
       /\ phase = "slow" => until <= latest + Gap
       /\ IF fastDue THEN now <= latest + Past + config.fast + Slack
          ELSE fastNext <= latest + Past + config.fast + Slack
       /\ IF served THEN ~slowDue /\ slowNext > latest + Gap ELSE DueSince(latest)

LoopInv == LoopTypes /\ Clocks /\ (Spaced => Timely)

-----------------------------------------------------------------------------
\* Configuration.

\* Dividing with a remainder.
LEMMA Division ==
  ASSUME NEW a \in Nat, NEW b \in Nat \ {0}
  PROVE  a \div b \in Nat /\ (a \div b) * b <= a /\ a < (a \div b + 1) * b
BY SMT

\* A conversion to a Duration gives a number, and does not reorder what fits.
LEMMA DurationType ==
  ASSUME NEW x \in Int
  PROVE  Duration(x) \in Int
<1>1. MaxDuration \in Nat /\ Resolution \in Nat \ {0}
  BY ConfigAssumption
<1>2. Truncated(x) \in Int
  BY <1>1, SMT DEF Truncated
<1> QED
  BY <1>1, <1>2 DEF Duration

LEMMA DurationIsMonotone ==
  ASSUME NEW x \in Nat, NEW y \in Nat, x <= y, Truncated(y) <= MaxDuration
  PROVE  /\ Duration(x) = Truncated(x) /\ Duration(y) = Truncated(y)
         /\ Duration(x) <= Duration(y) /\ Duration(x) \in Nat
<1> DEFINE p == x \div Resolution
           q == y \div Resolution
           R == Resolution
<1>1. R \in Nat \ {0} /\ MaxDuration \in Nat
  BY ConfigAssumption
<1>2. p \in Nat /\ q \in Nat /\ p * R <= x /\ y < (q + 1) * R
  BY <1>1, Division
<1>3. Truncated(x) = p /\ Truncated(y) = q
  BY DEF Truncated
<1> HIDE DEF p, q, R
<1>4. p * R < (q + 1) * R
  BY <1>1, <1>2
<1>5. p <= q
  BY <1>1, <1>2, <1>4
<1>6. q <= MaxDuration
  BY <1>3
<1> QED
  BY <1>1, <1>2, <1>3, <1>5, <1>6 DEF Duration

\* What fits a Duration does not wrap around.
LEMMA WrappedFits ==
  ASSUME NEW d \in 0..MaxDuration
  PROVE  Wrapped(d) = d
<1> DEFINE a == d + MaxDuration + 1
           b == 2 * MaxDuration + 2
<1>1. MaxDuration \in Nat
  BY ConfigAssumption
<1>2. a \in Nat /\ b \in Nat \ {0} /\ a < b
  BY <1>1
<1>3. a % b = a
  <2> HIDE DEF a, b
  <2> QED
    BY <1>2
<1> QED
  BY <1>1, <1>3 DEF Wrapped

LEMMA WrappedType ==
  ASSUME NEW d \in Int
  PROVE  Wrapped(d) \in Int
<1> DEFINE a == d + MaxDuration + 1
           b == 2 * MaxDuration + 2
<1>1. MaxDuration \in Nat
  BY ConfigAssumption
<1>2. a \in Int /\ b \in Nat \ {0}
  BY <1>1
<1>3. a % b \in Int
  <2> HIDE DEF a, b
  <2> QED
    BY <1>2
<1> QED
  BY <1>1, <1>3 DEF Wrapped

\* What validation establishes.
LEMMA ValidIsUsable ==
  ASSUME NEW c \in Config, Validate(c)
  PROVE  LET capacity == HistoryCapacity(c)
         IN  /\ capacity \in 1..MaxHistoryCapacity
             /\ capacity = 1 \/ capacity * c.poll_interval <= c.history_window
             /\ (capacity + 1) * c.poll_interval > c.history_window
             /\ Representable(c) => AllowsForATick(c)
<1> DEFINE poll == c.poll_interval
           window == c.history_window
           capacity == HistoryCapacity(c)
<1>1. /\ poll \in Nat \ {0} /\ window \in Nat \ {0} /\ window <= MaxHistoryCapacity * poll
      /\ c.healthz_max_staleness \in Nat
      /\ c.healthz_max_staleness > 0 => poll <= c.healthz_max_staleness
  <2>1. poll \in Int /\ window \in Int /\ c.healthz_max_staleness \in Int
    BY DEF Config
  <2>2. /\ poll > 0 /\ window > 0 /\ window <= MaxHistoryCapacity * poll
        /\ c.healthz_max_staleness >= 0
        /\ c.healthz_max_staleness > 0 => c.healthz_max_staleness >= poll
    BY DEF Validate, ValidTiming, ValidServer
  <2> HIDE DEF poll, window
  <2> QED
    BY <2>1, <2>2
<1>2. MaxHistoryCapacity \in Nat \ {0}
  BY ConfigAssumption
<1>3. capacity = IF window < poll THEN 1 ELSE window \div poll
  BY <1>1 DEF HistoryCapacity
<1>4. ASSUME Representable(c) PROVE AllowsForATick(c)
  <2> USE DEF AllowsForATick, HealthzMaxStaleness, FastInterval
  <2>1. WorstCaseTickOverhead \in Nat /\ MaxDuration \in Nat
    BY LoopAssumption, ConfigAssumption DEF WorstCaseTickOverhead
  <2>2. CASE c.healthz_max_staleness > 0
    BY <1>1, <1>4, <2>2, DurationIsMonotone DEF Representable
  <2>3. CASE ~(c.healthz_max_staleness > 0)
    <3>1. 3 * Truncated(poll) + 2 * WorstCaseTickOverhead <= MaxDuration
      BY <1>4, <2>3 DEF Representable
    <3>2. Truncated(poll) \in Nat
      BY <1>1, ConfigAssumption, Division DEF Truncated
    <3>3. Duration(poll) = Truncated(poll)
      BY <1>1, <2>1, <3>1, <3>2, DurationIsMonotone
    <3>4. Wrapped(3 * Duration(poll) + 2 * WorstCaseTickOverhead)
            = 3 * Duration(poll) + 2 * WorstCaseTickOverhead
      BY <2>1, <3>1, <3>2, <3>3, WrappedFits
    <3> QED
      BY <2>1, <2>3, <3>2, <3>3, <3>4
  <2> QED
    BY <2>2, <2>3
<1>5. CASE window < poll
  BY <1>1, <1>2, <1>3, <1>4, <1>5
<1>6. CASE ~(window < poll)
  <2> HIDE DEF poll, window, capacity
  <2>1. /\ capacity \in Nat /\ capacity * poll <= window /\ window < (capacity + 1) * poll
    BY <1>1, <1>3, <1>6, Division
  <2>2. capacity >= 1
    BY <1>1, <1>6, <2>1
  <2>3. capacity * poll <= MaxHistoryCapacity * poll
    BY <1>1, <1>2, <2>1
  <2>4. capacity <= MaxHistoryCapacity
    BY <1>1, <1>2, <2>1, <2>3
  <2> QED
    BY <1>2, <1>4, <2>1, <2>2, <2>4 DEF poll, window, capacity
<1> QED
  BY <1>5, <1>6

\* Starting maps a configuration of the right types onto the loop's.
LEMMA ConfiguredType ==
  ASSUME NEW c \in Config
  PROVE  /\ Configured(c) \in [poll: Int, fast: Nat, slow: Nat, derived: BOOLEAN, staleness: Int]
         /\ Configured(c).derived =>
              Configured(c).staleness = Wrapped(3 * Configured(c).poll + 2 * Overhead)
<1>1. /\ FastInterval(c) \in Int /\ SlowInterval(c) \in Int
      /\ Duration(c.healthz_max_staleness) \in Int /\ c.healthz_max_staleness \in Int
  BY DurationType DEF Config, FastInterval, SlowInterval
<1>2. Second \in Nat /\ Overhead \in Nat
  BY ConfigAssumption, LoopAssumption DEF Overhead, WorstCaseTickOverhead
<1>3. HealthzMaxStaleness(c, Overhead) \in Int
  BY <1>1, <1>2, WrappedType DEF HealthzMaxStaleness
<1>4. \A d \in Int : ClampInterval(d) \in Nat
  BY <1>2 DEF ClampInterval
<1> DEFINE derived == c.healthz_max_staleness = 0
           poll == FastInterval(c)
           fast == ClampInterval(poll)
           slow == ClampInterval(SlowInterval(c))
           staleness == HealthzMaxStaleness(c, Overhead)
<1>5. Configured(c) =
        [poll |-> poll, fast |-> fast, slow |-> slow, derived |-> derived, staleness |-> staleness]
  BY DEF Configured, Overhead
<1>6. derived => staleness = Wrapped(3 * poll + 2 * Overhead)
  BY DEF HealthzMaxStaleness
<1>7. derived \in BOOLEAN /\ poll \in Int /\ fast \in Nat /\ slow \in Nat /\ staleness \in Int
  BY <1>1, <1>3, <1>4
<1> HIDE DEF derived, poll, fast, slow, staleness
<1>8. /\ Configured(c).derived = derived /\ Configured(c).poll = poll
      /\ Configured(c).staleness = staleness
  BY <1>5
<1>9. Configured(c) \in [poll: Int, fast: Nat, slow: Nat, derived: BOOLEAN, staleness: Int]
  BY <1>5, <1>7
<1> QED
  BY <1>6, <1>8, <1>9

-----------------------------------------------------------------------------
\* The loop.

LEMMA OverheadType ==
  /\ Overhead \in Nat /\ AptTimeout \in Nat /\ Patience \in Nat
  /\ StatfsTimeout \in Nat /\ Mounts \in Nat /\ LongestTick \in Nat
<1>1. Mounts \in Nat /\ Excess(Mounts) \in Nat
  BY LoopAssumption DEF Excess
<1>2. Excess(Mounts) * StatfsTimeout \in Nat
  BY <1>1, LoopAssumption
<1> QED
  BY <1>2, LoopAssumption DEF Overhead, WorstCaseTickOverhead, LongestTick

\* The more filesystems hang, the longer it lasts.
LEMMA TickType ==
  ASSUME NEW e \in 0..Excess(Mounts)
  PROVE  TickOf(e) \in 0..LongestTick
<1> DEFINE f == Excess(Mounts)
<1>1. f \in Nat
  BY OverheadType DEF Excess
<1>2. e \in Nat /\ e <= f
  BY <1>1
<1> HIDE DEF f
<1>3. /\ e * StatfsTimeout \in Nat /\ f * StatfsTimeout \in Nat
      /\ e * StatfsTimeout <= f * StatfsTimeout
  BY <1>1, <1>2, OverheadType
<1> QED
  BY <1>3, OverheadType DEF TickOf, LongestTick, Overhead, f

\* There are three invocations.
LEMMA InvocationsNumber == IsFiniteSet(Invocations) /\ Cardinality(Invocations) = 3
<1>1. IsFiniteSet({"gpu"}) /\ Cardinality({"gpu"}) = 1
  BY FS_Singleton
<1>2. IsFiniteSet({"gpu", "pmic"}) /\ Cardinality({"gpu", "pmic"}) = 2
  <2>1. {"gpu", "pmic"} = {"gpu"} \union {"pmic"} /\ "pmic" \notin {"gpu"}
    OBVIOUS
  <2> QED
    BY <1>1, <2>1, FS_AddElement
<1>3. Invocations = {"gpu", "pmic"} \union {"throttled"} /\ "throttled" \notin {"gpu", "pmic"}
  BY DEF Invocations
<1> QED
  BY <1>2, <1>3, FS_AddElement

\* A fast tick takes no longer than three invocations and k filesystems can hang.
LEMMA TickOverhead ==
  ASSUME NEW zoneAnswers \in BOOLEAN, NEW outcome \in [Invocations -> Outcomes],
         NEW k \in 0..Mounts
  PROVE  LET d == Cardinality(Hung(zoneAnswers, outcome)) * VcgencmdTimeout
             stall == k * StatfsTimeout
         IN  /\ d \in Nat /\ stall \in Nat /\ d + stall <= TickOf(Excess(k))
             /\ Excess(k) \in 0..Excess(Mounts)
<1> DEFINE hung == Hung(zoneAnswers, outcome)
           many == Cardinality(hung)
<1>1. hung \subseteq Invocations
  BY DEF Hung, Asked
<1> HIDE DEF hung
<1>2. many \in 0..3
  BY InvocationsNumber, <1>1, FS_Subset, FS_CardinalityType
<1> HIDE DEF many
<1>3. VcgencmdTimeout \in Nat /\ StatfsTimeout \in Nat
  BY LoopAssumption
<1>4. many * VcgencmdTimeout \in Nat /\ many * VcgencmdTimeout <= 3 * VcgencmdTimeout
  BY <1>2, <1>3
<1>5. k * StatfsTimeout \in Nat /\ k * StatfsTimeout <= StatfsTimeout + Excess(k) * StatfsTimeout
  <2>1. k \in Nat
    BY OverheadType
  <2>2. CASE k <= 1
    BY <1>3, <2>1, <2>2 DEF Excess
  <2>3. CASE k > 1
    <3>1. k * StatfsTimeout = StatfsTimeout + (k - 1) * StatfsTimeout
      BY <1>3, <2>1
    <3> QED
      BY <1>3, <2>1, <2>3, <3>1 DEF Excess
  <2> QED
    BY <2>1, <2>2, <2>3
<1>6. 3 * VcgencmdTimeout \in Nat /\ Excess(k) * StatfsTimeout \in Nat
  BY <1>3, OverheadType DEF Excess
<1>7. Excess(k) \in 0..Excess(Mounts)
  BY OverheadType DEF Excess
<1>8. many * VcgencmdTimeout + k * StatfsTimeout <= TickOf(Excess(k))
  BY <1>3, <1>4, <1>5, <1>6 DEF TickOf, Overhead, WorstCaseTickOverhead
<1> QED
  BY <1>4, <1>5, <1>7, <1>8 DEF many, hung

\* Time does not pass a ticker or the end of a tick by.
LEMMA PassKeeps ==
  ASSUME LoopInv, Pass
  PROVE  LoopInv'
<1> USE OverheadType DEF None, Ticking, Ticks, Instant
<1>1. /\ now' \in Nat /\ now <= now'
      /\ Ticking => now' <= fastNext /\ now' <= slowNext
      /\ phase \in {"fast", "slow"} => now' <= until
      /\ phase \notin {"loading", "ended"} /\ (phase = "idle" => Ticking /\ ~fastDue /\ ~slowDue)
  BY DEF Pass, Ahead, Urgent, LoopInv, LoopTypes, Clocks
<1>2. /\ UNCHANGED <<input, config, phase, stamp, until, excess, tickers, latest, latestExcess,
                     served>>
      /\ UNCHANGED <<Past, Last>>
  BY DEF Pass, published, Past, Last
<1>3. LoopTypes'
  BY <1>1, <1>2 DEF LoopInv, LoopTypes, tickers
<1>4. Clocks'
  BY <1>1, <1>2 DEF LoopInv, LoopTypes, Clocks, tickers
<1>5. Spaced => Timely'
  BY <1>1, <1>2 DEF LoopInv, LoopTypes, Clocks, Timely, Spaced, Slack, DueSince, Gap, tickers
<1> QED
  BY <1>2, <1>3, <1>4, <1>5 DEF LoopInv, Spaced

\* A tick that is due is due until it is taken.
LEMMA FastFiresKeeps ==
  ASSUME LoopInv, FastFires
  PROVE  LoopInv'
<1> USE OverheadType DEF FastFires, None, Ticking, Ticks, Instant, tickers, published
<1>1. UNCHANGED <<Past, Last>>
  BY DEF Past, Last
<1>2. LoopTypes'
  BY <1>1 DEF LoopInv, LoopTypes, Clocks
<1>3. Clocks'
  BY <1>1 DEF LoopInv, LoopTypes, Clocks
<1>4. Spaced => Timely'
  BY <1>1 DEF LoopInv, LoopTypes, Clocks, Timely, Spaced, Slack, DueSince, Gap
<1> QED
  BY <1>2, <1>3, <1>4 DEF LoopInv, Spaced

\* A slow tick does not become due twice between two fast ones.
LEMMA SlowFiresKeeps ==
  ASSUME LoopInv, SlowFires
  PROVE  LoopInv'
<1> USE OverheadType DEF SlowFires, None, Ticking, Ticks, Instant, tickers, published
<1>1. UNCHANGED <<Past, Last>>
  BY DEF Past, Last
<1>2. LoopTypes'
  BY <1>1 DEF LoopInv, LoopTypes, Clocks
<1>3. Clocks'
  BY <1>1 DEF LoopInv, LoopTypes, Clocks
<1>4. Spaced => Timely'
  BY <1>1 DEF LoopInv, LoopTypes, Clocks, Timely, Spaced, Slack, DueSince, Gap
<1> QED
  BY <1>2, <1>3, <1>4 DEF LoopInv, Spaced

\* What comes next counts from the tick that has just been published.
LEMMA FastEndsKeeps ==
  ASSUME LoopInv, FastEnds
  PROVE  LoopInv'
<1> USE OverheadType DEF FastEnds, None, Ticking, Ticks, Instant, tickers
<1>1. Past' = Last /\ Last' = Last
  BY DEF Past, Last
<1>2. LoopTypes'
  BY <1>1 DEF LoopInv, LoopTypes, Clocks
<1>3. Clocks'
  BY <1>1 DEF LoopInv, LoopTypes, Clocks
<1>4. Spaced => Timely'
  BY <1>1 DEF LoopInv, LoopTypes, Clocks, Timely, Spaced, Slack, DueSince, Gap
<1> QED
  BY <1>2, <1>3, <1>4 DEF LoopInv, Spaced

\* A slow tick uses up the slack there was for it.
LEMMA SlowBeginsKeeps ==
  ASSUME LoopInv, SlowBegins
  PROVE  LoopInv'
<1> USE OverheadType DEF None, Ticking, Ticks, Instant, tickers
<1>1. /\ phase = "idle" /\ phase' = "slow" /\ slowDue' = FALSE /\ served' = TRUE
      /\ IF Ticking THEN slowDue ELSE latest # None
      /\ UNCHANGED <<now, input, config, stamp, excess, fastNext, fastDue, slowNext, latest,
                     latestExcess>>
      /\ UNCHANGED <<Past, Last>>
  BY DEF SlowBegins, published, Past, Last
<1>2. now \in Nat /\ until' \in Nat /\ now <= until' /\ until' <= now + AptTimeout
  BY DEF SlowBegins, LoopInv, LoopTypes
<1>3. LoopTypes'
  BY <1>1, <1>2 DEF LoopInv, LoopTypes
<1>4. Clocks'
  BY <1>1, <1>2 DEF LoopInv, LoopTypes, Clocks
<1>5. ASSUME Spaced PROVE Timely'
  <2> USE <1>5 DEF LoopInv, LoopTypes
  <2>1. CASE ~Ticking
    BY <1>1, <1>2, <2>1 DEF Timely
  <2>2. CASE Ticking
    <3>1. ~served /\ DueSince(latest) /\ slowDue
      BY <1>1, <2>2 DEF Timely
    <3>2. now <= latest + Past + config.fast
      BY <1>1, <2>2, <3>1 DEF Timely, Slack, Clocks
    <3>3. until' <= latest + Gap
      BY <1>2, <2>2, <3>2 DEF Gap, Clocks
    <3>4. slowNext > latest + Gap
      BY <2>2, <3>1 DEF DueSince, Spaced, Gap, Clocks
    <3>5. IF fastDue THEN now <= latest + Past + config.fast + AptTimeout
          ELSE fastNext <= latest + Past + config.fast + AptTimeout
      BY <1>1, <2>2, <3>1 DEF Timely, Slack, Clocks
    <3> QED
      BY <1>1, <2>2, <3>3, <3>4, <3>5 DEF Timely, Slack, Gap
  <2> QED
    BY <2>1, <2>2
<1> QED
  BY <1>1, <1>3, <1>4, <1>5 DEF LoopInv, Spaced

\* The tickers are made when the first slow tick ends.
LEMMA SlowEndsKeeps ==
  ASSUME LoopInv, SlowEnds
  PROVE  LoopInv'
<1> USE OverheadType DEF None, Ticking, Ticks, Instant, tickers, published
<1>0. UNCHANGED <<Past, Last>>
  BY DEF SlowEnds, Past, Last
<1>1. LoopTypes'
  BY <1>0 DEF SlowEnds, LoopInv, LoopTypes, Clocks
<1>2. Clocks'
  BY <1>0 DEF SlowEnds, LoopInv, LoopTypes, Clocks
<1>3. ASSUME Spaced PROVE Timely'
  <2> USE <1>3 DEF LoopInv, LoopTypes
  <2>1. /\ phase = "slow" /\ now = until /\ phase' = "idle" /\ served
        /\ UNCHANGED <<now, config, fastDue, slowDue, latest, served>> /\ Past' = Past
        /\ latest \in Nat /\ latest <= now
    BY <1>0 DEF SlowEnds, Clocks
  <2>2. CASE Ticking
    <3>1. UNCHANGED <<fastNext, slowNext>>
      BY <2>2 DEF SlowEnds
    <3> QED
      BY <2>1, <2>2, <3>1 DEF Timely, Slack, DueSince, Gap
  <2>3. CASE ~Ticking
    <3>1. fastNext' = now + config.fast /\ slowNext' = now + config.slow
      BY <2>3 DEF SlowEnds
    <3>2. now <= latest + Past + AptTimeout /\ ~fastDue /\ ~slowDue
      BY <2>1, <2>3 DEF Timely, Clocks
    <3>3. fastNext' <= latest + Gap /\ slowNext' > latest + Gap
      BY <2>1, <3>1, <3>2 DEF Gap, Spaced
    <3> QED
      BY <2>1, <3>1, <3>2, <3>3 DEF Timely, Slack, Gap
  <2> QED
    BY <2>2, <2>3
<1> QED
  BY <1>1, <1>2, <1>3 DEF LoopInv, Spaced, SlowEnds

\* A fast tick begins no later than Gap after the one before it.
LEMMA FastBeginsKeeps ==
  ASSUME LoopInv, FastBegins
  PROVE  LoopInv'
<1> USE OverheadType DEF None, Ticking, Ticks, Instant
<1>1. /\ phase = "idle" /\ phase' = "fast" /\ stamp' = now /\ fastDue' = FALSE
      /\ \/ ~Ticking /\ latest = None
         \/ fastDue /\ DueSince(now)
      /\ UNCHANGED <<now, input, config, fastNext, slowNext, slowDue, latest, latestExcess,
                     served, Past>>
  BY DEF FastBegins, DueSince, published, Past
<1>2. /\ now \in Nat /\ until' \in Nat /\ now <= until' /\ until' <= now + Last'
      /\ Last' \in 0..LongestTick /\ excess' \in 0..Excess(Mounts)
  <2>1. PICK zoneAnswers \in BOOLEAN, outcome \in [Invocations -> Outcomes], stalls \in 0..Mounts :
               /\ excess' = Excess(stalls)
               /\ until' = now + Cardinality(Hung(zoneAnswers, outcome)) * VcgencmdTimeout
                              + stalls * StatfsTimeout
    BY DEF FastBegins, Fates
  <2> DEFINE d == Cardinality(Hung(zoneAnswers, outcome)) * VcgencmdTimeout
             stall == stalls * StatfsTimeout
  <2>2. d \in Nat /\ stall \in Nat /\ d + stall <= TickOf(Excess(stalls))
    BY TickOverhead
  <2>3. until' = now + d + stall
    BY <2>1
  <2>4. /\ Excess(stalls) \in 0..Excess(Mounts) /\ Last' = TickOf(Excess(stalls))
        /\ TickOf(Excess(stalls)) \in 0..LongestTick
    BY <2>1, TickOverhead, TickType DEF Last
  <2> HIDE DEF d, stall
  <2> QED
    BY <2>1, <2>2, <2>3, <2>4 DEF LoopInv, LoopTypes
<1>3. LoopTypes'
  BY <1>1, <1>2 DEF LoopInv, LoopTypes
<1>4. Clocks'
  <2>1. stamp' = now /\ now' = now /\ Last' \in Int
    BY <1>1, <1>2
  <2>2. stamp' # None /\ until' # None /\ phase' = "fast" /\ stamp' <= now' /\ now' <= until'
    BY <1>1, <1>2
  <2>3. until' <= stamp' + Last'
    BY <1>2, <2>1
  <2>4. ~Ticking => latest = None
    BY <1>1 DEF LoopInv, Clocks
  <2>5. UNCHANGED <<Ticking, now, latest, fastNext, slowNext, slowDue, config>> /\ ~fastDue'
    BY <1>1
  <2> QED
    BY <2>2, <2>3, <2>4, <2>5 DEF LoopInv, Clocks
<1>5. Spaced => Timely'
  BY <1>1, <1>2 DEF LoopInv, LoopTypes, Clocks, Timely, Spaced, Slack, DueSince, Gap
<1> QED
  BY <1>1, <1>3, <1>4, <1>5 DEF LoopInv, Spaced

\* A process that starts has no snapshot, and no tickers.
LEMMA StartKeeps ==
  ASSUME LoopInv, Start
  PROVE  LoopInv'
<1> USE DEF None, Ticking, Ticks, Instant, tickers
<1>1. /\ phase = "loading" /\ phase' \in {"ended", "idle"}
      /\ UNCHANGED <<now, stamp, until, excess, tickers, latest, latestExcess, served, Past, Last>>
      /\ config' \in {config, Configured(Loaded.config)}
  BY DEF Start, published, Past, Last
<1>2. Loaded.config \in Config
  BY <1>1, InputsAssumption DEF LoopInv, LoopTypes, Loaded
<1>3. /\ config' \in [poll: Int, fast: Nat, slow: Nat, derived: BOOLEAN, staleness: Int]
      /\ config'.derived => config'.staleness = Wrapped(3 * config'.poll + 2 * Overhead)
  BY <1>1, <1>2, ConfiguredType DEF LoopInv, LoopTypes
<1>4. Overhead' = Overhead
  BY DEF Overhead
<1>5. LoopTypes'
  BY <1>1, <1>3, <1>4 DEF LoopInv, LoopTypes
<1>6. Clocks' /\ Timely'
  BY <1>1 DEF LoopInv, LoopTypes, Clocks, Timely
<1> QED
  BY <1>5, <1>6 DEF LoopInv

\* The invariant holds throughout.
LEMMA LoopInvariant == Spec => []LoopInv
<1>1. Init => LoopInv
  <2> SUFFICES ASSUME LoopInit PROVE LoopInv
    BY DEF Init
  <2>1. config = NoConfig /\ ~config.derived
    BY DEF LoopInit, NoConfig
  <2>2. config \in [poll: Int, fast: Nat, slow: Nat, derived: BOOLEAN, staleness: Int]
    BY <2>1 DEF NoConfig
  <2>3. Past \in 0..LongestTick /\ Last \in 0..LongestTick
    <3>1. 0 \in 0..Excess(Mounts)
      BY OverheadType DEF Excess
    <3> QED
      BY <3>1, TickType DEF LoopInit, Past, Last
  <2>4. LoopTypes
    <3>1. excess \in 0..Excess(Mounts) /\ latestExcess \in 0..Excess(Mounts)
      BY OverheadType DEF LoopInit, Excess
    <3> QED
      BY <2>1, <2>2, <2>3, <3>1 DEF LoopInit, LoopTypes, Instant, Ticks, None
  <2>5. Clocks /\ Timely
    BY DEF LoopInit, Clocks, Timely, Ticking
  <2> QED
    BY <2>4, <2>5 DEF LoopInv
<1>2. LoopInv /\ [Next]_<<lvars, svars>> => LoopInv'
  <2> SUFFICES ASSUME LoopInv, [Next]_<<lvars, svars>> PROVE LoopInv'
    OBVIOUS
  <2>1. CASE UNCHANGED lvars
    <3>1. UNCHANGED <<Past, Last>>
      BY <2>1 DEF lvars, Past, Last
    <3> QED
      BY <2>1, <3>1 DEF lvars, LoopInv, LoopTypes, Clocks, Timely, Spaced, Slack, DueSince, Gap, Ticking
  <2> QED
    BY <2>1, PassKeeps, FastFiresKeeps, SlowFiresKeeps, FastEndsKeeps, SlowBeginsKeeps,
       SlowEndsKeeps, FastBeginsKeeps, StartKeeps DEF Next, HardwareStep
<1> QED
  BY <1>1, <1>2, PTL DEF Spec

\* UsableConfig holds of every behaviour, whatever the layers give.
THEOREM ValidConfigIsUsable == Spec => []UsableConfig
<1>1. LoopInv => UsableConfig
  <2> SUFFICES ASSUME LoopInv, phase = "loading", ~Loaded.error, ~Loaded.version
               PROVE  LET c == Loaded.config
                          capacity == HistoryCapacity(c)
                      IN  /\ capacity \in 1..MaxHistoryCapacity
                          /\ capacity = 1 \/ capacity * c.poll_interval <= c.history_window
                          /\ (capacity + 1) * c.poll_interval > c.history_window
                          /\ Representable(c) => AllowsForATick(c)
    BY DEF UsableConfig, Accepted
  <2>1. Loaded.config \in Config
    BY InputsAssumption DEF LoopInv, LoopTypes, Loaded
  <2>2. Validate(Loaded.config)
    BY DEF Loaded, Load
  <2> QED
    BY <2>1, <2>2, ValidIsUsable
<1> QED
  BY <1>1, LoopInvariant, PTL

\* NotMistakenForStalled holds of every behaviour: a snapshot is at most Gap and the tick
\* that replaces it old, which the derived bound and what it does not budget for cover.
THEOREM HungIsNotStalled == Spec => []NotMistakenForStalled
<1>1. LoopInv => NotMistakenForStalled
  <2> SUFFICES ASSUME LoopInv, config.derived, latest # None, Spaced
               PROVE  now - latest <= config.staleness + Unbudgeted * StatfsTimeout
    BY DEF NotMistakenForStalled
  <2> USE OverheadType DEF LoopInv, LoopTypes, Instant, None
  <2>1. latest \in Nat /\ now \in Nat /\ config.fast \in Nat
    OBVIOUS
  <2>2. now <= latest + Gap + (IF phase = "fast" THEN Last ELSE 0)
    <3>1. CASE phase = "fast"
      BY <3>1 DEF Clocks, Timely, Gap, Ticking
    <3>2. CASE phase = "slow"
      BY <3>2 DEF Clocks, Timely, Gap, Ticking
    <3>3. CASE phase = "idle"
      BY <3>3 DEF Clocks, Timely, Gap, Slack, Ticking
    <3> QED
      BY <3>1, <3>2, <3>3 DEF Clocks, Ticks
  <2>3. config.staleness = 3 * config.fast + 2 * Overhead
    <3>1. /\ 3 * config.fast + 2 * Overhead \in 0..MaxDuration
          /\ config.staleness = Wrapped(3 * config.fast + 2 * Overhead)
      BY ConfigAssumption DEF Spaced, Overhead
    <3> QED
      BY <3>1, WrappedFits
  <2> DEFINE e == latestExcess
             f == IF phase = "fast" THEN excess ELSE 0
  <2>4. e \in Nat /\ f \in Nat /\ Unbudgeted = e + f
    <3>1. Excess(Mounts) \in Nat
      BY DEF Excess
    <3> QED
      BY <3>1 DEF Unbudgeted
  <2>5. Past = Overhead + e * StatfsTimeout
    BY DEF Past, TickOf
  <2>6. (IF phase = "fast" THEN Last ELSE 0) <= Overhead + f * StatfsTimeout
    BY DEF Last, TickOf
  <2> HIDE DEF e, f
  <2>7. /\ Unbudgeted * StatfsTimeout = e * StatfsTimeout + f * StatfsTimeout
        /\ e * StatfsTimeout \in Nat /\ f * StatfsTimeout \in Nat
    BY <2>4
  <2>8. AptTimeout <= 2 * config.fast
    BY DEF Spaced
  <2>9. Last \in Nat /\ Past \in Nat
    OBVIOUS
  <2> QED
    BY <2>1, <2>2, <2>3, <2>5, <2>6, <2>7, <2>8, <2>9 DEF Gap
<1> QED
  BY <1>1, LoopInvariant, PTL

-----------------------------------------------------------------------------
\* What the sensors read.

\* The zone is of the best type there is.
Best ==
  \A i \in DOMAIN Preferred : (\E z \in DOMAIN zones : zones[z] = Preferred[i]) =>
    \E j \in 1..i : zones[zone] = Preferred[j]

\* A source that is there and was not found came after the last search.
Searched ==
  /\ zones \in ZoneLists
  /\ {lastZoneDetect, lastDetect} \subseteq Nat /\ {zonesSince, vcgencmdSince} \subseteq Int
  /\ lastZoneDetect <= now /\ lastDetect <= now
  /\ zone \notin DOMAIN zones /\ DOMAIN zones # {} => lastZoneDetect <= zonesSince
  /\ vcgencmd /\ ~detected => lastDetect <= vcgencmdSince
  /\ pmicUnsupported => ~pmic
  /\ zone # None /\ zonesSince < lastZoneDetect => Best

SensorInv == LoopTypes /\ stamp <= now /\ Searched /\ ReadingsComplete

\* Zones are numbered from 1, so that None is not one.
LEMMA NoneIsNoZone == zones \in ZoneLists => DOMAIN zones \subseteq Nat /\ None \notin DOMAIN zones
BY SensorsAssumption DEF None

\* The zone that findCPUThermalZone finds.
LEMMA FoundIsBest ==
  ASSUME NEW z \in FindCPUThermalZone
  PROVE  /\ z \in DOMAIN zones
         /\ \A i \in DOMAIN Preferred : (\E y \in DOMAIN zones : zones[y] = Preferred[i]) =>
              \E j \in 1..i : zones[z] = Preferred[j]
<1> DEFINE ofType(i) == {y \in DOMAIN zones : zones[y] = Preferred[i]}
           ranks == {i \in DOMAIN Preferred : ofType(i) # {}}
<1>1. CASE ranks = {}
  BY <1>1 DEF FindCPUThermalZone
<1>2. CASE ranks # {}
  <2>1. PICK r \in ranks : (\A q \in ranks : r <= q) /\ z \in ofType(r)
    BY <1>2 DEF FindCPUThermalZone
  <2>2. ASSUME NEW i \in DOMAIN Preferred, NEW y \in DOMAIN zones, zones[y] = Preferred[i]
        PROVE  \E j \in 1..i : zones[z] = Preferred[j]
    <3>1. i \in ranks
      BY <2>2
    <3>2. r <= i /\ r \in Nat \ {0} /\ i \in Nat \ {0}
      BY <2>1, <3>1, SensorsAssumption
    <3> QED
      BY <2>1, <3>2
  <2> QED
    BY <2>1, <2>2
<1> QED
  BY <1>1, <1>2

\* A tick searches for what is not there, unless it did so lately.
LEMMA ReadKeeps ==
  ASSUME SensorInv, NEW zoneAnswers \in BOOLEAN, NEW outcome \in [Invocations -> Outcomes],
         ReadSensors(now, zoneAnswers, outcome), now' = now, stamp' = now
  PROVE  Searched' /\ ReadingsComplete'
<1> USE DEF SensorInv, LoopTypes
<1>1. /\ UNCHANGED <<zones, vcgencmd, pmic, zonesSince, vcgencmdSince>>
      /\ RedetectZone(now) /\ RedetectVcgencmd(now)
  BY DEF ReadSensors, hardware
<1>2. DetectRetryInterval \in Nat \ {0} /\ None \notin DOMAIN zones
  BY NoneIsNoZone, SensorsAssumption DEF Searched
<1>3. /\ lastZoneDetect' \in Nat /\ lastZoneDetect' <= now
      /\ zone' \notin DOMAIN zones /\ DOMAIN zones # {} => lastZoneDetect' <= zonesSince
      /\ zone' = None /\ DOMAIN zones # {} =>
           lastZoneDetect' <= zonesSince /\ now - lastZoneDetect' < DetectRetryInterval
      /\ zone' # None /\ zonesSince < lastZoneDetect' => Best'
  <2>1. CASE zone \notin DOMAIN zones /\ Due(lastZoneDetect, now)
    <3>1. lastZoneDetect' = now /\ (DOMAIN zones # {} => zone' \in FindCPUThermalZone)
          /\ (DOMAIN zones = {} => zone' = None)
      BY <1>1, <2>1 DEF RedetectZone
    <3>2. CASE DOMAIN zones = {}
      BY <1>2, <3>1, <3>2
    <3>3. CASE DOMAIN zones # {}
      <4>1. zone' \in DOMAIN zones /\ Best'
        BY <1>1, <3>1, <3>3, FoundIsBest DEF Best
      <4> QED
        BY <1>2, <3>1, <4>1
    <3> QED
      BY <3>2, <3>3
  <2>2. CASE zone \in DOMAIN zones
    <3>1. lastZoneDetect' = lastZoneDetect /\ zone' = zone
      BY <1>1, <2>2 DEF RedetectZone
    <3>2. Best => Best'
      BY <1>1, <3>1 DEF Best
    <3> QED
      BY <1>2, <2>2, <3>1, <3>2 DEF Searched
  <2>3. CASE zone \notin DOMAIN zones /\ ~Due(lastZoneDetect, now)
    <3>1. lastZoneDetect' = lastZoneDetect /\ zone' = None /\ now - lastZoneDetect < DetectRetryInterval
      BY <1>1, <1>2, <2>3 DEF RedetectZone, Due, Searched
    <3> QED
      BY <2>3, <3>1 DEF Searched
  <2> QED
    BY <2>1, <2>2, <2>3
<1>4. /\ lastDetect' \in Nat /\ lastDetect' <= now
      /\ vcgencmd /\ ~detected' =>
           lastDetect' <= vcgencmdSince /\ now - lastDetect' < DetectRetryInterval
  <2>1. lastDetect \in Nat /\ lastDetect <= now /\ (vcgencmd /\ ~detected => lastDetect <= vcgencmdSince)
    BY DEF Searched
  <2>2. CASE ~detected /\ Due(lastDetect, now)
    <3>1. lastDetect' = now /\ (vcgencmd => detected')
      BY <1>1, <2>2 DEF RedetectVcgencmd
    <3> QED
      BY <3>1
  <2>3. CASE detected
    <3>1. lastDetect' = lastDetect /\ detected'
      BY <1>1, <2>3 DEF RedetectVcgencmd
    <3> QED
      BY <2>1, <3>1
  <2>4. CASE ~detected /\ ~Due(lastDetect, now)
    <3>1. lastDetect' = lastDetect /\ now - lastDetect < DetectRetryInterval
      BY <1>1, <1>2, <2>1, <2>4 DEF RedetectVcgencmd, Due
    <3> QED
      BY <2>1, <2>4, <3>1
  <2> QED
    BY <2>2, <2>3, <2>4
<1>5. pmicUnsupported' => ~pmic
  BY DEF ReadSensors, Unsupported, Searched
<1>6. /\ "zone" \in missed' => zone' = None /\ DOMAIN zones # {}
      /\ missed' \intersect Invocations # {} => vcgencmd /\ ~detected'
  <2>1. ~("zone" \in Invocations)
    BY DEF Invocations
  <2>2. "zone" \in missed' => zone' = None /\ DOMAIN zones # {}
    BY <2>1 DEF ReadSensors, Answering
  <2>3. ASSUME NEW i \in missed' \intersect Invocations PROVE vcgencmd /\ ~detected'
    <3>1. /\ i \in Answering(outcome) /\ (i # "throttled" => Temperature(zoneAnswers))
          /\ (i = "pmic" => pmic) /\ i \notin Asked(zoneAnswers)
      BY <2>1, <2>3 DEF ReadSensors
    <3> QED
      BY <2>3, <3>1 DEF Answering, Asked, Searched
  <2> QED
    BY <2>2, <2>3
<1>7. Searched'
  BY <1>1, <1>3, <1>4, <1>5 DEF Searched
<1>8. {zonesSince, vcgencmdSince} \subseteq Int /\ now \in Nat
  BY DEF Searched
<1>9. ReadingsComplete'
  BY <1>1, <1>2, <1>3, <1>4, <1>6, <1>8 DEF ReadingsComplete, Best
<1> QED
  BY <1>7, <1>9

\* A change of the hardware is the latest thing that happened.
LEMMA HardwareKeeps ==
  ASSUME SensorInv, HardwareStep
  PROVE  SensorInv'
<1>1. /\ UNCHANGED lvars /\ now \in Nat /\ DetectRetryInterval \in Nat \ {0}
      /\ UNCHANGED <<detection, missed>> /\ pmic' = pmic
  BY SensorsAssumption DEF HardwareStep, ZonesChange, VcgencmdChanges, SensorInv, LoopTypes
<1>2. LoopTypes' /\ stamp' <= now'
  <2>1. UNCHANGED <<Past, Last>>
    BY <1>1 DEF lvars, Past, Last
  <2> QED
    BY <1>1, <2>1 DEF lvars, SensorInv, LoopTypes
<1>3. stamp \in Int /\ stamp <= now
  BY DEF SensorInv, LoopTypes, Instant, None
<1>4. CASE ZonesChange(now)
  BY <1>1, <1>2, <1>3, <1>4 DEF ZonesChange, SensorInv, Searched, ReadingsComplete, lvars, detection, Best
<1>5. CASE VcgencmdChanges(now)
  BY <1>1, <1>2, <1>3, <1>5 DEF VcgencmdChanges, SensorInv, Searched, ReadingsComplete, lvars, detection, Best
<1> QED
  BY <1>4, <1>5 DEF HardwareStep

\* ReadingsComplete holds of every behaviour: what can be read is read, but for what
\* came within the last DetectRetryInterval (temperature.go, vcgencmd.go).
THEOREM NothingIsMissedForLong == Spec => []ReadingsComplete
<1>1. Init => Searched /\ stamp <= now /\ ReadingsComplete
  <2> SUFFICES ASSUME Init PROVE Searched /\ stamp <= now /\ ReadingsComplete
    OBVIOUS
  <2> USE DEF Init, LoopInit, SensorsInit, None
  <2>1. DetectRetryInterval \in Nat \ {0} /\ -DetectRetryInterval \in Int
    BY SensorsAssumption
  <2>2. zone # None => Best /\ zone \in DOMAIN zones
    BY FoundIsBest DEF Best
  <2>3. zone \notin DOMAIN zones => DOMAIN zones = {}
    BY <2>2, FoundIsBest
  <2>4. Searched
    BY <2>1, <2>2, <2>3 DEF Searched
  <2> QED
    BY <2>2, <2>4 DEF ReadingsComplete, Best
<1>2. SensorInv /\ LoopInv /\ LoopInv' /\ [Next]_<<lvars, svars>> => SensorInv'
  <2> SUFFICES ASSUME SensorInv, LoopInv, LoopTypes', [Next]_<<lvars, svars>> PROVE SensorInv'
    BY DEF LoopInv
  <2>1. CASE FastBegins
    <3>1. now' = now /\ stamp' = now /\ now \in Nat
      BY <2>1 DEF FastBegins, SensorInv, LoopTypes
    <3>2. Searched' /\ ReadingsComplete'
      BY <2>1, <3>1, ReadKeeps DEF FastBegins, Fates
    <3> QED
      BY <3>1, <3>2 DEF SensorInv
  <2>2. CASE HardwareStep
    BY <2>2, HardwareKeeps
  <2>3. CASE UNCHANGED svars /\ UNCHANGED stamp /\ now <= now' /\ now' \in Nat
    BY <2>3 DEF SensorInv, LoopTypes, Instant, None, Searched, ReadingsComplete, Best, svars, hardware, detection
  <2>4. CASE Pass
    <3>1. now <= now' /\ now' \in Nat
      BY <2>4 DEF Pass, Ahead, Ticking, LoopInv, LoopTypes, Clocks, Instant, None
    <3> QED
      BY <2>3, <2>4, <3>1 DEF Pass
  <2>5. now \in Nat
    BY DEF SensorInv, LoopTypes
  <2> QED
    BY <2>1, <2>2, <2>3, <2>4, <2>5
       DEF Next, Start, FastFires, SlowFires, FastEnds, SlowBegins, SlowEnds, lvars
<1>3. SensorInv => ReadingsComplete
  BY DEF SensorInv
<1>4. LoopInv => LoopTypes
  BY DEF LoopInv
<1> QED
  BY <1>1, <1>2, <1>3, <1>4, LoopInvariant, PTL DEF Spec, SensorInv
=============================================================================
