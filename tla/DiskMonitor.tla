---------------------------- MODULE DiskMonitor ----------------------------
(***************************************************************************)
(* Filesystems from /proc/mounts to the report: the disk collector with    *)
(* its statfs timeout and cooldown (internal/collector/disk.go), the       *)
(* per-device history of the collector (recordDeviceHistory in             *)
(* collector.go), and the alert engine they feed.                          *)
(*                                                                         *)
(* The kernel's side of a tick, that is, which filesystems are mounted and *)
(* whether statfs answers, fails or hangs, is chosen anew at every tick.   *)
(***************************************************************************)
EXTENDS AlertEngine, RingBuffer

CONSTANTS Interval,   \* FastInterval
          Timeout,    \* statfsTimeout
          Cooldown,   \* statfsCooldown
          Capacity    \* points a series retains

ASSUME DiskAssumption ==
  /\ ScalarOrder = << >>
  /\ {Interval, Capacity, Cooldown} \subseteq Nat \ {0} /\ Timeout \in Nat

VARIABLES free,      \* instant at which the last tick ended
          badUntil,  \* end of the cooldown of each mountpoint that timed out
          parked,    \* abandoned statfs goroutines of each mountpoint
          series,    \* each disk's history, a ring buffer of the instants of its points
          kernel,    \* history: how the last tick's mounts fared
          stuckAt,   \* history: when statfs last hung on each mountpoint (0: never)
          sightings  \* history: when each disk was reported

dvars == <<vars, free, badUntil, parked, series, kernel, stuckAt, sightings>>

HistoryWindow == Interval * Capacity

\* A mountpoint on cooldown is skipped.
Cooling(m, t) == m \in DOMAIN badUntil /\ t < badUntil[m]

\* Mutants: a hang starts no cooldown; skipping a mount renews its cooldown.
BadUntilNever(t, mounted, hung) == badUntil
BadUntilRenewed(t, mounted, hung) ==
  LET cooling == {m \in mounted : Cooling(m, t)}
  IN  [m \in (DOMAIN badUntil \ mounted) \union cooling \union hung |->
         IF m \in mounted THEN t + Cooldown ELSE badUntil[m]]

\* collectDisk over every mount: a hanging statfs starts a cooldown, an expired
\* one is forgotten.  A mount that is gone keeps its entry.
BadUntil(t, mounted, hung) ==
  LET probed == {m \in mounted : ~Cooling(m, t)}
  IN  [m \in (DOMAIN badUntil \ probed) \union (hung \intersect probed) |->
         IF m \in probed THEN t + Cooldown ELSE badUntil[m]]

\* Mutant: the newest point of the window counts as outside.
StaleEarly(rb, t) == t - NewestIn(rb) >= HistoryWindow

\* evictStaleSeries: a series goes when its newest point leaves the window.
Stale(rb, t) == t - NewestIn(rb) > HistoryWindow

\* recordDeviceHistory.
Series(t, disks) ==
  LET recorded(m) == Add(IF m \in DOMAIN series THEN series[m] ELSE NewRingBuffer(Capacity, 0), t)
      staying == {m \in DOMAIN series \ disks : ~Stale(series[m], t)}
  IN  [m \in disks \union staying |-> IF m \in disks THEN recorded(m) ELSE series[m]]

\* A tick that reads the mounts: each answers, fails or hangs unless it is on
\* cooldown, and every hanging one holds up the tick for the timeout.
Collect(t, mounted, hung, failing) ==
  LET probed == {m \in mounted : ~Cooling(m, t)}
      reported == probed \ (hung \union failing)
  IN  /\ badUntil' = BadUntil(t, mounted, hung)
      /\ parked' = [m \in Mounts |-> parked[m] + IF m \in probed \intersect hung THEN 1 ELSE 0]
      /\ free' = t + Timeout * Cardinality(probed \intersect hung)
      /\ series' = Series(t, reported)
      /\ kernel' = [m \in mounted |-> CASE m \in hung -> "hangs" [] m \in failing -> "fails"
                                        [] OTHER -> "answers"]
      /\ stuckAt' = [m \in Mounts |-> IF m \in probed \intersect hung THEN t ELSE stuckAt[m]]
      /\ sightings' = [m \in Mounts |-> sightings[m] \union IF m \in reported THEN {t} ELSE {}]
      /\ \E reading \in [reported -> Values], disks \in SetToSeqs(reported) :
           Evaluate(t, reading, TRUE, disks)

\* When the next tick may start: the ticker, ticks that overran and the slow
\* ticks between them make the pace irregular, but ticks never overlap.
NextTicks == {t \in {now + d : d \in Steps} : free <= t /\ t <= MaxTime}

DiskTick ==
  \E t \in NextTicks, mounted \in SUBSET Mounts :
    /\ now' = t
    /\ \E hung \in SUBSET mounted : \E failing \in SUBSET (mounted \ hung) :
         Collect(t, mounted, hung, failing)

\* /proc/mounts cannot be read: no disk is evaluated or pruned.
MountsUnreadable ==
  \E t \in NextTicks :
    /\ now' = t /\ free' = t
    /\ series' = Series(t, {})
    /\ kernel' = << >>
    /\ Evaluate(t, << >>, FALSE, << >>)
    /\ UNCHANGED <<badUntil, parked, stuckAt, sightings>>

\* A hanging statfs returns at last, and its goroutines end.
Release ==
  \E m \in Mounts :
    /\ parked[m] > 0
    /\ parked' = [parked EXCEPT ![m] = 0]
    /\ UNCHANGED <<vars, free, badUntil, series, kernel, stuckAt, sightings>>

DiskInit ==
  /\ Init
  /\ free = 0 /\ badUntil = << >> /\ series = << >> /\ kernel = << >>
  /\ parked = [m \in Mounts |-> 0]
  /\ stuckAt = [m \in Mounts |-> 0]
  /\ sightings = [m \in Mounts |-> {}]

DiskNext == DiskTick \/ MountsUnreadable \/ Release

DiskSpec == DiskInit /\ [][DiskNext]_dvars

-----------------------------------------------------------------------------

\* A hung filesystem parks at most one goroutine per cooldown (statfsWithTimeout,
\* markBad), however often it is unmounted, mounted again or skipped.
ParkedBounded == \A m \in Mounts : parked[m] > 0 => (parked[m] - 1) * Cooldown < now

\* A cooldown hides a disk no longer than it has to (collectDisk): a mounted
\* filesystem that answers is missing from a tick only if it hung less than
\* Cooldown before, whatever other filesystems do.
CooldownIsBounded ==
  \A m \in DOMAIN kernel :
    kernel[m] = "answers" /\ now \notin sightings[m] =>
      stuckAt[m] > 0 /\ now - stuckAt[m] < Cooldown

\* A short absence costs no history and a long one frees it
\* (recordDeviceHistory): a disk has a series if and only if it was reported
\* within the window, and the series holds its newest reports of the window.
SeriesCoverWindow ==
  \A m \in Mounts :
    LET recent == {s \in sightings[m] : now - s <= HistoryWindow}
        points == Snapshot(series[m])
    IN  /\ m \in DOMAIN series <=> recent # {}
        /\ recent # {} => \A s \in recent :
             \/ s \in ToSet(points)
             \/ Len(points) = Capacity /\ s < points[1]

\* What alert.go says of disks: only a filesystem that is gone is pruned, and a
\* read that fails or hangs never clears an alert.
ClearedOnlyIfGone ==
  [][\A m \in Mounts :
       Level(m) # "ok" /\ Level(m)' = "ok" =>
         m \notin DOMAIN kernel' \/ Sustained(m, Values \ WarnBand(m))']_dvars
=============================================================================
