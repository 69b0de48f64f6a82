---------------------------- MODULE AlertEngine ----------------------------
(***************************************************************************)
(* The alert engine (internal/alert/alert.go): one debounced level per     *)
(* metric.  Each fast tick hands it one sample; a threshold crossing       *)
(* becomes a transition, and an event, only once the metric has been on    *)
(* the same side of the threshold for the whole window For.                *)
(*                                                                         *)
(* The engine's mutex makes a call of Evaluate one atomic step.  A key is  *)
(* a scalar metric or, for disks, a mountpoint.                            *)
(***************************************************************************)
EXTENDS AlertEvents, FiniteSetsExt, SequencesExt

CONSTANTS ScalarOrder,  \* the scalar metrics, in the order Evaluate visits them
          Mounts,       \* the mountpoints that may come and go
          Values,       \* the readings a metric can have
          Warn, Crit,   \* thresholds of each key
          For,          \* debounce window (0: no debounce)
          Steps,        \* time that may pass between two ticks
          MaxEvents,    \* how many events are retained
          MaxTime       \* bound: the instant of the last tick

Scalars == ToSet(ScalarOrder)
Keys == Scalars \union Mounts

ASSUME ScalarAssumption == ScalarOrder \in Seq(Scalars) /\ Scalars \intersect Mounts = {}
ASSUME ValuesAssumption == Values \subseteq Int
\* config.Validate rejects a warn threshold above its crit threshold.
ASSUME ThresholdAssumption ==
  /\ Warn \in [Keys -> Int] /\ Crit \in [Keys -> Int]
  /\ \A k \in Keys : Warn[k] <= Crit[k]
ASSUME BoundAssumption == For \in Nat /\ MaxTime \in Nat /\ MaxEvents \in Nat \ {0}
ASSUME StepAssumption == Steps \subseteq Nat \ {0}
ASSUME MountsAssumption == IsFiniteSet(Mounts)

VARIABLES now,      \* instant of the last sample
          states,   \* the bookkeeping of each key evaluated so far
          events,   \* the retained events, oldest first
          emitted,  \* the events the last Evaluate returned
          samples   \* history: the samples behind each key's bookkeeping

vars == <<now, states, events, emitted, samples>>

Time == 0..MaxTime

\* One threshold: the side the value is on, and since when.
Boundary == [side: {"above", "below"}, since: Time]

MetricState == [active: Levels, activeSince: Time, warn: Boundary, crit: Boundary]

\* A key without bookkeeping reports no alert.
Level(k) == IF k \in DOMAIN states THEN states[k].active ELSE "ok"

-----------------------------------------------------------------------------

Side(v, x) == IF v >= x THEN "above" ELSE "below"

\* Mutant: the clock of a boundary never restarts.
CrossKeepsClock(b, side, t) == [b EXCEPT !.side = side]

\* The clock of a boundary restarts whenever the value crosses it.
Cross(b, side, t) == IF b.side = side THEN b ELSE [side |-> side, since |-> t]

\* Mutant: one clock for both boundaries, restarted by either crossing.
UpdateSharedClock(k, v, t) ==
  LET sides == [warn |-> Side(v, Warn[k]), crit |-> Side(v, Crit[k])]
  IN  IF k \in DOMAIN states /\ states[k].warn.side = sides.warn
                            /\ states[k].crit.side = sides.crit
      THEN states[k]
      ELSE [active |-> Level(k), activeSince |-> t,
            warn |-> [side |-> sides.warn, since |-> t],
            crit |-> [side |-> sides.crit, since |-> t]]

UpdateThresholdState(k, v, t) ==
  IF k \in DOMAIN states
  THEN [states[k] EXCEPT !.warn = Cross(@, Side(v, Warn[k]), t),
                         !.crit = Cross(@, Side(v, Crit[k]), t)]
  ELSE [active |-> "ok", activeSince |-> t,
        warn |-> [side |-> Side(v, Warn[k]), since |-> t],
        crit |-> [side |-> Side(v, Crit[k]), since |-> t]]

Above(b, t) == b.side = "above" /\ t - b.since >= For
Below(b, t) == b.side = "below" /\ t - b.since >= For

\* Mutant: a recovery from crit always passes through warn.
NextLevelOneRung(st, t) ==
  CASE st.active # "crit" /\ Above(st.crit, t) -> "crit"
    [] st.active = "ok" /\ ~Above(st.crit, t) /\ Above(st.warn, t) -> "warn"
    [] st.active = "warn" /\ ~Above(st.crit, t) /\ Below(st.warn, t) -> "ok"
    [] st.active = "crit" /\ Below(st.crit, t) -> "warn"
    [] OTHER -> st.active

NextLevel(st, t) ==
  CASE st.active # "crit" /\ Above(st.crit, t) -> "crit"
    [] st.active = "ok" /\ ~Above(st.crit, t) /\ Above(st.warn, t) -> "warn"
    [] st.active = "warn" /\ ~Above(st.crit, t) /\ Below(st.warn, t) -> "ok"
    [] st.active = "crit" /\ Below(st.crit, t) ->
         IF Below(st.warn, t) THEN "ok" ELSE "warn"
    [] OTHER -> st.active

EvalMetric(k, v, t) ==
  LET st == UpdateThresholdState(k, v, t)
      next == NextLevel(st, t)
  IN  IF next = st.active THEN st
      ELSE [st EXCEPT !.active = next, !.activeSince = t]

\* Mutants: the state of a vanished disk stays; a failed read forgets the state.
EvaluatedUnpruned(t, reading, dropped) ==
  [k \in DOMAIN states \union DOMAIN reading |->
     IF k \in DOMAIN reading THEN EvalMetric(k, reading[k], t) ELSE states[k]]
EvaluatedForgetful(t, reading, dropped) ==
  [k \in DOMAIN reading |-> EvalMetric(k, reading[k], t)]

\* The bookkeeping after a sample: what was read is evaluated, what was not
\* keeps its state, and a disk missing from an authoritative list is dropped.
Evaluated(t, reading, dropped) ==
  [k \in (DOMAIN states \ dropped) \union DOMAIN reading |->
     IF k \in DOMAIN reading THEN EvalMetric(k, reading[k], t) ELSE states[k]]

\* The history that goes with it: a dropped disk starts over.
Recorded(t, reading, dropped) ==
  [k \in Keys |->
     IF k \in DOMAIN reading THEN samples[k] \union {[at |-> t, value |-> reading[k]]}
     ELSE IF k \in dropped THEN {} ELSE samples[k]]

\* The disk states pruned when `disks` is the authoritative list.
Pruned(disks) == (DOMAIN states \intersect Mounts) \ ToSet(disks)

\* reading maps every key read in this sample to its value; disks is the list
\* of mountpoints in the sample, authoritative if disksValid.  Events come in
\* evaluation order; pruning walks a map, so its events come last in any order.
Evaluate(t, reading, disksValid, disks) ==
  LET dropped == IF disksValid THEN Pruned(disks) ELSE {}
      after(k) == IF k \in DOMAIN reading THEN EvalMetric(k, reading[k], t).active
                  ELSE IF k \in dropped THEN "ok" ELSE Level(k)
      order == ScalarOrder \o disks
      rank(k) == IF k \in ToSet(order) THEN CHOOSE i \in DOMAIN order : order[i] = k
                 ELSE Len(order) + 1
  IN  \E moved \in SetToSeqs({k \in Keys : after(k) # Level(k)}) :
        /\ \A i, j \in DOMAIN moved : i < j => rank(moved[i]) <= rank(moved[j])
        /\ states' = Evaluated(t, reading, dropped)
        /\ emitted' = [i \in DOMAIN moved |->
                         Transition(moved[i], Level(moved[i]), after(moved[i]), t)]
        /\ events' = Newest(events \o emitted', MaxEvents)
        /\ samples' = Recorded(t, reading, dropped)

-----------------------------------------------------------------------------

Init ==
  /\ now = 0
  /\ states = << >>
  /\ events = << >>
  /\ emitted = << >>
  /\ samples = [k \in Keys |-> {}]

\* A fast tick whose disk collection failed: only scalar metrics are read, and
\* any of those may have failed too.
TickWithoutDisks ==
  \E d \in Steps, valid \in SUBSET Scalars :
    /\ now + d <= MaxTime
    /\ now' = now + d
    /\ \E reading \in [valid -> Values] : Evaluate(now + d, reading, FALSE, << >>)

\* A fast tick with a disk list, possibly empty, in any order.
TickWithDisks ==
  \E d \in Steps, valid \in SUBSET Scalars, present \in SUBSET Mounts :
    /\ now + d <= MaxTime
    /\ now' = now + d
    /\ \E reading \in [valid \union present -> Values], disks \in SetToSeqs(present) :
         Evaluate(now + d, reading, TRUE, disks)

Next == TickWithoutDisks \/ TickWithDisks

Spec == Init /\ [][Next]_vars

-----------------------------------------------------------------------------

Sample == [at: Time, value: Values]

TypeOK ==
  /\ now \in Time
  /\ DOMAIN states \subseteq Keys
  /\ states \in [DOMAIN states -> MetricState]
  /\ events \in Seq(Transitions(Keys, Time)) /\ Len(events) <= MaxEvents
  /\ emitted \in Seq(Transitions(Keys, Time))
  /\ samples \in [Keys -> SUBSET Sample]

\* The reference meaning of "sustained": some stretch of at least For, reaching
\* to the newest sample of k, has all its samples in band.  It looks at what
\* was sampled, never at the engine's bookkeeping.
SustainedIn(S, band) ==
  \E first, last \in S :
    /\ last.at - first.at >= For
    /\ \A s \in S : s.at >= first.at => s.value \in band

Sustained(k, band) == SustainedIn(samples[k], band)

WarnBand(k) == {v \in Values : v >= Warn[k]}
CritBand(k) == {v \in Values : v >= Crit[k]}

\* Escalation is prompt (evalMetric): once every sample of the debounce window
\* is at or above crit the level is crit, and once every one is at or above
\* warn it is at least warn, even if the value flapped around crit meanwhile.
PromptEscalation ==
  \A k \in Keys :
    /\ Sustained(k, CritBand(k)) => Level(k) = "crit"
    /\ Sustained(k, WarnBand(k)) => Level(k) # "ok"

\* De-escalation is prompt (evalMetric): once every sample of the window is
\* below crit the level is no longer crit, and once every one is below warn it
\* is ok.
PromptRecovery ==
  \A k \in Keys :
    /\ Sustained(k, Values \ CritBand(k)) => Level(k) # "crit"
    /\ Sustained(k, Values \ WarnBand(k)) => Level(k) = "ok"

\* What may move the level of k in one step: its disk left an authoritative
\* list, or a new sample of it completed a whole window on the other side.
TransitionCause(k) ==
  \/ k \in Mounts /\ samples'[k] = {} /\ Level(k)' = "ok"
  \/ /\ samples'[k] # samples[k]
     /\ CASE Level(k)' = "crit" -> Sustained(k, CritBand(k))'
          [] Level(k)' = "ok" -> Sustained(k, Values \ WarnBand(k))'
          [] Level(k)' = "warn" /\ Level(k) = "ok" -> Sustained(k, WarnBand(k))'
          [] Level(k)' = "warn" /\ Level(k) = "crit" -> Sustained(k, Values \ CritBand(k))'

\* No transition without cause (evalMetric, and the Valid flags of Sample): a
\* level rises only after a whole window at or above its threshold and falls
\* only after a whole window below it; a failed read moves nothing.
NoSpuriousTransition ==
  [][\A k \in Keys : Level(k)' # Level(k) => TransitionCause(k)]_vars

\* The report is coherent (recordEvent, pruneDisks, Report): the retained
\* events of a key form an unbroken chain in time order, and the newest one
\* leads to the level reported now, with the Since it is reported with.
EventChain ==
  LET Next1(i) == {j \in (i + 1)..Len(events) : events[j].key = events[i].key}
  IN  \A i \in 1..Len(events) :
        IF Next1(i) = {}
        THEN /\ events[i].to = Level(events[i].key)
             /\ Level(events[i].key) # "ok" =>
                  states[events[i].key].activeSince = events[i].at
        ELSE LET j == Min(Next1(i))
             IN  events[j].from = events[i].to /\ events[j].at > events[i].at

\* The engine implements AlertLevels: one event for every level that moved,
\* none for one that did not, whatever a sample read, skipped or pruned.
AbstractLevels == INSTANCE AlertLevels WITH level <- [k \in Keys |-> Level(k)]
ImplementsLevels == AbstractLevels!Spec
=============================================================================
