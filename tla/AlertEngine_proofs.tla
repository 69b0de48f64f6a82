------------------------ MODULE AlertEngine_proofs ------------------------
(***************************************************************************)
(* Proofs about AlertEngine.  The engine keeps one instant per threshold;  *)
(* the properties speak of the samples themselves.  The invariant that     *)
(* links them is Tracks: the instant is that of the oldest sample of the   *)
(* newest stretch on one side of the threshold.                            *)
(*                                                                         *)
(* Of the events reported, ReportInv: each begins at the level at which    *)
(* the one before it of its key ended, and the last one ended at the       *)
(* level the key is at now.                                                *)
(***************************************************************************)
EXTENDS AlertEngine, FiniteSetTheorems, SequenceTheorems, WellFoundedInduction, TLAPS

\* b describes the newest stretch of the samples S on one side of x.
Tracks(S, b, x) ==
  /\ \E s \in S : s.at = b.since
  /\ \A s \in S : s.at >= b.since => Side(s.value, x) = b.side
  /\ \A s \in S : s.at < b.since =>
       \E r \in S : /\ s.at <= r.at /\ r.at < b.since
                    /\ Side(r.value, x) # b.side

\* The level is the one the transition table leaves behind at every sample.
Settled(S, st) ==
  \A last \in S :
    /\ Above(st.crit, last.at) => st.active = "crit"
    /\ Above(st.warn, last.at) => st.active # "ok"
    /\ Below(st.crit, last.at) => st.active # "crit"
    /\ Below(st.warn, last.at) => st.active = "ok"

StateTypes ==
  /\ now \in Time
  /\ DOMAIN states \subseteq Keys
  /\ states \in [DOMAIN states -> MetricState]
  /\ samples \in [Keys -> SUBSET Sample]

KeyInv(k) ==
  /\ \A s \in samples[k] : s.at <= now
  /\ k \notin DOMAIN states => samples[k] = {}
  /\ k \in DOMAIN states =>
       /\ Tracks(samples[k], states[k].warn, Warn[k])
       /\ Tracks(samples[k], states[k].crit, Crit[k])
       /\ Settled(samples[k], states[k])

IInv == StateTypes /\ \A k \in Keys : KeyInv(k)

-----------------------------------------------------------------------------

\* A sample newer than all others keeps the bookkeeping of a threshold exact
\* (updateThresholdState).
LEMMA CrossTracks ==
  ASSUME NEW S \in SUBSET Sample, NEW b \in Boundary, NEW x \in Int,
         NEW t \in Time, NEW v \in Values,
         \A s \in S : s.at < t, Tracks(S, b, x)
  PROVE  Tracks(S \union {[at |-> t, value |-> v]}, Cross(b, Side(v, x), t), x)
<1> DEFINE new == [at |-> t, value |-> v]
           T == S \union {new}
           c == Cross(b, Side(v, x), t)
<1>0. t \in Int /\ b.since \in Int /\ (\A s \in T : s.at \in Int)
  BY BoundAssumption DEF Sample, Time, Boundary
<1>1. CASE b.side = Side(v, x)
  <2>1. c = b
    BY <1>1 DEF Cross
  <2>2. b.since < t
    BY DEF Tracks
  <2>3. \E s \in T : s.at = b.since
    BY DEF Tracks
  <2>4. \A s \in T : s.at >= b.since => Side(s.value, x) = b.side
    BY <1>1, <1>0 DEF Tracks
  <2>5. \A s \in T : s.at < b.since =>
          \E r \in T : /\ s.at <= r.at /\ r.at < b.since
                       /\ Side(r.value, x) # b.side
    BY <2>2, <1>0 DEF Tracks
  <2> QED
    BY <2>1, <2>3, <2>4, <2>5 DEF Tracks
<1>2. CASE b.side # Side(v, x)
  <2>1. c.side = Side(v, x) /\ c.since = t
    BY <1>2 DEF Cross
  <2>2. \E s \in T : s.at = c.since
    <3>1. new \in T /\ new.at = t
      OBVIOUS
    <3> QED
      BY <3>1, <2>1
  <2>3. \A s \in T : s.at >= c.since => Side(s.value, x) = c.side
    BY <2>1, <1>0
  <2>4. ASSUME NEW s \in T, s.at < c.since
        PROVE  \E r \in T : /\ s.at <= r.at /\ r.at < c.since
                            /\ Side(r.value, x) # c.side
    <3>1. s \in S
      BY <2>4, <2>1, <1>0
    <3>2. CASE s.at >= b.since
      <4>1. Side(s.value, x) = b.side
        BY <3>1, <3>2 DEF Tracks
      <4>2. Side(s.value, x) # c.side
        BY <4>1, <2>1, <1>2, <1>0
      <4> QED
        BY <4>2, <2>4, <1>0
    <3>3. CASE s.at < b.since
      <4>1. PICK r \in S : r.at = b.since
        BY DEF Tracks
      <4>2. Side(r.value, x) = b.side
        BY <4>1, <1>0 DEF Tracks
      <4>3. Side(r.value, x) # c.side
        BY <4>2, <2>1, <1>2, <1>0
      <4> QED
        BY <4>1, <4>3, <3>3, <2>1, <1>0
    <3> QED
      BY <3>2, <3>3, <3>1, <1>0
  <2> QED
    BY <2>2, <2>3, <2>4 DEF Tracks
<1> QED
  BY <1>1, <1>2

\* A first sample starts both boundaries.
LEMMA FirstTracks ==
  ASSUME NEW x \in Int, NEW t \in Time, NEW v \in Values
  PROVE  Tracks({[at |-> t, value |-> v]}, [side |-> Side(v, x), since |-> t], x)
  BY ValuesAssumption, BoundAssumption DEF Tracks, Time

\* What a run of samples on one side means for the bookkeeping.
LEMMA SustainedSide ==
  ASSUME NEW S \in SUBSET Sample, NEW b \in Boundary, NEW x \in Int,
         Tracks(S, b, x), NEW side, NEW first \in S,
         \A s \in S : s.at >= first.at => Side(s.value, x) = side
  PROVE  b.side = side /\ b.since <= first.at
<1>0. b.since \in Int /\ (\A s \in S : s.at \in Int)
  BY BoundAssumption DEF Sample, Time, Boundary
<1>1. CASE b.since <= first.at
  BY <1>0, <1>1 DEF Tracks
<1>2. CASE b.since > first.at
  <2>1. PICK s \in S : s.at = b.since
    BY DEF Tracks
  <2>2. PICK r \in S : /\ first.at <= r.at /\ r.at < b.since
                       /\ Side(r.value, x) # b.side
    BY <1>0, <1>2 DEF Tracks
  <2>3. Side(s.value, x) = side /\ Side(s.value, x) = b.side
    BY <2>1, <1>0, <1>2 DEF Tracks
  <2>4. Side(r.value, x) = side
    BY <2>2, <1>0
  <2> QED
    BY <2>2, <2>3, <2>4
<1> QED
  BY <1>0, <1>1, <1>2

\* Being at crit means being at warn, for at least as long, and being below
\* warn means being below crit, for at least as long.
LEMMA BoundariesAgree ==
  ASSUME NEW S \in SUBSET Sample, NEW w \in Boundary, NEW c \in Boundary,
         NEW x \in Int, NEW y \in Int, x <= y, Tracks(S, w, x), Tracks(S, c, y)
  PROVE  /\ c.side = "above" => w.side = "above" /\ w.since <= c.since
         /\ w.side = "below" => c.side = "below" /\ c.since <= w.since
<1>0. /\ \A s \in S : s.at \in Int
      /\ \A s \in S : s.value \in Int
  <2>1. \A s \in S : s.at \in Time /\ s.value \in Values
    BY DEF Sample
  <2>2. \A s \in S : s.value \in Int
    BY <2>1, ValuesAssumption
  <2>3. \A s \in S : s.at \in Int
    BY <2>1, BoundAssumption DEF Time
  <2> QED
    BY <2>2, <2>3
<1>1. ASSUME c.side = "above"
      PROVE  w.side = "above" /\ w.since <= c.since
  <2>1. PICK first \in S : first.at = c.since
    BY DEF Tracks
  <2>2. \A s \in S : s.at >= first.at => Side(s.value, x) = "above"
    BY <1>0, <1>1, <2>1 DEF Tracks, Side
  <2> QED
    BY <2>1, <2>2, SustainedSide
<1>2. ASSUME w.side = "below"
      PROVE  c.side = "below" /\ c.since <= w.since
  <2>1. PICK first \in S : first.at = w.since
    BY DEF Tracks
  <2>2. \A s \in S : s.at >= first.at => Side(s.value, y) = "below"
    BY <1>0, <1>2, <2>1 DEF Tracks, Side
  <2>3. c.side = "below" /\ c.since <= first.at
    BY <2>2, SustainedSide
  <2> QED
    BY <2>1, <2>3
<1> QED
  BY <1>1, <1>2

-----------------------------------------------------------------------------

\* What one evaluation leaves behind (evalMetric): the boundaries still track
\* the samples, and the level is settled.
LEMMA EvalMetricKeeps ==
  ASSUME StateTypes, NEW k \in Keys, KeyInv(k),
         NEW t \in Time, t > now, NEW v \in Values
  PROVE  LET st == EvalMetric(k, v, t)
             T == samples[k] \union {[at |-> t, value |-> v]}
         IN  /\ st \in MetricState
             /\ Tracks(T, st.warn, Warn[k])
             /\ Tracks(T, st.crit, Crit[k])
             /\ Settled(T, st)
<1> DEFINE S == samples[k]
           T == S \union {[at |-> t, value |-> v]}
           up == UpdateThresholdState(k, v, t)
           st == EvalMetric(k, v, t)
<1>0. /\ Warn[k] \in Int /\ Crit[k] \in Int /\ Warn[k] <= Crit[k]
      /\ S \in SUBSET Sample /\ T \in SUBSET Sample
      /\ now \in Int /\ t \in Int /\ (\A s \in T : s.at \in Int)
      /\ \A s \in S : s.at < t
  <2>1. S \in SUBSET Sample /\ T \in SUBSET Sample
    BY DEF StateTypes, Sample
  <2>2. now \in Int /\ t \in Int /\ (\A s \in Sample : s.at \in Int)
    BY BoundAssumption DEF StateTypes, Time, Sample
  <2>3. \A s \in S : s.at < t
    BY <2>1, <2>2 DEF KeyInv
  <2>4. Warn[k] \in Int /\ Crit[k] \in Int /\ Warn[k] <= Crit[k]
    BY ThresholdAssumption
  <2> QED
    BY <2>1, <2>2, <2>3, <2>4
<1>1. /\ up.active \in Levels /\ up.activeSince \in Time
      /\ up.warn \in Boundary /\ up.crit \in Boundary
      /\ Tracks(T, up.warn, Warn[k]) /\ Tracks(T, up.crit, Crit[k])
      /\ up \in MetricState
  <2>1. CASE k \in DOMAIN states
    <3>1. /\ states[k] \in MetricState
          /\ states[k].warn \in Boundary /\ states[k].crit \in Boundary
          /\ Tracks(S, states[k].warn, Warn[k])
          /\ Tracks(S, states[k].crit, Crit[k])
      BY <2>1 DEF StateTypes, KeyInv, MetricState
    <3>2. /\ up.warn = Cross(states[k].warn, Side(v, Warn[k]), t)
          /\ up.crit = Cross(states[k].crit, Side(v, Crit[k]), t)
          /\ up.active = states[k].active
          /\ up.activeSince = states[k].activeSince
      BY <2>1, <3>1 DEF UpdateThresholdState, MetricState
    <3>3. Tracks(T, up.warn, Warn[k]) /\ Tracks(T, up.crit, Crit[k])
      BY <3>1, <3>2, <1>0, CrossTracks
    <3>4. /\ Cross(states[k].warn, Side(v, Warn[k]), t) \in Boundary
          /\ Cross(states[k].crit, Side(v, Crit[k]), t) \in Boundary
      BY <3>1 DEF Cross, Side, Boundary
    <3>5. up \in MetricState
      BY <2>1, <3>1, <3>4 DEF UpdateThresholdState, MetricState
    <3> QED
      BY <3>1, <3>2, <3>3, <3>4, <3>5 DEF MetricState
  <2>2. CASE k \notin DOMAIN states
    <3>1. T = {[at |-> t, value |-> v]}
      BY <2>2 DEF KeyInv
    <3>2. /\ up.warn = [side |-> Side(v, Warn[k]), since |-> t]
          /\ up.crit = [side |-> Side(v, Crit[k]), since |-> t]
          /\ up.active = "ok" /\ up.activeSince = t
      BY <2>2 DEF UpdateThresholdState
    <3>3. Tracks(T, up.warn, Warn[k]) /\ Tracks(T, up.crit, Crit[k])
      BY <3>1, <3>2, <1>0, FirstTracks
    <3>4. up.warn \in Boundary /\ up.crit \in Boundary
      BY <3>2 DEF Side, Boundary
    <3>5. up \in MetricState
      BY <2>2, <3>2, <3>4 DEF UpdateThresholdState, MetricState, Levels
    <3> QED
      BY <3>2, <3>3, <3>4, <3>5 DEF Levels
  <2> QED
    BY <2>1, <2>2
<1>2. /\ st.warn = up.warn /\ st.crit = up.crit
      /\ st.active = NextLevel(up, t)
      /\ st \in MetricState
  <2>1. NextLevel(up, t) \in Levels
    BY <1>1 DEF NextLevel, Levels
  <2> QED
    BY <2>1, <1>1 DEF EvalMetric, MetricState
<1>3. /\ Above(st.crit, t) => st.active = "crit"
      /\ Above(st.warn, t) => st.active # "ok"
      /\ Below(st.crit, t) => st.active # "crit"
      /\ Below(st.warn, t) => st.active = "ok"
  <2>1. /\ up.crit.side = "above" => up.warn.side = "above" /\ up.warn.since <= up.crit.since
        /\ up.warn.side = "below" => up.crit.side = "below" /\ up.crit.since <= up.warn.since
    BY <1>0, <1>1, BoundariesAgree
  <2>2. up.crit.since \in Int /\ up.warn.since \in Int /\ For \in Int
    BY <1>1, BoundAssumption DEF Boundary, Time
  <2> QED
    BY <1>0, <1>1, <1>2, <2>1, <2>2 DEF NextLevel, Above, Below, Levels
<1>4. Settled(T, st)
  <2> SUFFICES ASSUME NEW last \in T
               PROVE  /\ Above(st.crit, last.at) => Above(st.crit, t)
                      /\ Above(st.warn, last.at) => Above(st.warn, t)
                      /\ Below(st.crit, last.at) => Below(st.crit, t)
                      /\ Below(st.warn, last.at) => Below(st.warn, t)
    BY <1>3 DEF Settled
  <2>1. last.at <= t /\ last.at \in Int
    BY <1>0
  <2>2. st.crit.since \in Int /\ st.warn.since \in Int /\ For \in Int
    BY <1>1, <1>2, BoundAssumption DEF Boundary, Time
  <2> QED
    BY <1>0, <2>1, <2>2 DEF Above, Below
<1> QED
  BY <1>1, <1>2, <1>4

-----------------------------------------------------------------------------

\* A sequence in SetToSeqs(S) lists exactly the elements of S.
LEMMA PermutationCovers ==
  ASSUME NEW S, IsFiniteSet(S), NEW q \in SetToSeqs(S)
  PROVE  ToSet(q) = S /\ q \in Seq(S)
<1> DEFINE n == Cardinality(S)
<1>1. n \in Nat
  BY FS_CardinalityType
<1>2. q \in [1..n -> S] /\ \A i, j \in 1..n : i # j => q[i] # q[j]
  BY DEF SetToSeqs
<1>3. IsInjective(q) /\ q \in Injection(1..n, S)
  BY <1>2 DEF IsInjective, Injection
<1>4. q \in Surjection(1..n, S)
  <2>1. IsFiniteSet(1..n) /\ Cardinality(1..n) = n
    BY <1>1, FS_Interval
  <2> QED
    BY <1>3, <2>1, FS_Injection
<1>5. ToSet(q) = S
  BY <1>2, <1>4 DEF ToSet, Surjection
<1>6. q \in Seq(S)
  BY <1>1, <1>2
<1> QED
  BY <1>5, <1>6

\* Every tick is one evaluation: at a later instant, of some keys, with some
\* disks dropped that were not read.
LEMMA TickIsEvaluation ==
  ASSUME StateTypes, Next
  PROVE  \E t \in Time, valid \in SUBSET Keys, dropped \in SUBSET Mounts :
           \E reading \in [valid -> Values] :
             /\ t > now /\ now' = t
             /\ dropped \intersect valid = {}
             /\ states' = Evaluated(t, reading, dropped)
             /\ samples' = Recorded(t, reading, dropped)
<1>0. /\ now \in Nat /\ MaxTime \in Nat
      /\ \A d \in Steps : d \in Nat /\ d > 0
  BY BoundAssumption, StepAssumption DEF StateTypes, Time
<1>1. CASE TickWithoutDisks
  <2>1. PICK d \in Steps, valid \in SUBSET Scalars :
          /\ now + d <= MaxTime /\ now' = now + d
          /\ \E reading \in [valid -> Values] :
               Evaluate(now + d, reading, FALSE, << >>)
    BY <1>1 DEF TickWithoutDisks
  <2>2. PICK reading \in [valid -> Values] :
          Evaluate(now + d, reading, FALSE, << >>)
    BY <2>1
  <2>3. /\ states' = Evaluated(now + d, reading, {})
        /\ samples' = Recorded(now + d, reading, {})
    BY <2>2 DEF Evaluate
  <2>4. now + d \in Time /\ now + d > now
    BY <1>0, <2>1 DEF Time
  <2>5. valid \in SUBSET Keys /\ {} \in SUBSET Mounts
    BY DEF Keys
  <2> QED
    BY <2>1, <2>2, <2>3, <2>4, <2>5
<1>2. CASE TickWithDisks
  <2>1. PICK d \in Steps, valid \in SUBSET Scalars, present \in SUBSET Mounts :
          /\ now + d <= MaxTime /\ now' = now + d
          /\ \E reading \in [valid \union present -> Values], disks \in SetToSeqs(present) :
               Evaluate(now + d, reading, TRUE, disks)
    BY <1>2 DEF TickWithDisks
  <2>2. PICK reading \in [valid \union present -> Values], disks \in SetToSeqs(present) :
          Evaluate(now + d, reading, TRUE, disks)
    BY <2>1
  <2>3. /\ states' = Evaluated(now + d, reading, Pruned(disks))
        /\ samples' = Recorded(now + d, reading, Pruned(disks))
    BY <2>2 DEF Evaluate
  <2>4. now + d \in Time /\ now + d > now
    BY <1>0, <2>1 DEF Time
  <2>5. ToSet(disks) = present
    <3>1. IsFiniteSet(present)
      BY MountsAssumption, FS_Subset
    <3> QED
      BY <3>1, PermutationCovers
  <2>6. /\ Pruned(disks) \in SUBSET Mounts
        /\ Pruned(disks) \intersect (valid \union present) = {}
    BY <2>5, ScalarAssumption DEF Pruned
  <2>7. valid \union present \in SUBSET Keys
    BY DEF Keys
  <2> QED
    BY <2>1, <2>2, <2>3, <2>4, <2>6, <2>7
<1> QED
  BY <1>1, <1>2 DEF Next

\* An evaluation preserves the invariant of every key.
LEMMA EvaluationKeeps ==
  ASSUME StateTypes, \A k \in Keys : KeyInv(k),
         NEW t \in Time, t > now, now' = t,
         NEW valid \in SUBSET Keys, NEW dropped \in SUBSET Mounts,
         NEW reading \in [valid -> Values], dropped \intersect valid = {},
         states' = Evaluated(t, reading, dropped),
         samples' = Recorded(t, reading, dropped)
  PROVE  StateTypes' /\ \A k \in Keys : KeyInv(k)'
<1>0. now \in Int /\ t \in Int /\ \A s \in Sample : s.at \in Int
  BY BoundAssumption DEF StateTypes, Time, Sample
<1>1. /\ DOMAIN states' = (DOMAIN states \ dropped) \union valid
      /\ \A k \in valid : states'[k] = EvalMetric(k, reading[k], t)
      /\ \A k \in DOMAIN states \ (dropped \union valid) : states'[k] = states[k]
  BY DEF Evaluated
<1>2. /\ \A k \in valid : samples'[k] = samples[k] \union {[at |-> t, value |-> reading[k]]}
      /\ \A k \in dropped : samples'[k] = {}
      /\ \A k \in Keys \ (valid \union dropped) : samples'[k] = samples[k]
  BY DEF Recorded, Keys
<1>3. \A k \in valid :
        /\ states'[k] \in MetricState
        /\ Tracks(samples'[k], states'[k].warn, Warn[k])
        /\ Tracks(samples'[k], states'[k].crit, Crit[k])
        /\ Settled(samples'[k], states'[k])
  <2> TAKE k \in valid
  <2>1. k \in Keys /\ reading[k] \in Values
    OBVIOUS
  <2> DEFINE T == samples[k] \union {[at |-> t, value |-> reading[k]]}
             st == EvalMetric(k, reading[k], t)
  <2>2. KeyInv(k)
    BY <2>1
  <2>3. /\ st \in MetricState
        /\ Tracks(T, st.warn, Warn[k])
        /\ Tracks(T, st.crit, Crit[k])
        /\ Settled(T, st)
    BY <2>1, <2>2, EvalMetricKeeps
  <2>4. states'[k] = st /\ samples'[k] = T
    BY <1>1, <1>2
  <2> QED
    BY <2>3, <2>4
<1>4. StateTypes'
  <2>1. DOMAIN states' \subseteq Keys
    BY <1>1 DEF StateTypes
  <2>2. states' \in [DOMAIN states' -> MetricState]
    <3>1. \A k \in DOMAIN states' : states'[k] \in MetricState
      BY <1>1, <1>3 DEF StateTypes
    <3>2. states' = [k \in DOMAIN states' |-> states'[k]]
      BY <1>1 DEF Evaluated
    <3> QED
      BY <3>1, <3>2
  <2>3. samples' \in [Keys -> SUBSET Sample]
    <3>1. \A k \in Keys : samples'[k] \in SUBSET Sample
      <4> TAKE k \in Keys
      <4>1. k \in valid => [at |-> t, value |-> reading[k]] \in Sample
        BY DEF Sample
      <4> QED
        BY <1>2, <4>1 DEF StateTypes
    <3> QED
      BY <3>1 DEF Recorded
  <2> QED
    BY <2>1, <2>2, <2>3 DEF StateTypes
<1>5. ASSUME NEW k \in Keys
      PROVE  KeyInv(k)'
  <2>1. CASE k \in valid
    <3>1. \A s \in samples'[k] : s.at <= now'
      <4>1. \A s \in samples[k] : s.at <= t
        BY <1>0 DEF KeyInv, StateTypes
      <4> QED
        BY <1>0, <1>2, <2>1, <4>1
    <3> QED
      BY <1>1, <1>3, <2>1, <3>1 DEF KeyInv
  <2>2. CASE k \in dropped
    BY <1>1, <1>2, <2>2 DEF KeyInv
  <2>3. CASE k \notin valid \union dropped
    <3>1. samples'[k] = samples[k] /\ (k \in DOMAIN states' <=> k \in DOMAIN states)
      BY <1>1, <1>2, <2>3
    <3>2. k \in DOMAIN states => states'[k] = states[k]
      BY <1>1, <2>3
    <3>3. \A s \in samples[k] : s.at <= t
      BY <1>0 DEF KeyInv, StateTypes
    <3> QED
      BY <3>1, <3>2, <3>3 DEF KeyInv
  <2> QED
    BY <2>1, <2>2, <2>3
<1> QED
  BY <1>4, <1>5

-----------------------------------------------------------------------------

\* Trimming keeps the elements and enforces the bound (recordEvent).
LEMMA NewestType ==
  ASSUME NEW S, NEW q \in Seq(S), NEW n \in Nat
  PROVE  Newest(q, n) \in Seq(S) /\ Len(Newest(q, n)) <= n
<1>1. Len(q) \in Nat
  OBVIOUS
<1>2. CASE Len(q) <= n
  BY <1>2 DEF Newest
<1>3. CASE Len(q) > n
  <2>1. Newest(q, n) = SubSeq(q, Len(q) - n + 1, Len(q))
    BY <1>1, <1>3 DEF Newest
  <2>2. \A i \in (Len(q) - n + 1)..Len(q) : q[i] \in S
    BY <1>1, <1>3
  <2>3. SubSeq(q, Len(q) - n + 1, Len(q)) \in Seq(S)
    BY <1>1, <1>3, <2>2
  <2>4. Len(SubSeq(q, Len(q) - n + 1, Len(q))) = n
    BY <1>1, <1>3
  <2> QED
    BY <2>1, <2>3, <2>4
<1> QED
  BY <1>1, <1>2, <1>3

LEMMA KeysFinite == IsFiniteSet(Keys)
<1>1. IsFiniteSet(1..Len(ScalarOrder))
  BY ScalarAssumption, FS_Interval, LenProperties
<1>2. ScalarOrder \in Surjection(1..Len(ScalarOrder), Scalars)
  <2>1. ScalarOrder \in [1..Len(ScalarOrder) -> Scalars]
    BY ScalarAssumption
  <2> QED
    BY <2>1 DEF Surjection, Scalars, ToSet
<1>3. IsFiniteSet(Scalars)
  BY <1>1, <1>2, FS_Surjection
<1> QED
  BY <1>3, MountsAssumption, FS_Union DEF Keys

\* The events of a tick are well formed, and the list stays within its bound.
LEMMA EventTypesKept ==
  ASSUME TypeOK, \A k \in Keys : KeyInv(k), NEW t \in Time, t > now,
         NEW valid \in SUBSET Keys, NEW reading \in [valid -> Values],
         NEW disksValid, NEW disks, Evaluate(t, reading, disksValid, disks)
  PROVE  /\ emitted' \in Seq(Transitions(Keys, Time))
         /\ events' \in Seq(Transitions(Keys, Time))
         /\ Len(events') <= MaxEvents
<1> DEFINE dropped == IF disksValid THEN Pruned(disks) ELSE {}
           after(k) == IF k \in valid THEN EvalMetric(k, reading[k], t).active
                       ELSE IF k \in dropped THEN "ok" ELSE Level(k)
           M == {k \in Keys : after(k) # Level(k)}
<1>1. \A k \in Keys : Level(k) \in Levels /\ after(k) \in Levels
  <2> TAKE k \in Keys
  <2>1. Level(k) \in Levels
    BY DEF Level, TypeOK, MetricState, Levels
  <2>2. ASSUME k \in valid
        PROVE  EvalMetric(k, reading[k], t).active \in Levels
    <3>1. StateTypes /\ KeyInv(k) /\ reading[k] \in Values
      BY <2>2 DEF TypeOK, StateTypes
    <3>2. EvalMetric(k, reading[k], t) \in MetricState
      BY <3>1, EvalMetricKeeps
    <3> QED
      BY <3>2 DEF MetricState
  <2> QED
    BY <2>1, <2>2 DEF Levels
<1>2. PICK moved \in SetToSeqs(M) :
        /\ emitted' = [i \in DOMAIN moved |->
                         Transition(moved[i], Level(moved[i]), after(moved[i]), t)]
        /\ events' = Newest(events \o emitted', MaxEvents)
  BY ZenonT(40) DEF Evaluate
<1>3. moved \in Seq(M)
  <2>1. M \in SUBSET Keys
    OBVIOUS
  <2>2. IsFiniteSet(M)
    BY <2>1, KeysFinite, FS_Subset
  <2> QED
    BY <2>2, PermutationCovers
<1>4. emitted' \in Seq(Transitions(Keys, Time))
  <2>1. \A k \in M : Transition(k, Level(k), after(k), t) \in Transitions(Keys, Time)
    BY <1>1 DEF Transition, Transitions, Kind
  <2>2. DOMAIN moved = 1..Len(moved) /\ Len(moved) \in Nat
    BY <1>3
  <2>3. \A i \in 1..Len(moved) : moved[i] \in M
    BY <1>3
  <2> HIDE DEF M, after
  <2> QED
    BY <1>2, <2>1, <2>2, <2>3
<1>5. events \o emitted' \in Seq(Transitions(Keys, Time))
  BY <1>4 DEF TypeOK
<1>6. /\ events' \in Seq(Transitions(Keys, Time))
      /\ Len(events') <= MaxEvents
  BY <1>2, <1>5, NewestType, BoundAssumption
<1> QED
  BY <1>4, <1>6

-----------------------------------------------------------------------------

\* The inductive invariant: well-typed state, and bookkeeping that tracks the
\* samples of every key.
IndInv == TypeOK /\ \A k \in Keys : KeyInv(k)

LEMMA IndInvInit == Init => IndInv
<1> SUFFICES ASSUME Init PROVE IndInv
  OBVIOUS
<1>1. now \in Time
  BY BoundAssumption DEF Init, Time
<1>2. DOMAIN states = {} /\ states \in [DOMAIN states -> MetricState]
  BY DEF Init
<1>3. events = << >> /\ emitted = << >> /\ MaxEvents \in Nat
  BY BoundAssumption DEF Init
<1>4. samples = [k \in Keys |-> {}]
  BY DEF Init
<1>5. TypeOK
  BY <1>1, <1>2, <1>3, <1>4 DEF TypeOK
<1>6. \A k \in Keys : KeyInv(k)
  BY <1>2, <1>4 DEF KeyInv
<1> QED
  BY <1>5, <1>6 DEF IndInv

LEMMA IndInvNext == IndInv /\ [Next]_vars => IndInv'
<1> SUFFICES ASSUME IndInv, [Next]_vars PROVE IndInv'
  OBVIOUS
<1>0. StateTypes /\ TypeOK /\ \A k \in Keys : KeyInv(k)
  BY DEF IndInv, TypeOK, StateTypes
<1>1. CASE Next
  <2>1. StateTypes' /\ (\A k \in Keys : KeyInv(k)')
    BY <1>0, <1>1, TickIsEvaluation, EvaluationKeeps
  <2>2. /\ emitted' \in Seq(Transitions(Keys, Time))
        /\ events' \in Seq(Transitions(Keys, Time))
        /\ Len(events') <= MaxEvents
    <3>0. /\ now \in Nat /\ MaxTime \in Nat
          /\ \A d \in Steps : d \in Nat /\ d > 0
      BY <1>0, BoundAssumption, StepAssumption DEF StateTypes, Time
    <3>1. CASE TickWithoutDisks
      <4>1. PICK d \in Steps, valid \in SUBSET Scalars :
              /\ now + d <= MaxTime
              /\ \E reading \in [valid -> Values] :
                   Evaluate(now + d, reading, FALSE, << >>)
        BY <3>1 DEF TickWithoutDisks
      <4>2. now + d \in Time /\ now + d > now
        BY <3>0, <4>1 DEF Time
      <4> QED
        BY <1>0, <4>1, <4>2, EventTypesKept DEF Keys
    <3>2. CASE TickWithDisks
      <4>1. PICK d \in Steps, valid \in SUBSET Scalars, present \in SUBSET Mounts :
              /\ now + d <= MaxTime
              /\ \E reading \in [valid \union present -> Values],
                    disks \in SetToSeqs(present) :
                   Evaluate(now + d, reading, TRUE, disks)
        BY <3>2 DEF TickWithDisks
      <4>2. now + d \in Time /\ now + d > now
        BY <3>0, <4>1 DEF Time
      <4>3. valid \union present \in SUBSET Keys
        BY DEF Keys
      <4> QED
        BY <1>0, <4>1, <4>2, <4>3, EventTypesKept
    <3> QED
      BY <1>1, <3>1, <3>2 DEF Next
  <2> QED
    BY <2>1, <2>2 DEF IndInv, StateTypes, TypeOK
<1>2. CASE UNCHANGED vars
  BY <1>0, <1>2 DEF IndInv, vars, TypeOK, KeyInv
<1> QED
  BY <1>1, <1>2

LEMMA IndInvariant == Spec => []IndInv
  BY IndInvInit, IndInvNext, PTL DEF Spec

\* Every reachable state of the engine is well typed, and the event list never
\* exceeds its bound (recordEvent's trim).
THEOREM TypeCorrect == Spec => []TypeOK
<1>1. IndInv => TypeOK
  BY DEF IndInv
<1> QED
  BY <1>1, IndInvariant, PTL

-----------------------------------------------------------------------------

\* A stretch of at least For on one side of a threshold is a confirmed boundary.
LEMMA SustainedConfirms ==
  ASSUME IndInv, NEW k \in Keys, NEW first \in samples[k], NEW last \in samples[k],
         last.at - first.at >= For, NEW b \in Boundary, NEW x \in Int,
         Tracks(samples[k], b, x), NEW side,
         \A s \in samples[k] : s.at >= first.at => Side(s.value, x) = side
  PROVE  b.side = side /\ last.at - b.since >= For
<1> DEFINE S == samples[k]
<1>1. S \in SUBSET Sample
  BY DEF IndInv, TypeOK
<1>2. b.side = side /\ b.since <= first.at
  <2>1. /\ first \in S /\ Tracks(S, b, x)
        /\ \A s \in S : s.at >= first.at => Side(s.value, x) = side
    OBVIOUS
  <2> HIDE DEF S
  <2> QED
    BY <1>1, <2>1, SustainedSide
<1>3. /\ first.at \in Int /\ last.at \in Int /\ b.since \in Int /\ For \in Int
  BY <1>1, BoundAssumption DEF Sample, Time, Boundary
<1> QED
  BY <1>2, <1>3

\* Once every sample of a debounce window is on one side of a threshold, the
\* level agrees with it, whatever the value did before.
LEMMA IndInvPrompt == IndInv => PromptEscalation /\ PromptRecovery
<1> SUFFICES ASSUME IndInv, NEW k \in Keys
             PROVE  /\ Sustained(k, CritBand(k)) => Level(k) = "crit"
                    /\ Sustained(k, WarnBand(k)) => Level(k) # "ok"
                    /\ Sustained(k, Values \ CritBand(k)) => Level(k) # "crit"
                    /\ Sustained(k, Values \ WarnBand(k)) => Level(k) = "ok"
  BY DEF PromptEscalation, PromptRecovery
<1>0. /\ Warn[k] \in Int /\ Crit[k] \in Int
      /\ \A v \in Values : v \in Int
  BY ThresholdAssumption, ValuesAssumption
<1> SUFFICES ASSUME samples[k] # {}
             PROVE  /\ Sustained(k, CritBand(k)) => Level(k) = "crit"
                    /\ Sustained(k, WarnBand(k)) => Level(k) # "ok"
                    /\ Sustained(k, Values \ CritBand(k)) => Level(k) # "crit"
                    /\ Sustained(k, Values \ WarnBand(k)) => Level(k) = "ok"
  BY DEF Sustained, SustainedIn
<1> DEFINE st == states[k]
<1>1. /\ k \in DOMAIN states /\ Level(k) = st.active
      /\ st.warn \in Boundary /\ st.crit \in Boundary
      /\ Tracks(samples[k], st.warn, Warn[k])
      /\ Tracks(samples[k], st.crit, Crit[k])
      /\ Settled(samples[k], st)
  BY DEF IndInv, TypeOK, KeyInv, Level, MetricState
<1>2. ASSUME Sustained(k, CritBand(k)) PROVE Level(k) = "crit"
  <2>1. PICK first \in samples[k], last \in samples[k] :
          /\ last.at - first.at >= For
          /\ \A s \in samples[k] : s.at >= first.at => s.value \in CritBand(k)
    BY <1>2 DEF Sustained, SustainedIn
  <2>2. \A s \in samples[k] : s.at >= first.at => Side(s.value, Crit[k]) = "above"
    BY <2>1 DEF CritBand, Side
  <2>3. Above(st.crit, last.at)
    BY <1>0, <1>1, <2>1, <2>2, SustainedConfirms DEF Above
  <2> QED
    BY <1>1, <2>3 DEF Settled
<1>3. ASSUME Sustained(k, WarnBand(k)) PROVE Level(k) # "ok"
  <2>1. PICK first \in samples[k], last \in samples[k] :
          /\ last.at - first.at >= For
          /\ \A s \in samples[k] : s.at >= first.at => s.value \in WarnBand(k)
    BY <1>3 DEF Sustained, SustainedIn
  <2>2. \A s \in samples[k] : s.at >= first.at => Side(s.value, Warn[k]) = "above"
    BY <2>1 DEF WarnBand, Side
  <2>3. Above(st.warn, last.at)
    BY <1>0, <1>1, <2>1, <2>2, SustainedConfirms DEF Above
  <2> QED
    BY <1>1, <2>3 DEF Settled
<1>4. ASSUME Sustained(k, Values \ CritBand(k)) PROVE Level(k) # "crit"
  <2>1. PICK first \in samples[k], last \in samples[k] :
          /\ last.at - first.at >= For
          /\ \A s \in samples[k] : s.at >= first.at => s.value \in Values \ CritBand(k)
    BY <1>4 DEF Sustained, SustainedIn
  <2>2. \A s \in samples[k] : s.at >= first.at => Side(s.value, Crit[k]) = "below"
    BY <2>1 DEF CritBand, Side
  <2>3. Below(st.crit, last.at)
    BY <1>0, <1>1, <2>1, <2>2, SustainedConfirms DEF Below
  <2> QED
    BY <1>1, <2>3 DEF Settled
<1>5. ASSUME Sustained(k, Values \ WarnBand(k)) PROVE Level(k) = "ok"
  <2>1. PICK first \in samples[k], last \in samples[k] :
          /\ last.at - first.at >= For
          /\ \A s \in samples[k] : s.at >= first.at => s.value \in Values \ WarnBand(k)
    BY <1>5 DEF Sustained, SustainedIn
  <2>2. \A s \in samples[k] : s.at >= first.at => Side(s.value, Warn[k]) = "below"
    BY <2>1 DEF WarnBand, Side
  <2>3. Below(st.warn, last.at)
    BY <1>0, <1>1, <2>1, <2>2, SustainedConfirms, SMTT(30) DEF Below
  <2> QED
    BY <1>1, <2>3 DEF Settled
<1> QED
  BY <1>2, <1>3, <1>4, <1>5

\* For every thresholds, window and tick spacing: a crossing sustained for the
\* window is always reported, even by a value flapping around crit.
THEOREM EscalationIsPrompt == Spec => []PromptEscalation
  BY IndInvariant, IndInvPrompt, PTL

\* ... and a recovery sustained for the window always ends the alert.
THEOREM RecoveryIsPrompt == Spec => []PromptRecovery
  BY IndInvariant, IndInvPrompt, PTL

-----------------------------------------------------------------------------

\* A confirmed boundary is a sustained stretch of samples: the converse.
LEMMA ConfirmedSustained ==
  ASSUME NEW S \in SUBSET Sample, NEW last \in S,
         NEW b, NEW x \in Int, Tracks(S, b, x), last.at - b.since >= For,
         NEW band, \A v \in Values : Side(v, x) = b.side => v \in band
  PROVE  SustainedIn(S, band)
<1>1. PICK first \in S : first.at = b.since
  BY DEF Tracks
<1>2. \A s \in S : s.at >= first.at => s.value \in band
  BY <1>1 DEF Tracks, Sample
<1> QED
  BY <1>1, <1>2 DEF SustainedIn

\* Which confirmed boundary a change of level rests on (nextLevel).
LEMMA NextLevelCause ==
  ASSUME NEW st \in MetricState, NEW t, NextLevel(st, t) # st.active
  PROVE  \/ NextLevel(st, t) = "crit" /\ Above(st.crit, t)
         \/ NextLevel(st, t) = "ok" /\ Below(st.warn, t)
         \/ NextLevel(st, t) = "warn" /\ st.active = "ok" /\ Above(st.warn, t)
         \/ NextLevel(st, t) = "warn" /\ st.active = "crit" /\ Below(st.crit, t)
  BY DEF NextLevel, MetricState, Levels

\* Every level an evaluation moves has its cause.
LEMMA EvaluationCause ==
  ASSUME IndInv, IndInv',
         NEW t \in Time, t > now, NEW valid \in SUBSET Keys, NEW dropped \in SUBSET Mounts,
         NEW reading \in [valid -> Values], dropped \intersect valid = {},
         states' = Evaluated(t, reading, dropped),
         samples' = Recorded(t, reading, dropped),
         NEW k \in Keys, Level(k)' # Level(k)
  PROVE  TransitionCause(k)
<1>1. CASE k \in dropped
  <2>1. k \notin DOMAIN states' /\ samples'[k] = {}
    BY <1>1 DEF Evaluated, Recorded
  <2> QED
    BY <1>1, <2>1 DEF TransitionCause, Level
<1>2. CASE k \notin dropped \union valid
  <2>1. k \in DOMAIN states' <=> k \in DOMAIN states
    BY <1>2 DEF Evaluated
  <2>2. k \in DOMAIN states => states'[k] = states[k]
    BY <1>2 DEF Evaluated
  <2> QED
    BY <2>1, <2>2 DEF Level
<1>3. CASE k \in valid
  <2> DEFINE up == UpdateThresholdState(k, reading[k], t)
             new == [at |-> t, value |-> reading[k]]
             st == states'[k]
  <2>1. /\ k \in DOMAIN states' /\ st = EvalMetric(k, reading[k], t)
        /\ samples'[k] = samples[k] \union {new}
    BY <1>3 DEF Evaluated, Recorded
  <2>2. /\ samples'[k] \in SUBSET Sample /\ st \in MetricState
        /\ Tracks(samples'[k], st.warn, Warn[k]) /\ Tracks(samples'[k], st.crit, Crit[k])
    BY <2>1 DEF IndInv, TypeOK, KeyInv
  <2>3. new \notin samples[k]
    <3>1. samples[k] \in SUBSET Sample /\ \A s \in samples[k] : s.at <= now
      BY DEF IndInv, TypeOK, KeyInv
    <3>2. now \in Int /\ t \in Int
      BY BoundAssumption DEF IndInv, TypeOK, Time
    <3> QED
      BY <3>1, <3>2
  <2>4. /\ up \in MetricState /\ up.active = Level(k)
    <3>1. k \in DOMAIN states => states[k] \in MetricState
      BY DEF IndInv, TypeOK
    <3>2. ASSUME NEW b \in Boundary, NEW x \in Int
          PROVE  Cross(b, Side(reading[k], x), t) \in Boundary
      BY DEF Cross, Side, Boundary
    <3>3. Warn[k] \in Int /\ Crit[k] \in Int
      BY ThresholdAssumption
    <3>4. CASE k \in DOMAIN states
      BY <3>1, <3>2, <3>3, <3>4 DEF UpdateThresholdState, Level, MetricState
    <3>5. CASE k \notin DOMAIN states
      BY <3>5 DEF UpdateThresholdState, Level, MetricState, Boundary, Levels, Side
    <3> QED
      BY <3>4, <3>5
  <2>5. /\ NextLevel(up, t) # up.active /\ Level(k)' = NextLevel(up, t)
        /\ st.warn = up.warn /\ st.crit = up.crit
    <3>1. st.active # up.active /\ Level(k)' = st.active
      BY <2>1, <2>4 DEF Level
    <3>2. NextLevel(up, t) # up.active
      BY <2>1, <3>1 DEF EvalMetric
    <3>3. st = [up EXCEPT !.active = NextLevel(up, t), !.activeSince = t]
      BY <2>1, <3>2 DEF EvalMetric
    <3> QED
      BY <2>4, <3>1, <3>2, <3>3 DEF MetricState
  <2>6. /\ Warn[k] \in Int /\ Crit[k] \in Int
        /\ new \in samples'[k] /\ new.at = t
        /\ \A v \in Values : v \in Int
    BY <2>1, ThresholdAssumption, ValuesAssumption
  <2>7. \A v \in Values :
          /\ Side(v, Crit[k]) = "above" => v \in CritBand(k)
          /\ Side(v, Crit[k]) = "below" => v \in Values \ CritBand(k)
          /\ Side(v, Warn[k]) = "above" => v \in WarnBand(k)
          /\ Side(v, Warn[k]) = "below" => v \in Values \ WarnBand(k)
    BY <2>6 DEF Side, CritBand, WarnBand
  <2>8. /\ Above(st.crit, t) => Sustained(k, CritBand(k))'
        /\ Below(st.crit, t) => Sustained(k, Values \ CritBand(k))'
        /\ Above(st.warn, t) => Sustained(k, WarnBand(k))'
        /\ Below(st.warn, t) => Sustained(k, Values \ WarnBand(k))'
    <3> DEFINE T == samples'[k]
    <3>1. /\ T \in SUBSET Sample /\ new \in T /\ new.at = t
          /\ Tracks(T, st.warn, Warn[k]) /\ Tracks(T, st.crit, Crit[k])
      BY <2>2, <2>6
    <3> HIDE DEF T, st, new
    <3>2. /\ Above(st.crit, t) => SustainedIn(T, CritBand(k))
          /\ Below(st.crit, t) => SustainedIn(T, Values \ CritBand(k))
      BY <2>6, <2>7, <3>1, ConfirmedSustained DEF Above, Below
    <3>3. /\ Above(st.warn, t) => SustainedIn(T, WarnBand(k))
          /\ Below(st.warn, t) => SustainedIn(T, Values \ WarnBand(k))
      BY <2>6, <2>7, <3>1, ConfirmedSustained DEF Above, Below
    <3> QED
      BY <3>2, <3>3 DEF T, Sustained, CritBand, WarnBand
  <2>9. \/ Level(k)' = "crit" /\ Sustained(k, CritBand(k))'
        \/ Level(k)' = "ok" /\ Sustained(k, Values \ WarnBand(k))'
        \/ Level(k)' = "warn" /\ Level(k) = "ok" /\ Sustained(k, WarnBand(k))'
        \/ Level(k)' = "warn" /\ Level(k) = "crit" /\ Sustained(k, Values \ CritBand(k))'
    BY <2>4, <2>5, <2>8, NextLevelCause
  <2>10. samples'[k] # samples[k]
    BY <2>1, <2>3
  <2> QED
    BY <2>9, <2>10 DEF TransitionCause
<1> QED
  BY <1>1, <1>2, <1>3

\* A level never moves without its cause, for every thresholds, window and tick
\* spacing: the debounce never fires early, and a failed read never clears an
\* alert (Evaluate's Valid flags).
THEOREM TransitionsAreJustified == Spec => NoSpuriousTransition
<1>1. IndInv /\ IndInv' /\ [Next]_vars =>
        [\A k \in Keys : Level(k)' # Level(k) => TransitionCause(k)]_vars
  <2> SUFFICES ASSUME IndInv, IndInv', Next, NEW k \in Keys, Level(k)' # Level(k)
               PROVE  TransitionCause(k)
    OBVIOUS
  <2>1. StateTypes
    BY DEF IndInv, TypeOK, StateTypes
  <2> QED
    BY <2>1, TickIsEvaluation, EvaluationCause
<1> QED
  BY <1>1, IndInvariant, PTL DEF Spec, NoSpuriousTransition

-----------------------------------------------------------------------------

\* Every evaluation is a round of AlertLevels.
LEMMA EvaluationIsRound ==
  ASSUME IndInv, IndInv', NEW t \in Time, t > now, now' = t,
         NEW valid \in SUBSET Keys, NEW reading \in [valid -> Values],
         NEW disksValid \in BOOLEAN, NEW disks,
         disksValid => Pruned(disks) \intersect valid = {},
         Evaluate(t, reading, disksValid, disks)
  PROVE  AbstractLevels!Round
<1> DEFINE dropped == IF disksValid THEN Pruned(disks) ELSE {}
           after(k) == IF k \in valid THEN EvalMetric(k, reading[k], t).active
                       ELSE IF k \in dropped THEN "ok" ELSE Level(k)
           level == [k \in Keys |-> Level(k)]
           next == [k \in Keys |-> Level(k)']
           M == {k \in Keys : after(k) # Level(k)}
<1>1. PICK moved \in SetToSeqs(M) :
        /\ emitted' = [i \in DOMAIN moved |->
                         Transition(moved[i], Level(moved[i]), after(moved[i]), t)]
        /\ events' = Newest(events \o emitted', MaxEvents)
        /\ states' = Evaluated(t, reading, dropped)
  BY ZenonT(40) DEF Evaluate
<1>2. \A k \in Keys : after(k) = Level(k)'
  <2> TAKE k \in Keys
  <2>1. CASE k \in valid
    BY <1>1, <2>1 DEF Evaluated, Level
  <2>2. CASE k \in dropped /\ k \notin valid
    BY <1>1, <2>2 DEF Evaluated, Level
  <2>3. CASE k \notin dropped /\ k \notin valid
    BY <1>1, <2>3 DEF Evaluated, Level
  <2> QED
    BY <2>1, <2>2, <2>3
<1>3. M = {k \in Keys : next[k] # level[k]}
  BY <1>2
<1>4. next \in [Keys -> Levels]
  BY DEF IndInv, TypeOK, Level, MetricState, Levels
<1>5. t \in (now + 1)..MaxTime
  BY BoundAssumption DEF IndInv, TypeOK, Time
<1>6. \A i \in DOMAIN moved : moved[i] \in Keys
  <2>1. M \in SUBSET Keys
    OBVIOUS
  <2>2. IsFiniteSet(M)
    BY <2>1, KeysFinite, FS_Subset
  <2>3. moved \in Seq(M)
    BY <2>2, PermutationCovers
  <2> HIDE DEF M
  <2> QED
    BY <2>1, <2>3
<1>7. emitted' = [i \in DOMAIN moved |->
                   Transition(moved[i], level[moved[i]], next[moved[i]], t)]
  BY <1>1, <1>2, <1>6
<1>8. moved \in SetToSeqs({k \in Keys : next[k] # level[k]})
  BY <1>1, <1>3
<1>9. moved \in AbstractLevels!SetToSeqs({k \in Keys : next[k] # level[k]})
  <2>1. ASSUME NEW S
        PROVE  AbstractLevels!SetToSeqs(S) = SetToSeqs(S)
    <3>1. AbstractLevels!Cardinality(S) = Cardinality(S)
      BY Zenon DEF AbstractLevels!Cardinality, Cardinality
    <3> QED
      BY <3>1 DEF AbstractLevels!SetToSeqs, SetToSeqs
  <2> QED
    BY <1>8, <2>1
<1>10. emitted' = [i \in DOMAIN moved |->
                   AbstractLevels!Transition(moved[i], level[moved[i]], next[moved[i]], t)]
  BY <1>7 DEF AbstractLevels!Transition, AbstractLevels!Kind, AbstractLevels!Severity,
              Transition, Kind, Severity
<1>11. events' = AbstractLevels!Newest(events \o emitted', MaxEvents)
  BY <1>1 DEF AbstractLevels!Newest, Newest
<1>12. next \in [Keys -> AbstractLevels!Levels]
  BY <1>4 DEF AbstractLevels!Levels, Levels
<1>13. level' = next
  OBVIOUS
<1> HIDE DEF after, M, dropped
<1> QED
  BY <1>5, <1>9, <1>10, <1>11, <1>12, <1>13 DEF AbstractLevels!Round

\* Every tick is one call of Evaluate, at a later instant, that prunes no disk it reads.
LEMMA TickEvaluates ==
  ASSUME IndInv, Next
  PROVE  \E disks : \E t \in Time, valid \in SUBSET Keys, disksValid \in BOOLEAN :
           \E reading \in [valid -> Values] :
             /\ t > now /\ now' = t
             /\ disksValid => Pruned(disks) \intersect valid = {}
             /\ Evaluate(t, reading, disksValid, disks)
<1>0. /\ now \in Nat /\ MaxTime \in Nat
      /\ \A d \in Steps : d \in Nat /\ d > 0
  BY BoundAssumption, StepAssumption DEF IndInv, TypeOK, Time
<1>1. CASE TickWithoutDisks
  <2>1. PICK d \in Steps, valid \in SUBSET Scalars :
          /\ now + d <= MaxTime /\ now' = now + d
          /\ \E reading \in [valid -> Values] :
               Evaluate(now + d, reading, FALSE, << >>)
    BY <1>1 DEF TickWithoutDisks
  <2>2. now + d \in Time /\ now + d > now /\ valid \in SUBSET Keys
    BY <1>0, <2>1 DEF Time, Keys
  <2> QED
    BY <2>1, <2>2
<1>2. CASE TickWithDisks
  <2>1. PICK d \in Steps, valid \in SUBSET Scalars, present \in SUBSET Mounts :
          /\ now + d <= MaxTime /\ now' = now + d
          /\ \E reading \in [valid \union present -> Values],
                disks \in SetToSeqs(present) :
               Evaluate(now + d, reading, TRUE, disks)
    BY <1>2 DEF TickWithDisks
  <2>2. PICK reading \in [valid \union present -> Values], disks \in SetToSeqs(present) :
          Evaluate(now + d, reading, TRUE, disks)
    BY <2>1
  <2>3. now + d \in Time /\ now + d > now /\ valid \union present \in SUBSET Keys
    BY <1>0, <2>1 DEF Time, Keys
  <2>4. Pruned(disks) \intersect (valid \union present) = {}
    <3>1. IsFiniteSet(present)
      BY MountsAssumption, FS_Subset
    <3>2. ToSet(disks) = present
      BY <3>1, PermutationCovers
    <3> QED
      BY <3>2, ScalarAssumption DEF Pruned
  <2> QED
    BY <2>1, <2>2, <2>3, <2>4
<1> QED
  BY <1>1, <1>2 DEF Next

\* The engine implements AlertLevels: each tick returns exactly one event per
\* level that moved, and trims the retained list the same way.
THEOREM EngineImplementsLevels == Spec => ImplementsLevels
<1>1. Init => AbstractLevels!Init
  <2> SUFFICES ASSUME Init PROVE AbstractLevels!Init
    OBVIOUS
  <2>1. \A k \in Keys : Level(k) = "ok"
    BY DEF Init, Level
  <2> QED
    BY <2>1 DEF Init, AbstractLevels!Init
<1>2. IndInv /\ IndInv' /\ [Next]_vars => [AbstractLevels!Next]_(AbstractLevels!vars)
  <2> SUFFICES ASSUME IndInv, IndInv', [Next]_vars
               PROVE  [AbstractLevels!Next]_(AbstractLevels!vars)
    OBVIOUS
  <2>1. CASE Next
    <3>1. AbstractLevels!Round
      BY <2>1, TickEvaluates, EvaluationIsRound
    <3> QED
      BY <3>1 DEF AbstractLevels!Next
  <2>2. CASE UNCHANGED vars
    BY <2>2 DEF vars, AbstractLevels!vars, Level
  <2> QED
    BY <2>1, <2>2
<1> QED
  BY <1>1, <1>2, IndInvariant, PTL DEF Spec, ImplementsLevels, AbstractLevels!Spec

-----------------------------------------------------------------------------
\* The report.

\* The next event of the same key, and the newest one of its key.
Follows(s, i, j) ==
  i < j /\ s[i].key = s[j].key /\ \A m \in DOMAIN s : i < m /\ m < j => s[m].key # s[i].key
Newest1(s, i) == \A m \in DOMAIN s : i < m => s[m].key # s[i].key

Since(k) == states[k].activeSince

\* A list of events that leads to the levels lev, reported since the instants of since.
Chain(s, lev, since) ==
  /\ \A i, j \in DOMAIN s : Follows(s, i, j) => s[j].from = s[i].to /\ s[j].at > s[i].at
  /\ \A i \in DOMAIN s : Newest1(s, i) =>
       s[i].to = lev[s[i].key] /\ (s[i].to # "ok" => since[s[i].key] = s[i].at)

Levelled == [k \in Keys |-> Level(k)]
Sinces == [k \in Keys |-> Since(k)]

ReportInv ==
  /\ Chain(events, Levelled, Sinces)
  /\ \A i \in DOMAIN events : events[i].at <= now

\* Trimming takes the oldest events, which the others do not hang on.
LEMMA TrimmedChain ==
  ASSUME NEW S, NEW s \in Seq(S), NEW n \in Nat, NEW lev, NEW since, Chain(s, lev, since),
         NEW t, t = Newest(s, n)
  PROVE  /\ Chain(t, lev, since)
         /\ \A i \in DOMAIN t : \E j \in DOMAIN s : t[i] = s[j]
<1>0. Len(s) \in Nat /\ DOMAIN s = 1..Len(s)
  OBVIOUS
<1>1. CASE Len(s) <= n
  BY <1>1 DEF Newest
<1>2. CASE ~(Len(s) <= n)
  <2> DEFINE off == Len(s) - n
             len == Len(s)
  <2>1. /\ off \in Nat /\ len \in Nat /\ DOMAIN s = 1..len /\ n = len - off
        /\ DOMAIN t = 1..n /\ \A i \in 1..n : t[i] = s[off + i] /\ off + i \in DOMAIN s
    <3>1. t = SubSeq(s, len - n + 1, len) /\ len - n + 1 \in 1..(len + 1)
      BY <1>0, <1>2 DEF Newest
    <3>2. len - (len - n + 1) + 1 = n /\ \A i \in 1..n : (len - n + 1) + i - 1 = off + i
      BY <1>0
    <3> HIDE DEF off
    <3>3. DOMAIN t = 1..n /\ \A i \in 1..n : t[i] = s[off + i]
      BY <1>0, <1>2, <3>1, <3>2, SubSeqProperties
    <3> QED
      BY <1>0, <1>2, <3>3 DEF off
  <2> HIDE DEF off, len
  <2>2. \A m \in DOMAIN s : m > off => m - off \in DOMAIN t /\ t[m - off] = s[m] /\ m \in Int
    <3> SUFFICES ASSUME NEW m \in DOMAIN s, m > off
                 PROVE  m - off \in DOMAIN t /\ t[m - off] = s[m] /\ m \in Int
      OBVIOUS
    <3>1. m - off \in 1..n /\ off + (m - off) = m
      BY <2>1
    <3> QED
      BY <2>1, <3>1
  <2>3. ASSUME NEW i \in DOMAIN t, NEW j \in DOMAIN t, Follows(t, i, j)
        PROVE  Follows(s, off + i, off + j)
    <3>1. /\ off + i \in DOMAIN s /\ off + j \in DOMAIN s /\ off + i < off + j
          /\ s[off + i].key = s[off + j].key
      BY <2>1, <2>3 DEF Follows
    <3>2. ASSUME NEW m \in DOMAIN s, off + i < m, m < off + j PROVE s[m].key # s[off + i].key
      <4>1. m > off /\ m \in Int /\ i < m - off /\ m - off < j
        BY <2>1, <3>2
      <4> QED
        BY <2>1, <2>2, <2>3, <4>1 DEF Follows
    <3> QED
      BY <3>1, <3>2 DEF Follows
  <2>4. ASSUME NEW i \in DOMAIN t, Newest1(t, i)
        PROVE  Newest1(s, off + i)
    <3> SUFFICES ASSUME NEW m \in DOMAIN s, off + i < m PROVE s[m].key # s[off + i].key
      BY DEF Newest1
    <3>1. m > off /\ m \in Int /\ i < m - off
      BY <2>1
    <3> QED
      BY <2>1, <2>2, <2>4, <3>1 DEF Newest1
  <2>5. ASSUME NEW i \in DOMAIN t, NEW j \in DOMAIN t, Follows(t, i, j)
        PROVE  t[j].from = t[i].to /\ t[j].at > t[i].at
    <3> DEFINE a == off + i
               b == off + j
    <3>1. a \in DOMAIN s /\ b \in DOMAIN s /\ t[i] = s[a] /\ t[j] = s[b]
      BY <2>1
    <3>2. Follows(s, a, b)
      BY <2>3, <2>5
    <3> HIDE DEF a, b
    <3> QED
      BY <3>1, <3>2 DEF Chain
  <2>6. ASSUME NEW i \in DOMAIN t, Newest1(t, i)
        PROVE  t[i].to = lev[t[i].key] /\ (t[i].to # "ok" => since[t[i].key] = t[i].at)
    <3> DEFINE a == off + i
    <3>1. a \in DOMAIN s /\ t[i] = s[a]
      BY <2>1
    <3>2. Newest1(s, a)
      BY <2>4, <2>6
    <3> HIDE DEF a
    <3> QED
      BY <3>1, <3>2 DEF Chain
  <2>7. \A i \in DOMAIN t : \E j \in DOMAIN s : t[i] = s[j]
    BY <2>1
  <2> QED
    BY <2>5, <2>6, <2>7 DEF Chain
<1> QED
  BY <1>1, <1>2

Joined(s, e) == s \o e

\* The events e of one evaluation at t, which moves the levels lev to lev2: one for every key
\* whose level moves, from the level it has.
Reports(s, e, lev, since, lev2, since2, t) ==
  /\ \A i \in DOMAIN s : s[i].at \in Int /\ s[i].at < t
  /\ \A i, j \in DOMAIN e : e[i].key = e[j].key => i = j
  /\ \A i \in DOMAIN e :
       /\ e[i].from = lev[e[i].key] /\ e[i].to = lev2[e[i].key] /\ e[i].at = t
       /\ e[i].to # "ok" => since2[e[i].key] = t
  /\ \A i \in DOMAIN s : (\A j \in DOMAIN e : e[j].key # s[i].key) =>
       /\ lev2[s[i].key] = lev[s[i].key]
       /\ lev2[s[i].key] # "ok" => since2[s[i].key] = since[s[i].key]

\* They make the chain longer.
LEMMA LongerChain ==
  ASSUME NEW S, NEW s \in Seq(S), NEW e \in Seq(S), NEW t \in Int,
         NEW lev, NEW since, NEW lev2, NEW since2, NEW u,
         Chain(s, lev, since), Reports(s, e, lev, since, lev2, since2, t), u = Joined(s, e)
  PROVE  /\ Chain(u, lev2, since2) /\ u \in Seq(S)
         /\ \A i \in DOMAIN u : u[i].at <= t
<1> USE DEF Reports
<1> DEFINE n == Len(s)
           m == Len(e)
<1>1. /\ n \in Nat /\ m \in Nat /\ DOMAIN s = 1..n /\ DOMAIN e = 1..m /\ u \in Seq(S)
      /\ DOMAIN u = 1..(n + m)
      /\ \A i \in 1..n : u[i] = s[i]
      /\ \A i \in DOMAIN u : i \notin DOMAIN s => i - n \in DOMAIN e /\ u[i] = e[i - n]
      /\ \A i \in DOMAIN e : n + i \in DOMAIN u /\ u[n + i] = e[i]
  <2>1. n \in Nat /\ m \in Nat /\ DOMAIN s = 1..n /\ DOMAIN e = 1..m
    OBVIOUS
  <2>2. /\ u \in Seq(S) /\ Len(u) = n + m
        /\ \A i \in 1..(n + m) : u[i] = IF i <= n THEN s[i] ELSE e[i - n]
    BY ConcatProperties DEF Joined
  <2> HIDE DEF n, m
  <2>3. DOMAIN u = 1..(n + m)
    BY <2>2
  <2> QED
    BY <2>1, <2>2, <2>3
<1> HIDE DEF n, m
<1>5. \A k \in DOMAIN s : k \in DOMAIN u /\ u[k] = s[k]
  BY <1>1
<1>2. ASSUME NEW i \in DOMAIN u, NEW j \in DOMAIN u, Follows(u, i, j)
      PROVE  u[j].from = u[i].to /\ u[j].at > u[i].at
  <2>1. i < j /\ u[i].key = u[j].key
    BY <1>2 DEF Follows
  <2>2. CASE j \in DOMAIN s
    <3>1. i \in DOMAIN s
      BY <1>1, <2>1, <2>2
    <3>2. Follows(s, i, j)
      BY <1>5, <1>2, <2>2, <3>1 DEF Follows
    <3> QED
      BY <1>1, <2>2, <3>1, <3>2 DEF Chain
  <2>3. CASE j \notin DOMAIN s /\ i \in DOMAIN s
    <3>1. j - n \in DOMAIN e /\ u[j] = e[j - n] /\ j > n
      BY <1>1, <2>3
    <3>2. Newest1(s, i)
      <4> SUFFICES ASSUME NEW m1 \in DOMAIN s, i < m1 PROVE s[m1].key # s[i].key
        BY DEF Newest1
      <4>1. m1 \in DOMAIN u /\ u[m1] = s[m1] /\ u[i] = s[i] /\ m1 < j
        BY <1>1, <2>3, <3>1
      <4>2. u[m1].key # u[i].key
        BY <1>2, <4>1 DEF Follows
      <4> QED
        BY <4>1, <4>2
    <3>3. s[i].to = lev[s[i].key] /\ s[i].at < t
      BY <2>3, <3>2 DEF Chain
    <3> QED
      BY <1>1, <2>1, <2>3, <3>1, <3>3
  <2>4. CASE j \notin DOMAIN s /\ i \notin DOMAIN s
    <3>1. j - n \in DOMAIN e /\ u[j] = e[j - n] /\ i - n \in DOMAIN e /\ u[i] = e[i - n]
      BY <1>1, <2>4
    <3>2. j - n = i - n
      BY <2>1, <3>1
    <3> QED
      BY <1>1, <2>1, <3>2
  <2> QED
    BY <2>2, <2>3, <2>4
<1>3. ASSUME NEW i \in DOMAIN u, Newest1(u, i)
      PROVE  u[i].to = lev2[u[i].key] /\ (u[i].to # "ok" => since2[u[i].key] = u[i].at)
  <2>1. CASE i \in DOMAIN s
    <3>1. Newest1(s, i)
      <4> SUFFICES ASSUME NEW m1 \in DOMAIN s, i < m1 PROVE s[m1].key # s[i].key
        BY DEF Newest1
      <4>1. m1 \in DOMAIN u /\ u[m1] = s[m1] /\ u[i] = s[i]
        BY <1>5, <2>1
      <4>2. u[m1].key # u[i].key
        BY <1>3, <4>1 DEF Newest1
      <4> QED
        BY <4>1, <4>2
    <3>2. ASSUME NEW j \in DOMAIN e PROVE e[j].key # s[i].key
      <4>1. n + j \in DOMAIN u /\ u[n + j] = e[j] /\ i < n + j
        BY <1>1, <2>1
      <4> QED
        BY <1>1, <1>3, <2>1, <4>1 DEF Newest1
    <3>3. s[i].to = lev[s[i].key] /\ (s[i].to # "ok" => since[s[i].key] = s[i].at)
      BY <2>1, <3>1 DEF Chain
    <3>4. /\ lev2[s[i].key] = lev[s[i].key]
          /\ lev2[s[i].key] # "ok" => since2[s[i].key] = since[s[i].key]
      BY <2>1, <3>2
    <3> QED
      BY <1>1, <2>1, <3>3, <3>4
  <2>2. CASE i \notin DOMAIN s
    BY <1>1, <2>2
  <2> QED
    BY <2>1, <2>2
<1>4. \A i \in DOMAIN u : u[i].at <= t
  BY <1>1
<1> QED
  BY <1>1, <1>2, <1>3, <1>4 DEF Chain

\* The instant a level is reported since is that of the evaluation that moved it.
LEMMA SinceFacts ==
  ASSUME IndInv, NEW t, NEW valid \in SUBSET Keys, NEW reading \in [valid -> Values],
         NEW dropped, states' = Evaluated(t, reading, dropped),
         NEW k \in Keys, Level(k)' # "ok"
  PROVE  IF Level(k)' = Level(k) THEN Since(k)' = Since(k) ELSE Since(k)' = t
<1>1. k \in DOMAIN states' /\ Level(k)' = states'[k].active
  BY DEF Level
<1>2. CASE k \in valid
  <2> DEFINE up == UpdateThresholdState(k, reading[k], t)
             next == NextLevel(up, t)
  <2>1. states'[k] = EvalMetric(k, reading[k], t)
    BY <1>2 DEF Evaluated
  <2>2. /\ up.active = Level(k) /\ (k \in DOMAIN states => up.activeSince = Since(k))
        /\ up = [active |-> up.active, activeSince |-> up.activeSince, warn |-> up.warn, crit |-> up.crit]
    BY DEF UpdateThresholdState, Level, Since, IndInv, TypeOK, MetricState
  <2>3. EvalMetric(k, reading[k], t) =
          IF next = up.active THEN up ELSE [up EXCEPT !.active = next, !.activeSince = t]
    BY DEF EvalMetric
  <2>4. Level(k) # "ok" => k \in DOMAIN states
    BY DEF Level
  <2> HIDE DEF up, next
  <2>5. CASE next = up.active
    BY <1>1, <2>1, <2>2, <2>3, <2>4, <2>5 DEF Since
  <2>6. CASE next # up.active
    <3>1. states'[k] = [up EXCEPT !.active = next, !.activeSince = t]
      BY <2>1, <2>3, <2>6
    <3>2. states'[k].active = next /\ states'[k].activeSince = t
      BY <2>2, <3>1
    <3> QED
      BY <1>1, <2>2, <2>6, <3>2 DEF Since
  <2> QED
    BY <2>5, <2>6
<1>3. CASE k \notin valid
  <2>1. k \in DOMAIN states /\ states'[k] = states[k]
    BY <1>1, <1>3 DEF Evaluated
  <2> QED
    BY <1>1, <2>1 DEF Level, Since
<1> QED
  BY <1>2, <1>3

LEMMA ReportKeeps ==
  ASSUME IndInv, IndInv', ReportInv, Next
  PROVE  ReportInv'
<1>1. PICK disks : \E t \in Time, valid \in SUBSET Keys, disksValid \in BOOLEAN :
        \E reading \in [valid -> Values] :
          /\ t > now /\ now' = t
          /\ disksValid => Pruned(disks) \intersect valid = {}
          /\ Evaluate(t, reading, disksValid, disks)
  BY TickEvaluates
<1>2. PICK t \in Time, valid \in SUBSET Keys, disksValid \in BOOLEAN :
        \E reading \in [valid -> Values] :
          /\ t > now /\ now' = t
          /\ disksValid => Pruned(disks) \intersect valid = {}
          /\ Evaluate(t, reading, disksValid, disks)
  BY <1>1
<1>3. PICK reading \in [valid -> Values] :
          /\ t > now /\ now' = t
          /\ disksValid => Pruned(disks) \intersect valid = {}
          /\ Evaluate(t, reading, disksValid, disks)
  BY <1>2
<1> DEFINE dropped == IF disksValid THEN Pruned(disks) ELSE {}
           after(k) == IF k \in valid THEN EvalMetric(k, reading[k], t).active
                       ELSE IF k \in dropped THEN "ok" ELSE Level(k)
           M == {k \in Keys : after(k) # Level(k)}
<1>4. PICK moved \in SetToSeqs(M) :
        /\ emitted' = [i \in DOMAIN moved |->
                         Transition(moved[i], Level(moved[i]), after(moved[i]), t)]
        /\ events' = Newest(events \o emitted', MaxEvents)
        /\ states' = Evaluated(t, reading, dropped)
  BY <1>3 DEF Evaluate
<1>5. \A k \in Keys : after(k) = Level(k)'
  <2> TAKE k \in Keys
  <2>1. CASE k \in valid
    BY <1>4, <2>1 DEF Evaluated, Level
  <2>2. CASE k \in dropped /\ k \notin valid
    BY <1>4, <2>2 DEF Evaluated, Level
  <2>3. CASE k \notin dropped /\ k \notin valid
    BY <1>4, <2>3 DEF Evaluated, Level
  <2> QED
    BY <2>1, <2>2, <2>3
<1>6. \A k \in Keys : Level(k)' # "ok" =>
        IF Level(k)' = Level(k) THEN Since(k)' = Since(k) ELSE Since(k)' = t
  BY <1>4, SinceFacts
<1>7. /\ moved \in Seq(M) /\ ToSet(moved) = M
      /\ \A i, j \in DOMAIN moved : moved[i] = moved[j] => i = j
  <2>1. IsFiniteSet(M)
    <3>1. M \subseteq Keys
      OBVIOUS
    <3> QED
      BY <3>1, KeysFinite, FS_Subset
  <2>2. moved \in Seq(M) /\ ToSet(moved) = M
    BY <2>1, PermutationCovers
  <2>3. \A i, j \in 1..Cardinality(M) : i # j => moved[i] # moved[j]
    BY DEF SetToSeqs
  <2>4. DOMAIN moved = 1..Cardinality(M)
    BY DEF SetToSeqs
  <2> QED
    BY <2>2, <2>3, <2>4
<1> HIDE DEF after, dropped, M
<1>8. /\ M = {k \in Keys : Level(k)' # Level(k)}
  BY <1>5 DEF M
<1>9. ASSUME NEW i \in DOMAIN emitted'
      PROVE  /\ emitted'[i].key = moved[i] /\ i \in DOMAIN moved /\ moved[i] \in M
             /\ emitted'[i].from = Level(moved[i]) /\ emitted'[i].to = Level(moved[i])'
             /\ emitted'[i].at = t
  <2>1. i \in DOMAIN moved /\ emitted'[i] = Transition(moved[i], Level(moved[i]), after(moved[i]), t)
    BY <1>4
  <2>2. moved[i] \in M /\ moved[i] \in Keys
    BY <1>7, <1>8, <2>1 DEF ToSet
  <2> QED
    BY <1>5, <2>1, <2>2 DEF Transition
<1>10. /\ now \in Int /\ t \in Int /\ events \in Seq(Transitions(Keys, Time))
       /\ emitted' \in Seq(Transitions(Keys, Time)) /\ MaxEvents \in Nat
       /\ \A i \in DOMAIN events : events[i].at \in Int /\ events[i].key \in Keys
  <2>1. /\ events \in Seq(Transitions(Keys, Time)) /\ emitted' \in Seq(Transitions(Keys, Time))
        /\ now \in Time
    BY DEF IndInv, TypeOK
  <2>2. Time \subseteq Int
    BY BoundAssumption DEF Time
  <2>3. ASSUME NEW i \in DOMAIN events PROVE events[i].at \in Int /\ events[i].key \in Keys
    <3>1. events[i] \in Transitions(Keys, Time)
      BY <2>1
    <3> QED
      BY <2>2, <3>1 DEF Transitions
  <2> QED
    BY <2>1, <2>2, <2>3, BoundAssumption
<1> DEFINE full == events \o emitted'
<1>0. full = Joined(events, emitted')
  BY DEF Joined
<1> HIDE DEF full
<1>11. /\ Chain(full, Levelled', Sinces') /\ full \in Seq(Transitions(Keys, Time))
       /\ \A i \in DOMAIN full : full[i].at <= t
  <2>1. \A i \in DOMAIN events : events[i].at \in Int /\ events[i].at < t
    BY <1>3, <1>10 DEF ReportInv
  <2>2. \A i, j \in DOMAIN emitted' : emitted'[i].key = emitted'[j].key => i = j
    BY <1>7, <1>9
  <2>3. \A k \in Keys : /\ Levelled[k] = Level(k) /\ Levelled'[k] = Level(k)'
                        /\ Sinces[k] = Since(k) /\ Sinces'[k] = Since(k)'
    BY DEF Levelled, Sinces
  <2>4. \A i \in DOMAIN emitted' :
          /\ emitted'[i].from = Levelled[emitted'[i].key] /\ emitted'[i].to = Levelled'[emitted'[i].key]
          /\ emitted'[i].at = t
          /\ emitted'[i].to # "ok" => Sinces'[emitted'[i].key] = t
    BY <1>6, <1>8, <1>9, <2>3
  <2>5. ASSUME NEW i \in DOMAIN events, \A j \in DOMAIN emitted' : emitted'[j].key # events[i].key
        PROVE  /\ Levelled'[events[i].key] = Levelled[events[i].key]
               /\ Levelled'[events[i].key] # "ok" => Sinces'[events[i].key] = Sinces[events[i].key]
    <3>1. events[i].key \in Keys
      BY <1>10
    <3>2. events[i].key \notin M
      <4> SUFFICES ASSUME events[i].key \in M PROVE FALSE
        OBVIOUS
      <4>1. PICK j \in DOMAIN moved : moved[j] = events[i].key
        BY <1>7 DEF ToSet
      <4>2. j \in DOMAIN emitted'
        BY <1>4
      <4> QED
        BY <1>9, <2>5, <4>1, <4>2
    <3> QED
      BY <1>6, <1>8, <2>3, <3>1, <3>2
  <2>6. Chain(events, Levelled, Sinces)
    BY DEF ReportInv
  <2>7. Reports(events, emitted', Levelled, Sinces, Levelled', Sinces', t)
    BY <2>1, <2>2, <2>4, <2>5 DEF Reports
  <2> DEFINE e == emitted'
             lev2 == Levelled'
             since2 == Sinces'
             S == Transitions(Keys, Time)
  <2>8. /\ Reports(events, e, Levelled, Sinces, lev2, since2, t)
        /\ events \in Seq(S) /\ e \in Seq(S) /\ full = Joined(events, e)
    BY <1>0, <1>10, <2>7
  <2> HIDE DEF e, lev2, since2, S
  <2>9. /\ Chain(full, lev2, since2) /\ full \in Seq(S)
        /\ \A i \in DOMAIN full : full[i].at <= t
    BY <1>10, <2>6, <2>8, LongerChain
  <2> QED
    BY <2>9 DEF lev2, since2, S
<1>12. events' = Newest(full, MaxEvents)
  BY <1>0, <1>4 DEF Joined
<1>13. /\ Chain(events', Levelled', Sinces')
       /\ \A i \in DOMAIN events' : \E j \in DOMAIN full : events'[i] = full[j]
  BY <1>10, <1>11, <1>12, TrimmedChain
<1> QED
  BY <1>3, <1>11, <1>13 DEF ReportInv

\* A nonempty set of naturals has a least element, which Min chooses.
LEMMA MinFacts ==
  ASSUME NEW T, T \subseteq Nat, T # {}
  PROVE  Min(T) \in T /\ \A m \in T : Min(T) <= m
<1> DEFINE R == OpToRel(<, Nat)
<1>1. IsWellFoundedOn(R, Nat)
  BY NatLessThanWellFounded
<1>2. \A x, y \in Nat : x < y => <<x, y>> \in R
  BY DEF OpToRel
<1> HIDE DEF R
<1>3. PICK n \in T : \A m \in T : ~(<<m, n>> \in R)
  BY <1>1, WFMin
<1>4. \A m \in T : ~(m < n)
  BY <1>2, <1>3
<1>5. \A m \in T : n <= m
  BY <1>4
<1> QED
  BY <1>5 DEF Min

LEMMA ReportIsChain == IndInv /\ ReportInv => EventChain
<1> SUFFICES ASSUME IndInv, ReportInv, NEW i \in 1..Len(events)
             PROVE  LET next == {j \in (i + 1)..Len(events) : events[j].key = events[i].key}
                    IN  IF next = {}
                        THEN /\ events[i].to = Level(events[i].key)
                             /\ Level(events[i].key) # "ok" =>
                                  states[events[i].key].activeSince = events[i].at
                        ELSE LET j == Min(next)
                             IN  events[j].from = events[i].to /\ events[j].at > events[i].at
  BY DEF EventChain
<1> DEFINE next == {j \in (i + 1)..Len(events) : events[j].key = events[i].key}
<1>1. /\ Len(events) \in Nat /\ DOMAIN events = 1..Len(events) /\ events[i].key \in Keys
      /\ \A j : j \in next <=> j \in DOMAIN events /\ i < j /\ events[j].key = events[i].key
  <2>1. events \in Seq(Transitions(Keys, Time))
    BY DEF IndInv, TypeOK
  <2>2. Len(events) \in Nat /\ DOMAIN events = 1..Len(events) /\ events[i] \in Transitions(Keys, Time)
    BY <2>1
  <2> QED
    BY <2>2 DEF Transitions
<1>2. next \subseteq Nat
  BY <1>1
<1> HIDE DEF next
<1>3. CASE next = {}
  <2>1. Newest1(events, i)
    BY <1>1, <1>3 DEF Newest1
  <2> QED
    BY <1>1, <1>3, <2>1 DEF ReportInv, Chain, Levelled, Sinces, Since, next
<1>4. CASE next # {}
  <2>1. Min(next) \in next /\ \A m \in next : Min(next) <= m
    BY <1>2, <1>4, MinFacts
  <2>2. Follows(events, i, Min(next))
    <3>1. ASSUME NEW m \in DOMAIN events, i < m, m < Min(next) PROVE events[m].key # events[i].key
      BY <1>1, <1>2, <2>1, <3>1
    <3> QED
      BY <1>1, <2>1, <3>1 DEF Follows
  <2>3. LET j == Min(next) IN events[j].from = events[i].to /\ events[j].at > events[i].at
    BY <1>1, <2>1, <2>2 DEF ReportInv, Chain
  <2> QED
    BY <1>4, <2>3 DEF next
<1> QED
  BY <1>3, <1>4

\* EventChain holds of every behaviour: the retained events of a key follow one another,
\* and lead to the level reported and the instant it is reported since.
THEOREM ReportIsCoherent == Spec => []EventChain
<1>1. Init => ReportInv
  <2> SUFFICES ASSUME Init PROVE ReportInv
    OBVIOUS
  <2>1. DOMAIN events = {}
    BY DEF Init
  <2> QED
    BY <2>1 DEF ReportInv, Chain
<1>2. IndInv /\ IndInv' /\ ReportInv /\ [Next]_vars => ReportInv'
  <2> SUFFICES ASSUME IndInv, IndInv', ReportInv, [Next]_vars PROVE ReportInv'
    OBVIOUS
  <2>1. CASE UNCHANGED vars
    BY <2>1 DEF vars, ReportInv, Chain, Follows, Newest1, Levelled, Sinces, Since, Level
  <2> QED
    BY <2>1, ReportKeeps
<1> QED
  BY <1>1, <1>2, ReportIsChain, IndInvariant, PTL DEF Spec
=============================================================================
