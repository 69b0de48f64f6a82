----------------------- MODULE RateCollectors_proofs -----------------------
(***************************************************************************)
(* Proofs about RateCollectors, for any number of sources, any width of    *)
(* the counters and any amount of work between reads: what is reported is  *)
(* never more than was done, and exactly what was done if the source was   *)
(* the same throughout; and a ranking leaves nothing busier out.           *)
(*                                                                         *)
(* The reports rest on what the counters the collector remembers have to   *)
(* do with those the kernel has: Bounded for a source that may be another  *)
(* by now, Continues for one that is the same, Replaced for a pid that is  *)
(* not.  That a ranking exists at all is a matter of counting: the places  *)
(* of the names are all different, hence all taken.                        *)
(***************************************************************************)
EXTENDS RateCollectors, FiniteSetTheorems, SequenceTheorems, TLAPS

IsReading(f) == DOMAIN f \subseteq Names /\ \A n \in DOMAIN f : f[n] \in Source

RateTypes ==
  /\ kind \in Kinds /\ now \in Nat /\ prevTime \in Nat /\ waited \in Nat
  /\ waited = now - prevTime
  /\ IsReading(kernel) /\ IsReading(prev)
  /\ used \in [Names -> [a: Nat, b: Nat]]
  /\ fate \in [Names -> {"steady", "reset", "renamed"}]
  /\ lives \in [Names -> Nat]

\* A counter is not further than the work under its name explains: a new source begins
\* at zero.  Not so a core that comes back with what it had counted.
Bounded ==
  kind # "cpu" =>
    \A n \in DOMAIN prev \intersect DOMAIN kernel :
      fate[n] # "renamed" => /\ kernel[n].a <= prev[n].a + used[n].a
                             /\ kernel[n].b <= prev[n].b + used[n].b

\* A source that is the same and did not wrap is exactly as far.
Continues ==
  \A n \in Names : fate[n] = "steady" =>
    /\ n \in DOMAIN prev /\ n \in DOMAIN kernel
    /\ kernel[n].a = prev[n].a + used[n].a /\ kernel[n].b = prev[n].b + used[n].b
    /\ kernel[n].born = prev[n].born

\* Another process with the same pid is younger.
Replaced ==
  kind = "process" =>
    /\ \A n \in DOMAIN prev : prev[n].born <= lives[n]
    /\ \A n \in DOMAIN kernel : kernel[n].born <= lives[n]
    /\ \A n \in DOMAIN prev \intersect DOMAIN kernel :
         fate[n] # "steady" => prev[n].born < kernel[n].born

RateInv == RateTypes /\ Bounded /\ Continues /\ Replaced

-----------------------------------------------------------------------------
\* The kernel keeps the invariant, whatever it does between two reads.

LEMMA PassesKeeps ==
  ASSUME RateInv, NEW d \in Steps, Passes(d), UNCHANGED <<kind, prev, prevTime>>
  PROVE  RateInv'
BY BoundAssumption
   DEF Passes, RateInv, RateTypes, IsReading, Bounded, Continues, Replaced

\* Work moves the counter and what accounts for it alike, unless the counter wraps.
LEMMA WorksKeeps ==
  ASSUME RateInv, NEW n \in Names, NEW da \in 0..1, NEW db \in 0..1, Works(n, da, db),
         UNCHANGED <<kind, prev, prevTime>>
  PROVE  RateInv'
<1> DEFINE wraps == kernel[n].a + da >= Width \/ kernel[n].b + db >= Width
           moved == [a |-> Added(kernel[n].a, da), b |-> Added(kernel[n].b, db),
                     born |-> kernel[n].born]
<1>1. /\ n \in DOMAIN kernel /\ kernel[n] \in Source /\ used[n].a \in Nat /\ used[n].b \in Nat
      /\ Width \in Nat \ {0}
  BY WidthAssumption DEF Works, RateInv, RateTypes, IsReading
<1>2. /\ DOMAIN kernel' = DOMAIN kernel /\ kernel'[n] = moved
      /\ \A m \in DOMAIN kernel \ {n} : kernel'[m] = kernel[m]
  BY <1>1 DEF Works, Source
<1>3. /\ used' = [used EXCEPT ![n] = [a |-> used[n].a + da, b |-> used[n].b + db]]
      /\ fate' = [fate EXCEPT ![n] = IF fate[n] = "steady" /\ wraps THEN "reset" ELSE fate[n]]
      /\ UNCHANGED <<now, lives, waited>>
      /\ wraps => kind # "process"
  BY DEF Works
<1>4. /\ moved \in Source /\ moved.born = kernel[n].born
      /\ moved.a <= kernel[n].a + da /\ moved.b <= kernel[n].b + db
      /\ ~wraps => moved.a = kernel[n].a + da /\ moved.b = kernel[n].b + db
  BY <1>1 DEF Added, Source, Counters
<1> HIDE DEF moved, wraps
<1>5. RateTypes'
  BY <1>1, <1>2, <1>3, <1>4 DEF RateInv, RateTypes, IsReading
<1>6. Bounded'
  <2> SUFFICES ASSUME kind # "cpu", NEW m \in DOMAIN prev \intersect DOMAIN kernel,
                      fate'[m] # "renamed"
               PROVE  /\ kernel'[m].a <= prev[m].a + used'[m].a
                      /\ kernel'[m].b <= prev[m].b + used'[m].b
    BY <1>2 DEF Bounded
  <2>1. /\ m \in Names /\ fate[m] # "renamed" /\ prev[m] \in Source
        /\ kernel[m].a <= prev[m].a + used[m].a /\ kernel[m].b <= prev[m].b + used[m].b
    BY <1>3 DEF RateInv, RateTypes, IsReading, Bounded
  <2>2. CASE m # n
    BY <1>2, <1>3, <2>1, <2>2
  <2>3. CASE m = n
    <3>1. used'[n].a = used[n].a + da /\ used'[n].b = used[n].b + db
      BY <1>3 DEF RateInv, RateTypes
    <3> QED
      BY <1>1, <1>2, <1>4, <2>1, <2>3, <3>1 DEF Source, Counters
  <2> QED
    BY <2>2, <2>3
<1>7. Continues'
  <2> SUFFICES ASSUME NEW m \in Names, fate'[m] = "steady"
               PROVE  /\ m \in DOMAIN prev /\ m \in DOMAIN kernel
                      /\ kernel'[m].a = prev[m].a + used'[m].a
                      /\ kernel'[m].b = prev[m].b + used'[m].b
                      /\ kernel'[m].born = prev[m].born
    BY <1>2 DEF Continues
  <2>1. /\ fate[m] = "steady" /\ (m = n => ~wraps)
        /\ m \in DOMAIN prev /\ m \in DOMAIN kernel /\ prev[m] \in Source
        /\ kernel[m].a = prev[m].a + used[m].a /\ kernel[m].b = prev[m].b + used[m].b
        /\ kernel[m].born = prev[m].born
    BY <1>3 DEF RateInv, RateTypes, IsReading, Continues
  <2>2. CASE m # n
    BY <1>2, <1>3, <2>1, <2>2
  <2>3. CASE m = n
    <3>1. used'[n].a = used[n].a + da /\ used'[n].b = used[n].b + db
      BY <1>3 DEF RateInv, RateTypes
    <3> QED
      BY <1>1, <1>2, <1>4, <2>1, <2>3, <3>1 DEF Source, Counters
  <2> QED
    BY <2>2, <2>3
<1>8. Replaced'
  <2> SUFFICES ASSUME kind = "process" PROVE Replaced'
    BY DEF Replaced
  <2>1. fate' = fate /\ UNCHANGED <<kind, prev, lives>>
    BY <1>3 DEF RateInv, RateTypes
  <2>2. \A m \in DOMAIN kernel : kernel'[m].born = kernel[m].born
    BY <1>2, <1>4
  <2> QED
    BY <1>2, <2>1, <2>2 DEF RateInv, Replaced
<1> QED
  BY <1>5, <1>6, <1>7, <1>8 DEF RateInv

\* A source that appears has done nothing yet, and a process is the youngest of its pid.
LEMMA AppearsKeeps ==
  ASSUME RateInv, NEW n \in Names, NEW c \in {0, Width - 1}, Appears(n, c),
         UNCHANGED <<kind, prev, prevTime>>
  PROVE  RateInv'
<1> DEFINE appeared == [a |-> c, b |-> c, born |-> lives'[n]]
<1>1. /\ n \notin DOMAIN kernel /\ DOMAIN kernel' = DOMAIN kernel \union {n}
      /\ kernel'[n] = appeared
      /\ \A m \in DOMAIN kernel : kernel'[m] = kernel[m]
      /\ fate' = [fate EXCEPT ![n] = "reset"] /\ (c # 0 => kind = "cpu")
      /\ UNCHANGED <<now, waited, used>>
  BY DEF Appears
<1>2. lives' = [lives EXCEPT ![n] = IF kind = "process" THEN lives[n] + 1 ELSE 0]
  BY DEF Appears
<1>3. appeared \in Source
  BY <1>2, WidthAssumption DEF RateInv, RateTypes, Source, Counters
<1>4. RateTypes'
  BY <1>1, <1>2, <1>3 DEF RateInv, RateTypes, IsReading
<1>5. Bounded'
  <2> SUFFICES ASSUME kind # "cpu", NEW m \in DOMAIN prev \intersect DOMAIN kernel',
                      fate'[m] # "renamed"
               PROVE  /\ kernel'[m].a <= prev[m].a + used[m].a
                      /\ kernel'[m].b <= prev[m].b + used[m].b
    BY <1>1 DEF Bounded
  <2>1. m \in Names /\ prev[m] \in Source /\ used[m] \in [a: Nat, b: Nat]
    BY DEF RateInv, RateTypes, IsReading
  <2> QED
    BY <1>1, <2>1 DEF RateInv, RateTypes, Bounded, Source, Counters
<1>6. Continues'
  BY <1>1 DEF RateInv, RateTypes, Continues
<1>7. Replaced'
  <2> SUFFICES ASSUME kind = "process" PROVE Replaced'
    BY DEF Replaced
  <2>1. /\ kernel'[n].born = lives[n] + 1 /\ lives'[n] = lives[n] + 1
        /\ \A m \in Names \ {n} : lives'[m] = lives[m] /\ fate'[m] = fate[m]
    BY <1>1, <1>2 DEF RateInv, RateTypes
  <2> HIDE DEF appeared
  <2>2. /\ DOMAIN prev \subseteq Names /\ DOMAIN kernel \subseteq Names
        /\ \A m \in Names : lives[m] \in Nat
        /\ \A m \in DOMAIN prev : prev[m].born \in Nat
    BY DEF RateInv, RateTypes, IsReading, Source
  <2>3. /\ \A m \in DOMAIN prev : prev[m].born <= lives'[m]
        /\ \A m \in DOMAIN kernel' : kernel'[m].born <= lives'[m]
    BY <1>1, <2>1, <2>2 DEF RateInv, Replaced
  <2>4. \A m \in DOMAIN prev \intersect DOMAIN kernel' :
          fate'[m] # "steady" => prev[m].born < kernel'[m].born
    BY <1>1, <2>1, <2>2 DEF RateInv, Replaced
  <2> QED
    BY <2>3, <2>4 DEF Replaced
<1> QED
  BY <1>4, <1>5, <1>6, <1>7 DEF RateInv

LEMMA VanishesKeeps ==
  ASSUME RateInv, NEW n \in Names, Vanishes(n), UNCHANGED <<kind, prev, prevTime>>
  PROVE  RateInv'
BY DEF Vanishes, RateInv, RateTypes, IsReading, Bounded, Continues, Replaced

\* An interface that is renamed is lost under the old name, and suspect under the new.
LEMMA RenamedKeeps ==
  ASSUME RateInv, NEW m \in Names, NEW n \in Names, Renamed(m, n),
         UNCHANGED <<kind, prev, prevTime>>
  PROVE  RateInv'
<1>1. /\ kind = "network" /\ m \in DOMAIN kernel /\ n \notin DOMAIN kernel
      /\ DOMAIN kernel' = (DOMAIN kernel \ {m}) \union {n}
      /\ kernel'[n] = kernel[m]
      /\ \A k \in DOMAIN kernel \ {m} : kernel'[k] = kernel[k]
      /\ fate' = [fate EXCEPT ![m] = "reset", ![n] = "renamed"]
      /\ UNCHANGED <<now, lives, waited, used>>
  BY DEF Renamed
<1>2. RateTypes'
  BY <1>1 DEF RateInv, RateTypes, IsReading
<1>3. Bounded'
  BY <1>1 DEF RateInv, RateTypes, IsReading, Bounded
<1>4. Continues'
  BY <1>1 DEF RateInv, RateTypes, Continues
<1> QED
  BY <1>1, <1>2, <1>3, <1>4 DEF RateInv, Replaced

-----------------------------------------------------------------------------
\* What a read makes of the counters.

\* A successful read remembers what it saw, of which the rest is then counted.
LEMMA CollectKeeps ==
  ASSUME RateInv, Collect
  PROVE  RateInv'
<1>1. PICK visible \in SUBSET DOMAIN kernel : prev' = [n \in visible |-> kernel[n]]
                                              /\ fate' = [n \in Names |-> IF n \in visible THEN "steady" ELSE "reset"]
  BY DEF Collect
<1>2. /\ prevTime' = now /\ waited' = 0 /\ used' = [n \in Names |-> Nothing]
      /\ UNCHANGED <<kind, now, kernel, lives>>
  BY DEF Collect
<1>3. RateTypes'
  BY <1>1, <1>2 DEF RateInv, RateTypes, IsReading, Nothing
<1>4. \A n \in visible : kernel[n] \in Source /\ n \in Names
  BY DEF RateInv, RateTypes, IsReading
<1>5. Bounded' /\ Continues'
  BY <1>1, <1>2, <1>4 DEF Bounded, Continues, Nothing, Source, Counters
<1>6. Replaced'
  BY <1>1, <1>2, <1>4 DEF RateInv, Replaced
<1> QED
  BY <1>3, <1>5, <1>6 DEF RateInv

\* The invariant holds throughout.
LEMMA RateInvariant == Spec => []RateInv
<1>1. Init => RateInv
  BY DEF Init, RateInv, RateTypes, IsReading, Bounded, Continues, Replaced, Nothing, Kinds
<1>2. RateInv /\ [Next]_rvars => RateInv'
  <2> SUFFICES ASSUME RateInv, [Next]_rvars PROVE RateInv'
    OBVIOUS
  <2>1. CASE KernelStep
    <3>1. UNCHANGED <<kind, prev, prevTime>>
      BY <2>1 DEF KernelStep
    <3> QED
      BY <2>1, <3>1, PassesKeeps, WorksKeeps, AppearsKeeps, VanishesKeeps, RenamedKeeps
         DEF KernelStep
  <2>2. CASE Collect
    BY <2>2, CollectKeeps
  <2>3. CASE CollectFails
    BY <2>3 DEF CollectFails, RateInv, RateTypes, IsReading, Bounded, Continues, Replaced
  <2>4. CASE UNCHANGED rvars
    BY <2>4 DEF rvars, RateInv, RateTypes, IsReading, Bounded, Continues, Replaced
  <2> QED
    BY <2>1, <2>2, <2>3, <2>4 DEF Next
<1> QED
  BY <1>1, <1>2, PTL DEF Spec

-----------------------------------------------------------------------------
\* What a read reports.

\* Subtracting counters of which the later is not lower.
LEMMA ThroughputIsExact ==
  ASSUME NEW p \in Source, NEW c \in Source, Monotone(p, c), NEW elapsed \in Nat
  PROVE  /\ Throughput(p, c, elapsed) = [a |-> c.a - p.a, b |-> c.b - p.b, over |-> elapsed]
         /\ ProcessUsage(p, c, elapsed)
              = [a |-> c.a - p.a, b |-> c.b - p.b, over |-> elapsed * Capacity]
BY DEF Source, Counters, Monotone, Since, Throughput, ProcessUsage

LEMMA IdleIsZero ==
  ASSUME NEW elapsed \in Nat
  PROVE  Idle(elapsed) = [a |-> 0, b |-> 0, over |-> elapsed * Capacity]
BY DEF Idle, ProcessUsage, Throughput, Since, Nothing

\* A core whose counters moved by a and b was busy for a of a + b.
LEMMA CPUUsageIsExact ==
  ASSUME NEW p \in Source, NEW c \in Source, NEW a \in Nat, NEW b \in Nat,
         c.a = p.a + a, c.b = p.b + b, NEW elapsed \in Nat
  PROVE  CPUUsage(p, c, elapsed) = [a |-> a, b |-> b, over |-> a + b]
<1> DEFINE total == (c.a + c.b) - (p.a + p.b)
           busy == c.a - p.a
<1>1. CPUUsage(p, c, elapsed) =
        IF total <= 0 THEN [a |-> 0, b |-> 0, over |-> 0]
        ELSE IF busy < 0 THEN [a |-> 0, b |-> total, over |-> total]
        ELSE IF busy > total THEN [a |-> total, b |-> 0, over |-> total]
        ELSE [a |-> busy, b |-> total - busy, over |-> total]
  BY DEF CPUUsage
<1>2. total = a + b /\ busy = a
  BY DEF Source, Counters
<1> HIDE DEF total, busy
<1>3. ~(busy < 0) /\ ~(busy > total) /\ total - busy = b
  BY <1>2
<1>4. total <= 0 => a = 0 /\ b = 0
  BY <1>2
<1> QED
  BY <1>1, <1>2, <1>3, <1>4

\* What Collect reports, of which names and made of what.
LEMMA CollectReports ==
  ASSUME RateInv, Collect
  PROVE  /\ prev' = [n \in DOMAIN prev' |-> kernel[n]] /\ DOMAIN prev' \subseteq DOMAIN kernel
         /\ kind # "process" => DOMAIN prev' = DOMAIN kernel
         /\ report' = Report(prev', waited) /\ waited \in Nat
         /\ \A n \in DOMAIN prev' : kernel[n] \in Source /\ n \in Names
         /\ \A n \in DOMAIN prev : prev[n] \in Source
         /\ \A n \in Names : used[n].a \in Nat /\ used[n].b \in Nat
BY DEF Collect, RateInv, RateTypes, IsReading

\* NeverOverstated holds of every behaviour.
THEOREM WorkIsNotInvented == Spec => NeverOverstated
<1>1. ASSUME RateInv, Collect, kind # "cpu", NEW n \in DOMAIN report', fate[n] # "renamed"
      PROVE  report'[n].a <= used[n].a /\ report'[n].b <= used[n].b
  <2> DEFINE cur == prev'
  <2>0. /\ report' = Report(cur, waited) /\ waited \in Nat
        /\ \A m \in DOMAIN cur : cur[m] = kernel[m] /\ cur[m] \in Source /\ m \in Names
                                 /\ m \in DOMAIN kernel
        /\ \A m \in DOMAIN prev : prev[m] \in Source
        /\ \A m \in Names : used[m].a \in Nat /\ used[m].b \in Nat
    BY <1>1, CollectReports
  <2> HIDE DEF cur
  <2>1. ASSUME n \in DOMAIN cur \intersect DOMAIN prev, Monotone(prev[n], cur[n])
        PROVE  cur[n].a - prev[n].a <= used[n].a /\ cur[n].b - prev[n].b <= used[n].b
    BY <1>1, <2>0, <2>1 DEF RateInv, Bounded, Source, Counters
  <2>2. CASE kind \in {"network", "diskio"}
    <3>1. /\ n \in DOMAIN cur \intersect DOMAIN prev /\ Monotone(prev[n], cur[n])
          /\ report'[n] = Throughput(prev[n], cur[n], waited)
      BY <1>1, <2>0, <2>2 DEF Report, NetworkReport, DiskIOReport, Comparable
    <3> QED
      BY <2>0, <2>1, <3>1, ThroughputIsExact
  <2>3. CASE kind = "process"
    <3>1. /\ n \in DOMAIN cur
          /\ report'[n] = IF n \in DOMAIN prev /\ waited > 0 /\ SameProcess(prev[n], cur[n])
                          THEN ProcessUsage(prev[n], cur[n], waited) ELSE Idle(waited)
      BY <1>1, <2>0, <2>3 DEF Report, ProcessReport
    <3>2. CASE n \in DOMAIN prev /\ waited > 0 /\ SameProcess(prev[n], cur[n])
      BY <2>0, <2>1, <3>1, <3>2, ThroughputIsExact DEF SameProcess
    <3>3. CASE ~(n \in DOMAIN prev /\ waited > 0 /\ SameProcess(prev[n], cur[n]))
      BY <2>0, <3>1, <3>3, IdleIsZero
    <3> QED
      BY <3>2, <3>3
  <2> QED
    BY <1>1, <2>2, <2>3 DEF RateInv, RateTypes, Kinds
<1>2. RateInv => [Collect /\ kind # "cpu" =>
                    \A n \in DOMAIN report' :
                      fate[n] # "renamed" =>
                        report'[n].a <= used[n].a /\ report'[n].b <= used[n].b]_rvars
  BY <1>1
<1> QED
  BY <1>2, RateInvariant, PTL DEF NeverOverstated

-----------------------------------------------------------------------------
(* Rankings. *)

\* n comes after Place(f, n) - 1 others.
Place(f, n) == Cardinality({m \in DOMAIN f : m = n \/ Before(f, m, n)})

Sorts(s, f) ==
  /\ s \in [1..Cardinality(DOMAIN f) -> DOMAIN f]
  /\ \A i, j \in DOMAIN s : i < j => Before(f, s[i], s[j])

Rankable(f) ==
  /\ IsFiniteSet(DOMAIN f) /\ DOMAIN f \subseteq Nat
  /\ \A n \in DOMAIN f : f[n] \in Nat

\* Any two names have different places, so that every place is taken.
LEMMA PlacesAreTaken ==
  ASSUME NEW f, Rankable(f)
  PROVE  /\ Cardinality(DOMAIN f) \in Nat
         /\ \A n \in DOMAIN f : Place(f, n) \in 1..Cardinality(DOMAIN f)
         /\ \A m, n \in DOMAIN f : Before(f, m, n) <=> Place(f, m) < Place(f, n)
         /\ \A i \in 1..Cardinality(DOMAIN f) : \E n \in DOMAIN f : Place(f, n) = i
<1> DEFINE S == DOMAIN f
           N == Cardinality(S)
           Upto(n) == {m \in S : m = n \/ Before(f, m, n)}
           g == [n \in S |-> Place(f, n)]
<1>1. IsFiniteSet(S) /\ S \subseteq Nat /\ \A n \in S : f[n] \in Nat
  BY DEF Rankable
<1>2. N \in Nat
  BY <1>1, FS_CardinalityType
<1>3. \A n \in S : Place(f, n) = Cardinality(Upto(n))
  BY DEF Place
<1>4. \A m, n \in S : m # n => (Before(f, m, n) <=> ~Before(f, n, m))
  BY <1>1 DEF Before
<1>5. \A n \in S : ~Before(f, n, n)
  BY <1>1 DEF Before
<1>6. \A k, m, n \in S : Before(f, k, m) /\ Before(f, m, n) => Before(f, k, n)
  BY <1>1 DEF Before
<1> HIDE DEF S, N
<1>7. ASSUME NEW n \in S PROVE Place(f, n) \in 1..N
  <2>1. Upto(n) \in SUBSET S /\ n \in Upto(n)
    OBVIOUS
  <2> HIDE DEF Upto
  <2>2. /\ IsFiniteSet(Upto(n)) /\ Cardinality(Upto(n)) <= N /\ Cardinality(Upto(n)) \in Nat
        /\ Cardinality(Upto(n)) # 0
    <3>1. IsFiniteSet(Upto(n)) /\ Cardinality(Upto(n)) <= N
      BY <1>1, <2>1, FS_Subset DEF N
    <3> QED
      BY <2>1, <3>1, FS_CardinalityType, FS_EmptySet
  <2> QED
    BY <1>2, <1>3, <2>2
<1>8. ASSUME NEW m \in S, NEW n \in S, Before(f, m, n) PROVE Place(f, m) < Place(f, n)
  <2>1. Upto(m) \in SUBSET Upto(n) /\ n \in Upto(n) /\ n \notin Upto(m) /\ Upto(n) \in SUBSET S
    BY <1>4, <1>5, <1>6, <1>8
  <2> HIDE DEF Upto
  <2>2. IsFiniteSet(Upto(n))
    BY <1>1, <2>1, FS_Subset
  <2>3. /\ Cardinality(Upto(m)) <= Cardinality(Upto(n))
        /\ Cardinality(Upto(m)) # Cardinality(Upto(n))
    BY <2>1, <2>2, FS_Subset
  <2>4. Cardinality(Upto(m)) \in Nat /\ Cardinality(Upto(n)) \in Nat
    BY <1>3, <1>7
  <2> QED
    BY <1>3, <2>3, <2>4
<1>9. \A m, n \in S : Before(f, m, n) <=> Place(f, m) < Place(f, n)
  <2> SUFFICES ASSUME NEW m \in S, NEW n \in S, Place(f, m) < Place(f, n)
               PROVE  Before(f, m, n)
    BY <1>8
  <2>1. Place(f, m) \in Nat /\ Place(f, n) \in Nat
    BY <1>7
  <2>2. m # n
    BY <2>1
  <2>3. ~Before(f, n, m)
    <3>1. ASSUME Before(f, n, m) PROVE FALSE
      <4>1. Place(f, n) < Place(f, m)
        BY <1>8, <3>1
      <4> QED
        BY <2>1, <4>1
    <3> QED
      BY <3>1
  <2> QED
    BY <1>4, <2>2, <2>3
<1>10. g \in Injection(S, 1..N)
  <2>1. g \in [S -> 1..N]
    BY <1>7
  <2>2. ASSUME NEW m \in S, NEW n \in S, Place(f, m) = Place(f, n) PROVE m = n
    <3>1. Place(f, m) \in Nat /\ ~(Place(f, m) < Place(f, n)) /\ ~(Place(f, n) < Place(f, m))
      BY <1>7, <2>2
    <3> QED
      BY <1>4, <1>9, <3>1
  <2> QED
    BY <2>1, <2>2 DEF Injection, IsInjective
<1> HIDE DEF g
<1>11. g \in Surjection(S, 1..N)
  <2>1. IsFiniteSet(1..N) /\ Cardinality(1..N) = N
    <3>1. 1 \in Int /\ N \in Int
      BY <1>2
    <3>2. IsFiniteSet(1..N) /\ Cardinality(1..N) = IF 1 > N THEN 0 ELSE N - 1 + 1
      BY <3>1, FS_Interval
    <3> QED
      BY <1>2, <3>2
  <2> QED
    BY <1>10, <2>1, FS_Injection DEF N
<1>12. \A i \in 1..N : \E n \in S : Place(f, n) = i
  BY <1>11 DEF g, Surjection
<1> QED
  BY <1>2, <1>7, <1>9, <1>12 DEF N, S

\* Hence there is a way to sort the names, and it leaves none out.
LEMMA SortedIsSorted ==
  ASSUME NEW f, Rankable(f)
  PROVE  /\ Sorts(Sorted(f), f)
         /\ \A n \in DOMAIN f : \E i \in DOMAIN Sorted(f) : Sorted(f)[i] = n
<1> DEFINE S == DOMAIN f
           N == Cardinality(S)
           q == [i \in 1..N |-> CHOOSE n \in S : Place(f, n) = i]
<1>1. /\ N \in Nat
      /\ \A m, n \in S : Before(f, m, n) <=> Place(f, m) < Place(f, n)
      /\ \A i \in 1..N : \E n \in S : Place(f, n) = i
  BY PlacesAreTaken
<1>2. \A i \in 1..N : q[i] \in S /\ Place(f, q[i]) = i
  BY <1>1
<1>3. Sorts(q, f)
  <2>1. q \in [1..N -> S]
    BY <1>2
  <2> HIDE DEF q
  <2> QED
    BY <1>1, <1>2, <2>1 DEF Sorts
<1>4. Sorts(Sorted(f), f)
  <2> HIDE DEF q
  <2> QED
    BY <1>3 DEF Sorts, Sorted
<1> DEFINE s == Sorted(f)
<1>5. s \in [1..N -> S] /\ \A i, j \in 1..N : i < j => Before(f, s[i], s[j])
  BY <1>4 DEF Sorts
<1> HIDE DEF s
<1>6. \A n \in S : ~Before(f, n, n)
  BY DEF Rankable, Before
<1>7. s \in Injection(1..N, S)
  <2>1. ASSUME NEW i \in 1..N, NEW j \in 1..N, s[i] = s[j] PROVE i = j
    <3>1. ~(i < j) /\ ~(j < i)
      BY <1>5, <1>6, <2>1
    <3> QED
      BY <1>1, <3>1
  <2> QED
    BY <1>5, <2>1 DEF Injection, IsInjective
<1>8. s \in Surjection(1..N, S)
  <2>1. Cardinality(1..N) = N
    <3>1. 1 \in Int /\ N \in Int
      BY <1>1
    <3>2. Cardinality(1..N) = IF 1 > N THEN 0 ELSE N - 1 + 1
      BY <3>1, FS_Interval
    <3> QED
      BY <1>1, <3>2
  <2>2. IsFiniteSet(S)
    BY DEF Rankable
  <2> QED
    BY <1>7, <2>1, <2>2, FS_Injection
<1>9. \A n \in S : \E i \in DOMAIN s : s[i] = n
  BY <1>5, <1>8 DEF Surjection
<1> QED
  BY <1>4, <1>9 DEF s

\* What is before something in a ranking is in it.
LEMMA RankingIsFair ==
  ASSUME NEW f, Rankable(f), NEW m \in DOMAIN f, NEW n \in ToSet(Ranking(f))
  PROVE  n \in DOMAIN f /\ (f[m] > f[n] => m \in ToSet(Ranking(f)))
<1> DEFINE s == Sorted(f)
           N == Cardinality(DOMAIN f)
           k == IF TopN > Len(s) THEN Len(s) ELSE TopN
<1>1. N \in Nat /\ TopN \in Nat
  BY PlacesAreTaken, WidthAssumption
<1>2. /\ s \in [1..N -> DOMAIN f]
      /\ \A i, j \in 1..N : i < j => Before(f, s[i], s[j])
      /\ \E i \in 1..N : s[i] = m
  BY SortedIsSorted DEF Sorts
<1> HIDE DEF s
<1>3. s \in Seq(DOMAIN f) /\ Len(s) = N
  BY <1>1, <1>2
<1>4. k \in 0..N
  BY <1>1, <1>3
<1>5. Ranking(f) = SubSeq(s, 1, k)
  BY DEF Ranking, TopProcesses, s
<1> HIDE DEF k
<1>6. ToSet(Ranking(f)) = {s[i] : i \in 1..k}
  <2>1. 1 \in Int /\ k \in Int /\ \A i \in 1..k : s[i] \in DOMAIN f
    BY <1>1, <1>2, <1>4
  <2>2. /\ SubSeq(s, 1, k) \in Seq(DOMAIN f)
        /\ Len(SubSeq(s, 1, k)) = IF 1 <= k THEN k - 1 + 1 ELSE 0
        /\ \A i \in 1 .. k - 1 + 1 : SubSeq(s, 1, k)[i] = s[1 + i - 1]
    BY <2>1, SubSeqProperties
  <2> DEFINE q == SubSeq(s, 1, k)
  <2> HIDE DEF q
  <2>3. q \in Seq(DOMAIN f) /\ Len(q) = k
    BY <1>1, <1>4, <2>2 DEF q
  <2>4. ASSUME NEW i \in 1..k PROVE q[i] = s[i]
    <3>1. i \in 1 .. k - 1 + 1 /\ 1 + i - 1 = i
      BY <1>1, <1>4
    <3> QED
      BY <2>2, <3>1 DEF q
  <2>5. DOMAIN q = 1..k
    BY <2>3
  <2>6. ToSet(q) = {s[i] : i \in 1..k}
    BY <2>4, <2>5 DEF ToSet
  <2> QED
    BY <1>5, <2>6 DEF q
<1>7. PICK j \in 1..k : n = s[j]
  BY <1>6
<1>8. PICK i \in 1..N : s[i] = m
  BY <1>2
<1>9. j \in 1..N /\ n \in DOMAIN f
  BY <1>1, <1>2, <1>4, <1>7
<1>10. ASSUME f[m] > f[n] PROVE m \in ToSet(Ranking(f))
  <2>1. ~Before(f, n, m)
    BY <1>9, <1>10 DEF Rankable, Before
  <2>2. ~(j < i)
    BY <1>2, <1>7, <1>8, <1>9, <2>1
  <2>3. i \in 1..k
    BY <1>1, <1>4, <1>9, <2>2
  <2> QED
    BY <1>6, <1>8, <2>3
<1> QED
  BY <1>9, <1>10

-----------------------------------------------------------------------------
(* Sources that stay what they are. *)

\* A list of S has each element of S at its place (CPUReport).
LEMMA NthIsThere ==
  ASSUME NEW S \in SUBSET Names, NEW n \in S
  PROVE  Position(n, S) \in 1..Cardinality(S) /\ Nth(Position(n, S), S) = n
<1> DEFINE f == [m \in S |-> 0]
<1>1. DOMAIN f = S /\ \A m \in S : f[m] = 0 /\ m \in Nat
  BY NamesAssumption
<1>2. Rankable(f)
  BY <1>1, FS_Subset, NamesAssumption DEF Rankable
<1> HIDE DEF f
<1>3. \A k, m \in S : Before(f, k, m) <=> k < m
  BY <1>1 DEF Before
<1>4. ASSUME NEW m \in S PROVE Place(f, m) = Position(m, S)
  <2>1. {k \in DOMAIN f : k = m \/ Before(f, k, m)} = {k \in S : k <= m}
    BY <1>1, <1>3
  <2> QED
    BY <2>1 DEF Place, Position
<1>5. /\ \A m \in S : Position(m, S) \in 1..Cardinality(S)
      /\ \A k, m \in S : k < m <=> Position(k, S) < Position(m, S)
  BY <1>1, <1>2, <1>3, <1>4, PlacesAreTaken
<1>6. ASSUME NEW m \in S, Position(m, S) = Position(n, S) PROVE m = n
  <2>1. Position(m, S) \in Nat /\ Position(n, S) \in Nat
    BY <1>5
  <2>2. ~(m < n) /\ ~(n < m)
    BY <1>5, <1>6, <2>1
  <2> QED
    BY <1>1, <2>2
<1> QED
  BY <1>5, <1>6 DEF Nth

\* SteadyExact holds of every behaviour: what a source did between two reads that show it is
\* reported, of a core at its place among those of both reads (Collect).
THEOREM SteadyWorkIsReported == Spec => SteadyExact
<1>1. ASSUME RateInv, Collect, waited > 0,
             NEW n \in DOMAIN prev' \ (IF kind \in {"network", "diskio"} THEN Excluded ELSE {}),
             fate[n] = "steady"
      PROVE  ReportedAs(n, IF kind = "cpu" THEN Position(n, DOMAIN prev' \intersect DOMAIN prev)
                           ELSE n)
  <2> DEFINE cur == prev'
  <2>0. /\ report' = Report(cur, waited) /\ waited \in Nat
        /\ n \in DOMAIN cur /\ cur[n] = kernel[n] /\ cur[n] \in Source /\ n \in Names
        /\ used[n].a \in Nat /\ used[n].b \in Nat
    BY <1>1, CollectReports
  <2> HIDE DEF cur
  <2>1. /\ n \in DOMAIN prev /\ prev[n] \in Source
        /\ cur[n].a = prev[n].a + used[n].a /\ cur[n].b = prev[n].b + used[n].b
        /\ cur[n].born = prev[n].born
    BY <1>1, <2>0 DEF RateInv, RateTypes, IsReading, Continues
  <2>2. /\ Monotone(prev[n], cur[n])
        /\ cur[n].a - prev[n].a = used[n].a /\ cur[n].b - prev[n].b = used[n].b
    BY <2>0, <2>1 DEF Monotone, Source, Counters
  <2>3. CASE kind = "cpu"
    <3> DEFINE both == DOMAIN cur \intersect DOMAIN prev
               i == Position(n, both)
    <3>1. both \in SUBSET Names /\ n \in both
      BY <1>1, <2>0, <2>1 DEF RateInv, RateTypes, IsReading
    <3>2. i \in 1..Cardinality(both) /\ Nth(i, both) = n
      BY <3>1, NthIsThere
    <3>3. report' = [k \in 1..Cardinality(both) |->
                       CPUUsage(prev[Nth(k, both)], cur[Nth(k, both)], waited)]
      BY <2>0, <2>3 DEF Report, CPUReport
    <3> HIDE DEF both, i
    <3>4. i \in DOMAIN report' /\ report'[i] = CPUUsage(prev[n], cur[n], waited)
      BY <3>2, <3>3
    <3>5. ReportedAs(n, i)
      BY <2>0, <2>1, <2>3, <3>4, CPUUsageIsExact DEF TrueUsage, ReportedAs
    <3> QED
      BY <2>3, <3>5 DEF both, i, cur
  <2>4. CASE kind \in {"network", "diskio"}
    <3>1. n \in DOMAIN report' /\ report'[n] = Throughput(prev[n], cur[n], waited)
      BY <1>1, <2>0, <2>1, <2>2, <2>4 DEF Report, NetworkReport, DiskIOReport, Comparable
    <3> QED
      BY <2>0, <2>1, <2>2, <2>4, <3>1, ThroughputIsExact DEF TrueUsage, ReportedAs
  <2>5. CASE kind = "process"
    <3>1. n \in DOMAIN report' /\ report'[n] = ProcessUsage(prev[n], cur[n], waited)
      BY <1>1, <2>0, <2>1, <2>2, <2>5 DEF Report, ProcessReport, SameProcess
    <3>2. Capacity = IF Cores = 0 THEN 1 ELSE Cores
      BY WidthAssumption DEF Capacity
    <3> QED
      BY <2>0, <2>1, <2>2, <2>5, <3>1, <3>2, ThroughputIsExact DEF TrueUsage, ReportedAs
  <2> QED
    BY <1>1, <2>3, <2>4, <2>5 DEF RateInv, RateTypes, Kinds
<1>2. RateInv => [Collect /\ waited > 0 =>
                    \A n \in DOMAIN prev' \ (IF kind \in {"network", "diskio"} THEN Excluded ELSE {}) :
                      fate[n] = "steady" =>
                        ReportedAs(n, IF kind = "cpu"
                                      THEN Position(n, DOMAIN prev' \intersect DOMAIN prev)
                                      ELSE n)]_rvars
  BY <1>1
<1> QED
  BY <1>2, RateInvariant, PTL DEF SteadyExact

-----------------------------------------------------------------------------
(* Processes. *)

\* OwnUsage: what is reported of a process is its own, be its pid new, reused or
\* unchanged, and nothing busier than what is ranked is left out of the ranking (Collect).
THEOREM UsageIsItsOwn == Spec => OwnUsage
<1>1. ASSUME RateInv, Collect, kind = "process", NEW n \in DOMAIN report'
      PROVE  report'[n].a + report'[n].b = Mine(n)
  <2> DEFINE cur == prev'
  <2>0. /\ report' = Report(cur, waited) /\ waited \in Nat
        /\ \A m \in DOMAIN cur : cur[m] = kernel[m] /\ cur[m] \in Source /\ m \in Names
                                 /\ m \in DOMAIN kernel
        /\ \A m \in DOMAIN prev : prev[m] \in Source
        /\ \A m \in Names : used[m].a \in Nat /\ used[m].b \in Nat
    BY <1>1, CollectReports
  <2> HIDE DEF cur
  <2>1. /\ n \in DOMAIN cur
        /\ report'[n] = IF n \in DOMAIN prev /\ waited > 0 /\ SameProcess(prev[n], cur[n])
                        THEN ProcessUsage(prev[n], cur[n], waited) ELSE Idle(waited)
    BY <1>1, <2>0 DEF Report, ProcessReport
  <2>2. CASE fate[n] = "steady" /\ waited > 0
    <3>1. /\ n \in DOMAIN prev /\ prev[n] \in Source
          /\ cur[n].a = prev[n].a + used[n].a /\ cur[n].b = prev[n].b + used[n].b
          /\ cur[n].born = prev[n].born
      BY <1>1, <2>0, <2>1, <2>2 DEF RateInv, Continues
    <3>2. /\ SameProcess(prev[n], cur[n])
          /\ cur[n].a - prev[n].a = used[n].a /\ cur[n].b - prev[n].b = used[n].b
      BY <2>0, <2>1, <3>1 DEF SameProcess, Monotone, Source, Counters
    <3>3. report'[n] = ProcessUsage(prev[n], cur[n], waited)
      BY <2>1, <2>2, <3>1, <3>2
    <3>4. ProcessUsage(prev[n], cur[n], waited)
            = [a |-> used[n].a, b |-> used[n].b, over |-> waited * Capacity]
      BY <2>0, <2>1, <3>1, <3>2, ThroughputIsExact DEF SameProcess
    <3> QED
      BY <2>2, <3>3, <3>4 DEF Mine
  <2>3. CASE ~(fate[n] = "steady" /\ waited > 0)
    <3>1. ~(n \in DOMAIN prev /\ waited > 0 /\ SameProcess(prev[n], cur[n]))
      BY <1>1, <2>0, <2>1, <2>3 DEF RateInv, Replaced, SameProcess, Source
    <3> QED
      BY <2>0, <2>1, <2>3, <3>1, IdleIsZero DEF Mine
  <2> QED
    BY <2>2, <2>3
<1>2. ASSUME RateInv, Collect, kind = "process", NEW m \in DOMAIN report', NEW n \in ToSet(top'.cpu),
             Mine(m) > Mine(n)
      PROVE  m \in ToSet(top'.cpu)
  <2> DEFINE f == [k \in DOMAIN report' |-> report'[k].a + report'[k].b]
  <2>1. top'.cpu = Ranking(f)
    <3>1. PICK visible \in SUBSET DOMAIN kernel :
            LET cur == [k \in visible |-> kernel[k]]
                usage == Report(cur, now - prevTime)
            IN  /\ report' = usage
                /\ \E rss \in [IF kind = "process" THEN visible ELSE {} -> 0..1] :
                     top' = [cpu |-> IF kind = "process"
                                     THEN Ranking([k \in visible |-> usage[k].a + usage[k].b])
                                     ELSE << >>,
                             memory |-> Ranking(rss)]
      BY <1>2 DEF Collect
    <3>2. top'.cpu = Ranking([k \in visible |-> report'[k].a + report'[k].b])
      BY <1>2, <3>1
    <3>3. DOMAIN report' = visible
      BY <1>2, <3>1 DEF Report, ProcessReport
    <3> QED
      BY <3>2, <3>3
  <2>2. DOMAIN f = DOMAIN report' /\ \A k \in DOMAIN report' : f[k] = Mine(k)
    BY <1>1, <1>2
  <2>3. \A k \in DOMAIN report' : k \in Names /\ Mine(k) \in Nat
    <3>1. DOMAIN report' \subseteq Names
      BY <1>2, CollectReports DEF Report, ProcessReport
    <3>2. \A k \in Names : Mine(k) \in Nat
      BY <1>2, CollectReports DEF Mine
    <3> QED
      BY <3>1, <3>2
  <2> HIDE DEF f
  <2>4. Rankable(f)
    <3>1. DOMAIN f \in SUBSET Names /\ \A k \in DOMAIN f : f[k] \in Nat
      BY <2>2, <2>3
    <3> QED
      BY <3>1, FS_Subset, NamesAssumption DEF Rankable
  <2>5. n \in DOMAIN f /\ m \in DOMAIN f
    BY <1>2, <2>1, <2>2, <2>4, RankingIsFair
  <2>6. f[m] > f[n]
    BY <1>2, <2>2, <2>5
  <2> QED
    BY <1>2, <2>1, <2>4, <2>5, <2>6, RankingIsFair
<1>3. RateInv => [Collect /\ kind = "process" =>
                    /\ \A n \in DOMAIN report' : report'[n].a + report'[n].b = Mine(n)
                    /\ \A m \in DOMAIN report', n \in ToSet(top'.cpu) :
                         Mine(m) > Mine(n) => m \in ToSet(top'.cpu)]_rvars
  BY <1>1, <1>2
<1> QED
  BY <1>3, RateInvariant, PTL DEF OwnUsage
=============================================================================
