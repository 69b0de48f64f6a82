-------------------------- MODULE RateCollectors --------------------------
(***************************************************************************)
(* The collectors that turn cumulative kernel counters into rates: cpu.go, *)
(* network.go, diskio.go and process.go of internal/collector.  Each keeps *)
(* the counters of its last successful read and reports differences.       *)
(*                                                                         *)
(* A source is what has counters under a name: a core, an interface, a     *)
(* block device or the process with a pid.  Between two reads it may do    *)
(* work, wrap its counters, vanish, be replaced by another source of the   *)
(* same name, or take over a name.                                         *)
(***************************************************************************)
EXTENDS Integers, FiniteSets, SequencesExt

CONSTANTS Names,      \* names of cores, interfaces, devices; pids
          Excluded,   \* loopback; loop and ram devices and partitions
          Width,      \* counters count modulo Width
          Cores,      \* the core count, 0 if it could not be read
          TopN,       \* processes_top_n
          Steps,      \* time that may pass, one step
          MaxTime,    \* bound: the last instant
          MaxWork     \* bound: all the work that is done

ASSUME NamesAssumption == Names \subseteq Nat /\ IsFiniteSet(Names) /\ Excluded \subseteq Names
ASSUME WidthAssumption == Width \in Nat \ {0} /\ Cores \in Nat /\ TopN \in Nat
ASSUME BoundAssumption ==
  /\ Steps \subseteq Nat \ {0}
  /\ {MaxTime, MaxWork} \subseteq Nat

Kinds == {"cpu", "network", "diskio", "process"}

VARIABLES kind,     \* which collector this is
          now,      \* the monotonic clock
          kernel,   \* what the kernel has: the counters under each name
          prev,     \* the counters of the last successful read, none at first
          prevTime, \* its instant
          report,   \* the usage Collect just returned: of each name, or a list
          top,      \* the rankings made of it (processes only)
          lives,    \* how many processes bore each pid
          work,     \* history: all the work done
          waited,   \* history: time since the last successful read
          used,     \* history: work under each name since then
          fate      \* history: what became of the source of each name since then

rvars == <<kind, now, kernel, prev, prevTime, report, top, lives, work, waited, used, fate>>

Counters == 0..(Width - 1)
Nothing == [a |-> 0, b |-> 0]
NoRanking == [cpu |-> << >>, memory |-> << >>]

\* What the collector parses out of the kernel's file for one source: two counters
\* (busy and idle time; bytes received and sent; sectors read and written; user
\* and system time), and for a process the instant it started.
Source == [a: Counters, b: Counters, born: Nat]

\* Unsigned arithmetic on counters.
Added(c, d) == IF c + d >= Width THEN c + d - Width ELSE c + d
Since(c, d) == IF d < c THEN d - c + Width ELSE d - c

-----------------------------------------------------------------------------
\* One name in two successive reads.

\* usagePercent: busy time as a share of all time, clamped to 0..100%.
CPUUsage(p, c, elapsed) ==
  LET total == (c.a + c.b) - (p.a + p.b)
      busy == c.a - p.a
  IN  IF total <= 0 THEN [a |-> 0, b |-> 0, over |-> 0]
      ELSE IF busy < 0 THEN [a |-> 0, b |-> total, over |-> total]
      ELSE IF busy > total THEN [a |-> total, b |-> 0, over |-> total]
      ELSE [a |-> busy, b |-> total - busy, over |-> total]

\* The throughput of an interface or, in sectors, of a block device.
Throughput(p, c, elapsed) ==
  [a |-> Since(p.a, c.a), b |-> Since(p.b, c.b), over |-> elapsed]

\* Mutant: one counter is checked only.
MonotoneOne(p, c) == c.a >= p.a

\* A counter that went down was reset or wrapped, or is another source's.
Monotone(p, c) == c.a >= p.a /\ c.b >= p.b

\* Mutant: the start time is not compared.
SameProcessByPID(p, c) == Monotone(p, c)

\* A pid still names the process it named if the start time is the same.
SameProcess(p, c) == p.born = c.born /\ Monotone(p, c)

\* CPU time is measured against all cores, or one if their number is not known.
Capacity == IF Cores < 1 THEN 1 ELSE Cores

ProcessUsage(p, c, elapsed) ==
  [Throughput(p, c, elapsed) EXCEPT !.over = elapsed * Capacity]

Idle(elapsed) == ProcessUsage(Nothing, Nothing, elapsed)

-----------------------------------------------------------------------------
\* The report of a whole read `cur` after `elapsed`.

\* The place of n when S is listed in the order of /proc/stat, and back.
Position(n, S) == Cardinality({m \in S : m <= n})
Nth(i, S) == CHOOSE n \in S : Position(n, S) = i

\* Every core seen in both reads, one after the other and without its name.  The
\* line for all cores together, which is always there, is reported apart.
CPUReport(cur, elapsed) ==
  LET both == DOMAIN cur \intersect DOMAIN prev
  IN  [i \in 1..Cardinality(both) |->
         CPUUsage(prev[Nth(i, both)], cur[Nth(i, both)], elapsed)]

Comparable(cur, elapsed) ==
  {n \in DOMAIN cur \intersect DOMAIN prev : elapsed > 0 /\ Monotone(prev[n], cur[n])}

\* Every interface but the loopback.
NetworkReport(cur, elapsed) ==
  [n \in Comparable(cur, elapsed) \ Excluded |-> Throughput(prev[n], cur[n], elapsed)]

\* Every block device but virtual ones and partitions.
DiskIOReport(cur, elapsed) ==
  [n \in Comparable(cur, elapsed) \ Excluded |-> Throughput(prev[n], cur[n], elapsed)]

\* Every process; without an earlier sample of it its usage is zero.
ProcessReport(cur, elapsed) ==
  [n \in DOMAIN cur |->
     IF n \in DOMAIN prev /\ elapsed > 0 /\ SameProcess(prev[n], cur[n])
     THEN ProcessUsage(prev[n], cur[n], elapsed) ELSE Idle(elapsed)]

Report(cur, elapsed) ==
  CASE kind = "cpu" -> CPUReport(cur, elapsed)
    [] kind = "network" -> NetworkReport(cur, elapsed)
    [] kind = "diskio" -> DiskIOReport(cur, elapsed)
    [] kind = "process" -> ProcessReport(cur, elapsed)

\* The first TopN of a ranking.
TopProcesses(sorted) == SubSeq(sorted, 1, IF TopN > Len(sorted) THEN Len(sorted) ELSE TopN)

\* m is listed before n: by falling value, then by pid.
Before(f, m, n) == f[m] > f[n] \/ (f[m] = f[n] /\ m < n)

\* The names of f, sorted.
Sorted(f) ==
  CHOOSE s \in [1..Cardinality(DOMAIN f) -> DOMAIN f] :
    \A i, j \in DOMAIN s : i < j => Before(f, s[i], s[j])

Ranking(f) == TopProcesses(Sorted(f))

-----------------------------------------------------------------------------
\* The kernel.

Init ==
  /\ kind \in Kinds
  /\ now = 0 /\ kernel = << >> /\ prev = << >> /\ prevTime = 0
  /\ report = << >> /\ top = NoRanking
  /\ lives = [n \in Names |-> 0] /\ work = 0 /\ waited = 0
  /\ used = [n \in Names |-> Nothing]
  /\ fate = [n \in Names |-> "reset"]

Passes(d) ==
  /\ now + d <= MaxTime
  /\ now' = now + d /\ waited' = waited + d
  /\ UNCHANGED <<kernel, lives, work, used, fate>>

\* A source does work on one counter, which may wrap it; 64-bit counts of a
\* process's time do not.
Works(n, da, db) ==
  LET wraps == kernel[n].a + da >= Width \/ kernel[n].b + db >= Width
  IN  /\ n \in DOMAIN kernel /\ work < MaxWork
      /\ wraps => kind # "process"
      /\ work' = work + da + db
      /\ used' = [used EXCEPT ![n] = [a |-> @.a + da, b |-> @.b + db]]
      /\ kernel' = [kernel EXCEPT ![n].a = Added(@, da), ![n].b = Added(@, db)]
      /\ fate' = [fate EXCEPT ![n] = IF @ = "steady" /\ wraps THEN "reset" ELSE @]
      /\ UNCHANGED <<now, lives, waited>>

\* A new source starts to count at zero; a core keeps what it counted.
Appears(n, c) ==
  /\ n \notin DOMAIN kernel
  /\ c # 0 => kind = "cpu"
  /\ lives' = [lives EXCEPT ![n] = IF kind = "process" THEN @ + 1 ELSE 0]
  /\ lives'[n] <= MaxTime
  /\ kernel' = [m \in DOMAIN kernel \union {n} |->
                  IF m = n THEN [a |-> c, b |-> c, born |-> lives'[n]] ELSE kernel[m]]
  /\ fate' = [fate EXCEPT ![n] = "reset"]
  /\ UNCHANGED <<now, work, waited, used>>

Vanishes(n) ==
  /\ n \in DOMAIN kernel
  /\ kernel' = [m \in DOMAIN kernel \ {n} |-> kernel[m]]
  /\ fate' = [fate EXCEPT ![n] = "reset"]
  /\ UNCHANGED <<now, lives, work, waited, used>>

\* A network interface gets another name, with the counters it has.
Renamed(m, n) ==
  /\ kind = "network" /\ m \in DOMAIN kernel /\ n \notin DOMAIN kernel
  /\ kernel' = [k \in (DOMAIN kernel \ {m}) \union {n} |-> IF k = n THEN kernel[m] ELSE kernel[k]]
  /\ fate' = [fate EXCEPT ![m] = "reset", ![n] = "renamed"]
  /\ UNCHANGED <<now, lives, work, waited, used>>

KernelStep ==
  /\ \/ \E d \in Steps : Passes(d)
     \/ \E n \in Names : Works(n, 1, 0) \/ Works(n, 0, 1)
     \/ \E n \in Names, c \in {0, Width - 1} : Appears(n, c)
     \/ \E n \in Names : Vanishes(n)
     \/ \E m, n \in Names : Renamed(m, n)
  /\ report' = << >> /\ top' = NoRanking
  /\ UNCHANGED <<kind, prev, prevTime>>

-----------------------------------------------------------------------------
\* The collector.

\* Mutant: a failed read forgets the sample before it.
CollectFailsForgetting ==
  /\ prev' = << >> /\ report' = << >> /\ top' = NoRanking
  /\ UNCHANGED <<kind, now, kernel, prevTime, lives, work, waited, used, fate>>

\* The file cannot be read or parsed: an error, and the last sample is kept.
CollectFails ==
  /\ report' = << >> /\ top' = NoRanking
  /\ UNCHANGED <<kind, now, kernel, prev, prevTime, lives, work, waited, used, fate>>

\* A successful read.  A walk over the processes misses those that end meanwhile
\* or cannot be read; the other files show every source.
Collect ==
  \E visible \in SUBSET DOMAIN kernel :
    LET cur == [n \in visible |-> kernel[n]]
        usage == Report(cur, now - prevTime)
    IN  /\ kind # "process" => visible = DOMAIN kernel
        /\ report' = usage
        /\ \E rss \in [IF kind = "process" THEN visible ELSE {} -> 0..1] :
             top' = [cpu |-> IF kind = "process"
                             THEN Ranking([n \in visible |-> usage[n].a + usage[n].b])
                             ELSE << >>,
                     memory |-> Ranking(rss)]
        /\ prev' = cur
        /\ prevTime' = now /\ waited' = 0
        /\ used' = [n \in Names |-> Nothing]
        /\ fate' = [n \in Names |-> IF n \in visible THEN "steady" ELSE "reset"]
        /\ UNCHANGED <<kind, now, kernel, lives, work>>

Next == KernelStep \/ Collect \/ CollectFails

Spec == Init /\ [][Next]_rvars

-----------------------------------------------------------------------------

\* What is reported was done (Collect of network.go, diskio.go and process.go): no
\* rate exceeds the work under its name since the last successful read, be there
\* failed reads, wrapped counters or replaced sources in between.  Only an
\* interface that took over a name is taken for the one that had it before.
NeverOverstated ==
  [][Collect /\ kind # "cpu" =>
       \A n \in DOMAIN report' :
         fate[n] # "renamed" => report'[n].a <= used[n].a /\ report'[n].b <= used[n].b]_rvars

\* The truth about a source since the last successful read: its work and the time,
\* as the collector is to express them.
TrueUsage(n) ==
  [a |-> used[n].a, b |-> used[n].b,
   over |-> CASE kind = "cpu" -> used[n].a + used[n].b
              [] kind = "process" -> waited * (IF Cores = 0 THEN 1 ELSE Cores)
              [] OTHER -> waited]

\* The usage of n is reported, and under i.
ReportedAs(n, i) == i \in DOMAIN report' /\ report'[i] = TrueUsage(n)

\* What was done is reported (Collect of all four, and that a failed read keeps the
\* sample before it): a source that was in the last successful read and is in
\* this one, its counters not wrapped, is reported with exactly its work, over
\* exactly the time since then.  So is a core with its share of busy time, but
\* only at its place among the cores of both reads.
SteadyExact ==
  [][Collect /\ waited > 0 =>
       \A n \in DOMAIN prev' \ (IF kind \in {"network", "diskio"} THEN Excluded ELSE {}) :
         fate[n] = "steady" =>
           ReportedAs(n, IF kind = "cpu" THEN Position(n, DOMAIN prev' \intersect DOMAIN prev)
                         ELSE n)]_rvars

\* The work a process can be shown to have done since the last read.
Mine(n) == IF fate[n] = "steady" /\ waited > 0 THEN used[n].a + used[n].b ELSE 0

\* A process answers for itself (the start time in Collect of process.go, and its
\* rankings): its usage is its own since the last read or zero, never that of
\* another process with its pid, and no process that was busier than one in the
\* ranking is missing from it.
OwnUsage ==
  [][Collect /\ kind = "process" =>
       /\ \A n \in DOMAIN report' : report'[n].a + report'[n].b = Mine(n)
       /\ \A m \in DOMAIN report', n \in ToSet(top'.cpu) :
            Mine(m) > Mine(n) => m \in ToSet(top'.cpu)]_rvars
=============================================================================
