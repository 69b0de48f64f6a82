------------------------ MODULE RequestPath_proofs ------------------------
(***************************************************************************)
(* Proofs about RequestPath, for any number of requests, routes, slots and *)
(* writers: no slot and no writer is lost, shared or given back twice, and *)
(* no count is lost, however the counters are read meanwhile.              *)
(*                                                                         *)
(* What holds the slots together is that a request is between taking and   *)
(* giving back only if its route is behind apiRoute, which no step within  *)
(* changes (PathInv).  Of the counters, the sums by class and by route lag *)
(* behind the total by the requests that are between two increments        *)
(* (CountInv); a reader that goes on reading while they grow can only see  *)
(* less of what it reads first (Reader).                                   *)
(***************************************************************************)
EXTENDS RequestPath, FiniteSetTheorems, WellFoundedInduction, TLAPS

Within == {"admitted", "checking", "handling", "returned", "closed"}
Places == Within \union {"absent", "routing", "total", "class", "route", "done"}

\* The types of what the semaphore and the pool depend on.
PathTypes ==
  /\ pc \in [Requests -> Places]
  /\ path \in [Requests -> Routes \union {Gone}]
  /\ writer \in [Requests -> Writers \union {Gone}]
  /\ inFlight \in Int

\* Only handling is done of other routes too.
WrappedWithin == \A r \in Requests : pc[r] \in Within \ {"handling"} => Wrapped(path[r])

SlotsHeld == inFlight = Cardinality(Inside) /\ inFlight <= MaxInFlight

WritersHeld ==
  \A r \in Requests : writer[r] # Gone =>
    writer[r] \notin pool /\ \A q \in Requests \ {r} : writer[q] # writer[r]

PathInv == PathTypes /\ WrappedWithin /\ SlotsHeld /\ WritersHeld

\* The requests inside, and how many, at every instant of a finite number of them.
LEMMA InsideIsFinite == IsFiniteSet(Inside) /\ Cardinality(Inside) \in Nat
<1>1. Inside \subseteq Requests
  BY DEF Inside
<1> QED
  BY <1>1, RequestAssumption, FS_Subset, FS_CardinalityType

\* No step but the two of the semaphore changes who is inside.
LEMMA InsideKeeps ==
  ASSUME PathInv, NEW r \in Requests,
         Route(r) \/ TakesWriter(r) \/ ChecksKey(r) \/ Handles(r) \/ Panics(r) \/ Reads(r)
           \/ ReturnsWriter(r) \/ RecordsTotal(r) \/ RecordsClass(r) \/ RecordsRoute(r)
           \/ Arrives(r)
  PROVE  Inside' = Inside /\ PathTypes' /\ WrappedWithin' /\ UNCHANGED inFlight
<1> USE DEF PathInv, PathTypes, WrappedWithin, Inside, Wrapped, At, Within, Places
<1>1. CASE Route(r)
  BY <1>1 DEF Route
<1>2. CASE TakesWriter(r)
  BY <1>2 DEF TakesWriter
<1>3. CASE ChecksKey(r)
  BY <1>3 DEF ChecksKey
<1>4. CASE Handles(r)
  BY <1>4 DEF Handles, After
<1>5. CASE Panics(r)
  BY <1>5 DEF Panics, Ends
<1>6. CASE Reads(r)
  BY <1>6, RequestAssumption DEF Reads, After
<1>7. CASE ReturnsWriter(r)
  BY <1>7 DEF ReturnsWriter
<1>8. CASE RecordsTotal(r)
  BY <1>8 DEF RecordsTotal, Counts
<1>9. CASE RecordsClass(r)
  BY <1>9 DEF RecordsClass, Counts
<1>10. CASE RecordsRoute(r)
  BY <1>10 DEF RecordsRoute, Counts, Ends
<1>11. CASE Arrives(r)
  BY <1>11, RequestAssumption DEF Arrives, Routes
<1> QED
  BY <1>1, <1>2, <1>3, <1>4, <1>5, <1>6, <1>7, <1>8, <1>9, <1>10, <1>11

\* withMaxInFlight lets a request in only if there is room.
LEMMA TakingKeeps ==
  ASSUME PathInv, NEW r \in Requests, TakesSlot(r)
  PROVE  PathTypes' /\ WrappedWithin' /\ SlotsHeld' /\ UNCHANGED <<writer, pool>>
<1> USE DEF PathInv, PathTypes, WrappedWithin, Inside, Wrapped, At, Within, Places, TakesSlot
<1>1. PathTypes' /\ WrappedWithin' /\ UNCHANGED <<writer, pool>>
  OBVIOUS
<1>2. CASE inFlight < MaxInFlight
  <2>1. r \notin Inside /\ Inside' = Inside \union {r}
    BY <1>2
  <2>2. Cardinality(Inside') = Cardinality(Inside) + 1
    BY <2>1, InsideIsFinite, FS_AddElement
  <2> QED
    BY <1>1, <1>2, <2>2, InsideIsFinite, RequestAssumption DEF SlotsHeld
<1>3. CASE ~(inFlight < MaxInFlight)
  <2>1. Inside' = Inside /\ inFlight' = inFlight
    BY <1>3
  <2> QED
    BY <1>1, <2>1 DEF SlotsHeld
<1> QED
  BY <1>2, <1>3

\* The deferred call gives back the slot of a request that has one.
LEMMA GivingKeeps ==
  ASSUME PathInv, NEW r \in Requests, GivesSlotBack(r)
  PROVE  PathTypes' /\ WrappedWithin' /\ SlotsHeld' /\ UNCHANGED <<writer, pool>>
<1> USE DEF PathInv, PathTypes, WrappedWithin, Inside, Wrapped, At, Within, Places,
            GivesSlotBack, Leaves, Ends
<1>1. PathTypes' /\ WrappedWithin' /\ UNCHANGED <<writer, pool>>
  OBVIOUS
<1>2. r \in Inside /\ Inside' = Inside \ {r}
  OBVIOUS
<1>3. Cardinality(Inside') = Cardinality(Inside) - 1
  BY <1>2, InsideIsFinite, FS_RemoveElement, ZenonT(40)
<1> QED
  BY <1>1, <1>3, InsideIsFinite, RequestAssumption DEF SlotsHeld

\* A writer is taken that nobody has, and given back by who has it.
LEMMA WritersKeep ==
  ASSUME PathInv, NEW r \in Requests, Arrives(r) \/ Step(r)
  PROVE  WritersHeld'
<1> USE DEF PathInv, PathTypes, WritersHeld
<1>1. CASE TakesWriter(r)
  BY <1>1 DEF TakesWriter, Range
<1>2. CASE ReturnsWriter(r)
  BY <1>2 DEF ReturnsWriter
<1>3. CASE UNCHANGED <<writer, pool>>
  BY <1>3
<1> QED
  BY <1>1, <1>2, <1>3
     DEF Step, Route, TakesSlot, ChecksKey, Handles, Panics, Reads, GivesSlotBack,
         RecordsTotal, RecordsClass, RecordsRoute, Counts, Arrives

\* NothingLeaks holds of every behaviour, whatever the requests ask for and however
\* they end.
THEOREM NothingIsLeaked == Spec => []NothingLeaks
<1>1. Init => PathInv
  <2> SUFFICES ASSUME Init PROVE PathInv
    OBVIOUS
  <2>1. PathTypes /\ WrappedWithin /\ WritersHeld
    BY DEF Init, PathTypes, Places, Within, WrappedWithin, WritersHeld
  <2>2. Inside = {}
    BY DEF Init, Inside
  <2> QED
    BY <2>1, <2>2, FS_EmptySet, RequestAssumption DEF Init, PathInv, SlotsHeld
<1>2. PathInv /\ [Next]_vars => PathInv'
  <2> SUFFICES ASSUME PathInv, [Next]_vars PROVE PathInv'
    OBVIOUS
  <2>1. ASSUME NEW r \in Requests, Arrives(r) \/ Step(r)
        PROVE  PathInv'
    <3>1. CASE TakesSlot(r)
      BY <3>1, <2>1, TakingKeeps, WritersKeep DEF PathInv
    <3>2. CASE GivesSlotBack(r)
      BY <3>2, <2>1, GivingKeeps, WritersKeep DEF PathInv
    <3>3. CASE ~TakesSlot(r) /\ ~GivesSlotBack(r)
      <4>1. Inside' = Inside /\ PathTypes' /\ WrappedWithin' /\ inFlight' = inFlight
        BY <3>3, <2>1, InsideKeeps DEF Step
      <4> QED
        BY <4>1, <2>1, WritersKeep DEF PathInv, SlotsHeld
    <3> QED
      BY <3>1, <3>2, <3>3
  <2>2. CASE UNCHANGED vars
    BY <2>2 DEF vars, PathInv, PathTypes, WrappedWithin, SlotsHeld, WritersHeld, Inside, Wrapped
  <2> QED
    BY <2>1, <2>2 DEF Next
<1>3. PathInv => NothingLeaks
  BY DEF PathInv, SlotsHeld, WritersHeld, NothingLeaks
<1> QED
  BY <1>1, <1>2, <1>3, PTL DEF Spec

-----------------------------------------------------------------------------
\* Sums of counters.

Some(T) == CHOOSE x \in T : TRUE

\* What the fold of SumOver computes, subset by subset.
IsSum(sum, f, S) ==
  sum = [T \in SUBSET S |-> IF T = {} THEN 0 ELSE f[Some(T)] + sum[T \ {Some(T)}]]

LEMMA SumIsChosen ==
  ASSUME NEW f, NEW S
  PROVE  SumOver(f, S) = (CHOOSE sum : IsSum(sum, f, S))[S]
BY DEF SumOver, FoldFunctionOnSet, MapThenFoldSet, IsSum, Some

\* A set of naturals that is not empty has a least element.
LEMMA LeastNatural ==
  ASSUME NEW B, B \subseteq Nat, B # {}
  PROVE  \E n \in B : \A m \in B : n <= m
<1> DEFINE R == OpToRel(<, Nat)
<1>1. IsWellFoundedOn(R, Nat)
  BY NatLessThanWellFounded
<1>2. \A x, y \in Nat : x < y => <<x, y>> \in R
  BY DEF OpToRel
<1> HIDE DEF R
<1>3. PICK n \in B : \A m \in B : ~(<<m, n>> \in R)
  BY <1>1, WFMin
<1>4. \A m \in B : ~(m < n)
  BY <1>2, <1>3
<1> QED
  BY <1>4

\* The subsets of S with at most n elements.
UpTo(S, n) == {T \in SUBSET S : Cardinality(T) <= n}

LEMMA Smaller ==
  ASSUME NEW S, IsFiniteSet(S), NEW T \in SUBSET S, T # {}
  PROVE  /\ Some(T) \in T /\ T \ {Some(T)} \in SUBSET S
         /\ Cardinality(T) \in Nat \ {0} /\ Cardinality(T \ {Some(T)}) = Cardinality(T) - 1
<1>1. Some(T) \in T
  BY DEF Some
<1>2. IsFiniteSet(T) /\ Cardinality(T) \in Nat
  BY FS_Subset, FS_CardinalityType
<1>3. Cardinality(T) # 0
  BY <1>2, FS_EmptySet
<1> QED
  BY <1>1, <1>2, <1>3, FS_RemoveElement

\* Whatever holds of the empty set, and of a set if it holds of it without Some of it, holds
\* of every subset of a finite set.
LEMMA BySubsets ==
  ASSUME NEW S, IsFiniteSet(S), NEW B, {} \in B,
         \A T \in SUBSET S : T # {} /\ T \ {Some(T)} \in B => T \in B
  PROVE  \A T \in SUBSET S : T \in B
<1> SUFFICES ASSUME NEW Z \in SUBSET S, Z \notin B PROVE FALSE
  OBVIOUS
<1> DEFINE N == {Cardinality(T) : T \in {U \in SUBSET S : U \notin B}}
<1>1. \A T \in SUBSET S : IsFiniteSet(T) /\ Cardinality(T) \in Nat
  BY FS_Subset, FS_CardinalityType
<1>2. N \subseteq Nat /\ N # {}
  BY <1>1
<1>3. PICK n \in N : \A m \in N : n <= m
  BY <1>2, LeastNatural
<1>4. PICK T \in SUBSET S : T \notin B /\ n = Cardinality(T)
  BY <1>3
<1>5. T # {}
  BY <1>4
<1>6. /\ T \ {Some(T)} \in SUBSET S /\ Cardinality(T) \in Nat
      /\ Cardinality(T \ {Some(T)}) = Cardinality(T) - 1
  BY <1>5, Smaller
<1>7. T \ {Some(T)} \in B
  <2>1. SUFFICES ASSUME T \ {Some(T)} \notin B PROVE FALSE
    OBVIOUS
  <2>2. Cardinality(T) - 1 \in N
    BY <1>6, <2>1
  <2> HIDE DEF N
  <2> QED
    BY <1>3, <1>4, <1>6, <2>2
<1> QED
  BY <1>4, <1>5, <1>7

\* The recursion of the fold is one: there is a function that satisfies it.
LEMMA SumExists ==
  ASSUME NEW S, IsFiniteSet(S), NEW f
  PROVE  \E sum : IsSum(sum, f, S)
<1> DEFINE G(g, n) == g = [T \in UpTo(S, n) |-> IF T = {} THEN 0 ELSE f[Some(T)] + g[T \ {Some(T)}]]
           B == {n \in Nat : ~ \E g : G(g, n)}
<1>0. \A T \in SUBSET S : IsFiniteSet(T) /\ Cardinality(T) \in Nat /\ Cardinality(T) <= Cardinality(S)
  BY FS_Subset, FS_CardinalityType
<1>1. \E g : G(g, 0)
  <2> DEFINE g == [T \in UpTo(S, 0) |-> 0]
  <2>1. \A T \in UpTo(S, 0) : T = {}
    <3> SUFFICES ASSUME NEW T \in UpTo(S, 0), T # {} PROVE FALSE
      OBVIOUS
    <3>1. T \in SUBSET S /\ Cardinality(T) <= 0
      BY DEF UpTo
    <3>2. Cardinality(T) \in Nat \ {0}
      BY <3>1, Smaller
    <3> QED
      BY <3>1, <3>2
  <2>2. G(g, 0)
    BY <2>1
  <2> QED
    BY <2>2
<1>2. ASSUME NEW n \in Nat, n > 0, NEW h, G(h, n - 1)
      PROVE  \E g : G(g, n)
  <2> DEFINE g == [T \in UpTo(S, n) |-> IF T = {} THEN 0 ELSE f[Some(T)] + h[T \ {Some(T)}]]
  <2>1. UpTo(S, n - 1) \subseteq UpTo(S, n)
    BY <1>0, <1>2 DEF UpTo
  <2>2. \A U \in UpTo(S, n - 1) : g[U] = h[U]
    <3>1. \A U \in UpTo(S, n - 1) : h[U] = IF U = {} THEN 0 ELSE f[Some(U)] + h[U \ {Some(U)}]
      BY <1>2
    <3> QED
      BY <2>1, <3>1
  <2>3. ASSUME NEW T \in UpTo(S, n), T # {} PROVE T \ {Some(T)} \in UpTo(S, n - 1)
    BY <2>3, <1>0, Smaller DEF UpTo
  <2>4. \A T \in UpTo(S, n) : g[T] = IF T = {} THEN 0 ELSE f[Some(T)] + g[T \ {Some(T)}]
    BY <2>2, <2>3
  <2>5. g = [T \in UpTo(S, n) |-> g[T]]
    OBVIOUS
  <2> HIDE DEF g
  <2>6. G(g, n)
    BY <2>4, <2>5
  <2> QED
    BY <2>6
<1> HIDE DEF G
<1>3. \A n \in Nat : \E g : G(g, n)
  <2> SUFFICES ASSUME B # {} PROVE FALSE
    OBVIOUS
  <2>1. PICK n \in B : \A m \in B : n <= m
    BY LeastNatural
  <2>2. n # 0
    BY <1>1
  <2>3. n - 1 \in Nat /\ n - 1 \notin B
    BY <2>1, <2>2
  <2> QED
    BY <1>2, <2>1, <2>2, <2>3
<1>4. PICK g : G(g, Cardinality(S))
  BY <1>0, <1>3
<1>5. UpTo(S, Cardinality(S)) = SUBSET S
  BY <1>0 DEF UpTo
<1>6. IsSum(g, f, S)
  BY <1>4, <1>5 DEF IsSum, G
<1> QED
  BY <1>6

Sums(sum, f, S) ==
  /\ SumOver(f, S) = sum[S] /\ sum[{}] = 0
  /\ \A T \in SUBSET S : T # {} => sum[T] = f[Some(T)] + sum[T \ {Some(T)}]

LEMMA SumFacts ==
  ASSUME NEW S, IsFiniteSet(S), NEW f
  PROVE  \E sum : Sums(sum, f, S)
<1>1. PICK sum : IsSum(sum, f, S) /\ SumOver(f, S) = sum[S]
  BY SumExists, SumIsChosen
<1>2. \A T \in SUBSET S : sum[T] = IF T = {} THEN 0 ELSE f[Some(T)] + sum[T \ {Some(T)}]
  BY <1>1 DEF IsSum
<1> QED
  BY <1>1, <1>2 DEF Sums

\* A sum changes by what one of its terms changes.
LEMMA SumUpdate ==
  ASSUME NEW S, IsFiniteSet(S), NEW f, NEW g, NEW c \in S,
         \A x \in S : f[x] \in Int /\ g[x] \in Int,
         \A x \in S \ {c} : g[x] = f[x]
  PROVE  /\ SumOver(f, S) \in Int /\ SumOver(g, S) \in Int
         /\ SumOver(g, S) = SumOver(f, S) + (g[c] - f[c])
<1>1. PICK sf : Sums(sf, f, S)
  BY SumFacts
<1>2. PICK sg : Sums(sg, g, S)
  BY SumFacts
<1> USE DEF Sums
<1> DEFINE B == {T \in SUBSET S : /\ sf[T] \in Int /\ sg[T] \in Int
                                  /\ sg[T] = sf[T] + IF c \in T THEN g[c] - f[c] ELSE 0}
<1>3. {} \in B
  BY <1>1, <1>2
<1>4. ASSUME NEW T \in SUBSET S, T # {}, T \ {Some(T)} \in B PROVE T \in B
  <2>1. Some(T) \in T
    BY <1>4, Smaller
  <2>2. /\ sf[T] = f[Some(T)] + sf[T \ {Some(T)}] /\ sg[T] = g[Some(T)] + sg[T \ {Some(T)}]
    BY <1>1, <1>2, <1>4
  <2>3. CASE Some(T) = c
    <3>1. c \in T /\ c \notin T \ {Some(T)}
      BY <2>1, <2>3
    <3>2. sg[T \ {Some(T)}] = sf[T \ {Some(T)}]
      BY <1>4, <3>1
    <3> QED
      BY <1>4, <2>2, <2>3, <3>1, <3>2
  <2>4. CASE Some(T) # c
    <3>1. c \in T <=> c \in T \ {Some(T)}
      BY <2>4
    <3>2. g[Some(T)] = f[Some(T)] /\ f[Some(T)] \in Int
      BY <2>1, <2>4
    <3> QED
      BY <1>4, <2>2, <3>1, <3>2
  <2> QED
    BY <2>3, <2>4
<1>5. S \in B
  <2> HIDE DEF B
  <2>1. \A T \in SUBSET S : T \in B
    BY <1>3, <1>4, BySubsets
  <2> QED
    BY <2>1
<1> QED
  BY <1>1, <1>2, <1>5

\* A sum grows with its terms.
LEMMA SumGrows ==
  ASSUME NEW S, IsFiniteSet(S), NEW f, NEW g,
         \A x \in S : f[x] \in Int /\ g[x] \in Int /\ f[x] <= g[x]
  PROVE  SumOver(f, S) \in Int /\ SumOver(g, S) \in Int /\ SumOver(f, S) <= SumOver(g, S)
<1>1. PICK sf : Sums(sf, f, S)
  BY SumFacts
<1>2. PICK sg : Sums(sg, g, S)
  BY SumFacts
<1> USE DEF Sums
<1> DEFINE B == {T \in SUBSET S : sf[T] \in Int /\ sg[T] \in Int /\ sf[T] <= sg[T]}
<1>3. {} \in B
  BY <1>1, <1>2
<1>4. ASSUME NEW T \in SUBSET S, T # {}, T \ {Some(T)} \in B PROVE T \in B
  <2>1. Some(T) \in S
    BY <1>4, Smaller
  <2>2. /\ sf[T] = f[Some(T)] + sf[T \ {Some(T)}] /\ sg[T] = g[Some(T)] + sg[T \ {Some(T)}]
    BY <1>1, <1>2, <1>4
  <2> QED
    BY <1>4, <2>1, <2>2
<1>5. S \in B
  <2> HIDE DEF B
  <2>1. \A T \in SUBSET S : T \in B
    BY <1>3, <1>4, BySubsets
  <2> QED
    BY <2>1
<1> QED
  BY <1>1, <1>2, <1>5

\* A sum of nothing.
LEMMA SumOfZeros ==
  ASSUME NEW S, IsFiniteSet(S), NEW f, \A x \in S : f[x] = 0
  PROVE  SumOver(f, S) = 0
<1>1. PICK sf : Sums(sf, f, S)
  BY SumFacts
<1> USE DEF Sums
<1> DEFINE B == {T \in SUBSET S : sf[T] = 0}
<1>2. {} \in B
  BY <1>1
<1>3. ASSUME NEW T \in SUBSET S, T # {}, T \ {Some(T)} \in B PROVE T \in B
  <2>1. Some(T) \in S
    BY <1>3, Smaller
  <2> QED
    BY <1>1, <1>3, <2>1
<1>4. S \in B
  <2> HIDE DEF B
  <2>1. \A T \in SUBSET S : T \in B
    BY <1>2, <1>3, BySubsets
  <2> QED
    BY <2>1
<1> QED
  BY <1>1, <1>4

-----------------------------------------------------------------------------
\* The counters.

ByClass == SumOver(count, Range(Classes))
ByRoute == SumOver(count, Routes)

\* The requests that have been counted in total and not by class, by class and not by route.
Halfway(place) == {r \in Requests : pc[r] = place}

Numbers == [Counters -> Nat]
Seen == [read: SUBSET Counters, total: Nat, classes: Nat, routes: Nat]

CountTypes ==
  /\ pc \in [Requests -> Places]
  /\ path \in [Requests -> Routes \union {Gone}]
  /\ status \in [Requests -> Range(Classes) \union {"panic", Gone}]
  /\ count \in Numbers /\ seen \in [Requests -> Seen]

\* What is counted has a route and, at the end, a status.
Counted ==
  \A r \in Requests :
    /\ pc[r] \in Places \ {"absent", "done"} => path[r] \in Routes
    /\ pc[r] \in {"returned", "closed"} => status[r] \in Range(Classes) \union {"panic"}
    /\ pc[r] \in {"total", "class"} => status[r] \in Range(Classes)

Balanced ==
  /\ count["total"] = ByClass + Cardinality(Halfway("class"))
  /\ ByClass = ByRoute + Cardinality(Halfway("route"))

\* The counts of S that are in R, and 0 for the others.
Only(f, S, R) == [c \in S |-> IF c \in R THEN f[c] ELSE 0]

\* What a reader s has seen by route is no more than the total it reads next, and no more than
\* what it has seen by class and what it is still to see.
Reader(f, s) ==
  /\ "total" \in s.read => Routes \subseteq s.read /\ s.routes <= s.total
  /\ "total" \notin s.read =>
       Range(Classes) \intersect s.read = {} /\ s.classes = 0 /\ s.total = 0
  /\ s.routes <= SumOver(Only(f, Routes, s.read), Routes)
  /\ Routes \subseteq s.read =>
       s.routes <= s.classes + SumOver(Only(f, Range(Classes), Counters \ s.read), Range(Classes))

ReadInv == \A r \in Requests : Reader(count, seen[r])

CountInv == CountTypes /\ Counted /\ Balanced /\ ReadInv

LEMMA CounterNames ==
  /\ IsFiniteSet(Routes) /\ IsFiniteSet(Range(Classes)) /\ Routes # {}
  /\ Range(Classes) = {"2xx", "4xx", "5xx"} /\ "total" \notin Range(Classes) /\ "total" \notin Routes
  /\ Range(Classes) \intersect Routes = {}
  /\ Counters = {"total"} \union Range(Classes) \union Routes
  /\ Routes \subseteq Counters /\ Range(Classes) \subseteq Counters /\ "total" \in Counters
<1>1. Range(Classes) = {"2xx", "4xx", "5xx"}
  <2>1. DOMAIN Classes = 1..3 /\ Classes[1] = "2xx" /\ Classes[2] = "4xx" /\ Classes[3] = "5xx"
    BY DEF Classes
  <2>2. \A i \in 1..3 : i = 1 \/ i = 2 \/ i = 3
    OBVIOUS
  <2>3. 1 \in 1..3 /\ 2 \in 1..3 /\ 3 \in 1..3
    OBVIOUS
  <2> QED
    BY <2>1, <2>2, <2>3 DEF Range
<1>2. IsFiniteSet({"2xx", "4xx", "5xx"})
  <2>1. IsFiniteSet({"2xx"}) /\ IsFiniteSet({"4xx"}) /\ IsFiniteSet({"5xx"})
    BY FS_Singleton
  <2>2. IsFiniteSet({"2xx"} \union {"4xx"})
    BY <2>1, FS_Union
  <2>3. IsFiniteSet(({"2xx"} \union {"4xx"}) \union {"5xx"})
    BY <2>1, <2>2, FS_Union
  <2>4. ({"2xx"} \union {"4xx"}) \union {"5xx"} = {"2xx", "4xx", "5xx"}
    OBVIOUS
  <2> QED
    BY <2>3, <2>4
<1>3. /\ Range(Classes) \intersect Routes = {} /\ "total" \notin Routes /\ IsFiniteSet(Routes)
      /\ Health \in Routes
  BY RequestAssumption DEF Routes
<1> QED
  BY <1>1, <1>2, <1>3 DEF Counters

\* One more in a counter is one more in the sums it is part of.
LEMMA SumIncrement ==
  ASSUME NEW S, IsFiniteSet(S), NEW f, NEW g, NEW c,
         \A x \in S : f[x] \in Int /\ g[x] = IF x = c THEN f[x] + 1 ELSE f[x]
  PROVE  SumOver(f, S) \in Int /\ SumOver(g, S) = SumOver(f, S) + IF c \in S THEN 1 ELSE 0
<1>1. \A x \in S : f[x] \in Int /\ g[x] \in Int
  OBVIOUS
<1>2. CASE c \in S
  <2>1. \A x \in S \ {c} : g[x] = f[x]
    OBVIOUS
  <2>2. g[c] - f[c] = 1
    BY <1>2
  <2>3. /\ SumOver(f, S) \in Int /\ SumOver(g, S) \in Int
        /\ SumOver(g, S) = SumOver(f, S) + (g[c] - f[c])
    BY <1>1, <1>2, <2>1, SumUpdate
  <2> QED
    BY <1>2, <2>2, <2>3
<1>3. CASE c \notin S
  <2>1. \A x \in S : f[x] <= g[x] /\ g[x] <= f[x]
    BY <1>3
  <2>2. SumOver(f, S) \in Int /\ SumOver(g, S) \in Int /\ SumOver(f, S) <= SumOver(g, S)
    BY <1>1, <2>1, SumGrows
  <2>3. SumOver(g, S) <= SumOver(f, S)
    BY <1>1, <2>1, SumGrows
  <2> QED
    BY <1>3, <2>2, <2>3
<1> QED
  BY <1>2, <1>3

LEMMA OneMore ==
  ASSUME CountTypes, NEW c \in Counters, count' = [count EXCEPT ![c] = @ + 1],
         NEW S \in SUBSET Counters, IsFiniteSet(S)
  PROVE  /\ SumOver(count, S) \in Int
         /\ SumOver(count', S) = SumOver(count, S) + IF c \in S THEN 1 ELSE 0
<1>1. \A x \in S : count[x] \in Int /\ count'[x] = IF x = c THEN count[x] + 1 ELSE count[x]
  BY DEF CountTypes, Numbers
<1> DEFINE f == count
           g == count'
<1>2. \A x \in S : f[x] \in Int /\ g[x] = IF x = c THEN f[x] + 1 ELSE f[x]
  BY <1>1
<1> HIDE DEF f, g
<1>3. SumOver(f, S) \in Int /\ SumOver(g, S) = SumOver(f, S) + IF c \in S THEN 1 ELSE 0
  BY <1>2, SumIncrement
<1> QED
  BY <1>3 DEF f, g

\* A counter read as 0 so far is read.
LEMMA SumRead ==
  ASSUME NEW S, IsFiniteSet(S), NEW h, NEW g, NEW c, c \in S, NEW d, d \in Int,
         \A x \in S : h[x] \in Int /\ g[x] = IF x = c THEN d ELSE h[x]
  PROVE  SumOver(h, S) \in Int /\ SumOver(g, S) = SumOver(h, S) + (d - h[c])
<1>1. \A x \in S : h[x] \in Int /\ g[x] \in Int
  OBVIOUS
<1>2. \A x \in S \ {c} : g[x] = h[x]
  OBVIOUS
<1>3. /\ SumOver(h, S) \in Int /\ SumOver(g, S) \in Int
      /\ SumOver(g, S) = SumOver(h, S) + (g[c] - h[c])
  BY <1>1, <1>2, SumUpdate
<1>4. g[c] = d
  OBVIOUS
<1> QED
  BY <1>3, <1>4

\* All of the counters, one more of them, and none.
LEMMA OnlyFacts ==
  ASSUME NEW f \in Numbers, NEW S \in SUBSET Counters, IsFiniteSet(S), NEW R
  PROVE  /\ SumOver(Only(f, S, R), S) \in Int /\ SumOver(f, S) \in Int
         /\ S \subseteq R => SumOver(Only(f, S, R), S) = SumOver(f, S)
         /\ S \intersect R = {} => SumOver(Only(f, S, R), S) = 0
         /\ \A c \in S \ R :
              SumOver(Only(f, S, R \union {c}), S) = SumOver(Only(f, S, R), S) + f[c]
<1> DEFINE h == Only(f, S, R)
<1>1. \A x \in S : h[x] \in Int /\ f[x] \in Int /\ h[x] = IF x \in R THEN f[x] ELSE 0
  BY DEF Only, Numbers
<1>2. SumOver(h, S) \in Int /\ SumOver(f, S) \in Int
  <2> HIDE DEF h
  <2>1. \A x \in S : h[x] <= h[x] /\ f[x] <= f[x]
    BY <1>1
  <2> QED
    BY <1>1, <2>1, SumGrows
<1>3. S \subseteq R => SumOver(h, S) = SumOver(f, S)
  <2> SUFFICES ASSUME S \subseteq R PROVE SumOver(h, S) = SumOver(f, S)
    OBVIOUS
  <2> HIDE DEF h
  <2>1. \A x \in S : h[x] <= f[x] /\ f[x] <= h[x]
    BY <1>1
  <2>2. SumOver(h, S) <= SumOver(f, S)
    BY <1>1, <2>1, SumGrows
  <2>3. SumOver(f, S) <= SumOver(h, S)
    BY <1>1, <2>1, SumGrows
  <2> QED
    BY <1>2, <2>2, <2>3
<1>4. S \intersect R = {} => SumOver(h, S) = 0
  <2> HIDE DEF h
  <2> QED
    BY <1>1, SumOfZeros
<1>5. ASSUME NEW c \in S \ R
      PROVE  SumOver(Only(f, S, R \union {c}), S) = SumOver(h, S) + f[c]
  <2> DEFINE g == Only(f, S, R \union {c})
  <2>1. \A x \in S : g[x] \in Int
    BY <1>1 DEF Only
  <2>2. \A x \in S \ {c} : g[x] = h[x]
    BY <1>1 DEF Only
  <2>3. g[c] = f[c] /\ h[c] = 0 /\ f[c] \in Int
    BY <1>1 DEF Only
  <2> HIDE DEF h, g
  <2>4. c \in S /\ \A x \in S : h[x] \in Int /\ g[x] = IF x = c THEN f[c] ELSE h[x]
    BY <1>1, <2>2, <2>3
  <2>5. SumOver(h, S) \in Int /\ SumOver(g, S) = SumOver(h, S) + (f[c] - h[c])
    BY <2>3, <2>4, SumRead
  <2>6. SumOver(g, S) = SumOver(h, S) + f[c]
    BY <2>3, <2>5
  <2> QED
    BY <2>6 DEF g
<1> QED
  BY <1>2, <1>3, <1>4, <1>5

\* Counting does not take away from what a reader has seen or is to see.
LEMMA OnlyGrows ==
  ASSUME NEW f \in Numbers, NEW g \in Numbers, \A x \in Counters : f[x] <= g[x],
         NEW S \in SUBSET Counters, IsFiniteSet(S), NEW R
  PROVE  SumOver(Only(f, S, R), S) <= SumOver(Only(g, S, R), S)
<1> DEFINE h == Only(f, S, R)
           k == Only(g, S, R)
<1>1. \A x \in S : h[x] \in Int /\ k[x] \in Int /\ h[x] <= k[x]
  BY DEF Only, Numbers
<1> HIDE DEF h, k
<1> QED
  BY <1>1, SumGrows DEF h, k

\* A request that has read nothing.
LEMMA NothingRead ==
  ASSUME NEW f \in Numbers
  PROVE  Reader(f, NotRead) /\ NotRead \in Seen
<1>1. NotRead.read = {} /\ NotRead.total = 0 /\ NotRead.classes = 0 /\ NotRead.routes = 0
  BY DEF NotRead
<1>2. SumOver(Only(f, Routes, {}), Routes) = 0
  <2>1. Routes \intersect {} = {} /\ Routes \in SUBSET Counters /\ IsFiniteSet(Routes)
    BY CounterNames
  <2> QED
    BY <2>1, OnlyFacts
<1>3. NotRead \in Seen
  BY DEF NotRead, Seen
<1>4. /\ "total" \notin {} /\ Range(Classes) \intersect {} = {} /\ ~(Routes \subseteq {})
      /\ NotRead.routes <= SumOver(Only(f, Routes, NotRead.read), Routes)
  BY <1>1, <1>2, CounterNames
<1> QED
  BY <1>1, <1>3, <1>4 DEF Reader

\* Counting does not disturb a reader.
LEMMA ReaderStays ==
  ASSUME NEW f \in Numbers, NEW g \in Numbers, \A x \in Counters : f[x] <= g[x],
         NEW s \in Seen, Reader(f, s)
  PROVE  Reader(g, s)
<1> DEFINE U == Counters \ s.read
<1>1. /\ SumOver(Only(f, Routes, s.read), Routes) <= SumOver(Only(g, Routes, s.read), Routes)
      /\ SumOver(Only(f, Routes, s.read), Routes) \in Int
      /\ SumOver(Only(g, Routes, s.read), Routes) \in Int
  BY CounterNames, OnlyGrows, OnlyFacts
<1>2. /\ SumOver(Only(f, Range(Classes), U), Range(Classes))
           <= SumOver(Only(g, Range(Classes), U), Range(Classes))
      /\ SumOver(Only(f, Range(Classes), U), Range(Classes)) \in Int
      /\ SumOver(Only(g, Range(Classes), U), Range(Classes)) \in Int
  <2> HIDE DEF U
  <2> QED
    BY CounterNames, OnlyGrows, OnlyFacts
<1>3. s.routes \in Nat /\ s.classes \in Nat
  BY DEF Seen
<1> QED
  BY <1>1, <1>2, <1>3 DEF Reader

Loaded(s, c, f) == [s EXCEPT !.read = @ \union {c}, ![Group(c)] = @ + f[c]]

\* One more load of the snapshot, of counters that are in balance up to those that are
\* counted halfway.
LEMMA ReaderReads ==
  ASSUME NEW f \in Numbers, NEW s \in Seen, Reader(f, s), NEW c \in NextReads(s.read),
         SumOver(f, Routes) <= SumOver(f, Range(Classes)), SumOver(f, Range(Classes)) <= f["total"],
         NEW s2, s2 = Loaded(s, c, f)
  PROVE  Reader(f, s2) /\ s2 \in Seen
<1> DEFINE C == Range(Classes)
           read2 == s.read \union {c}
           sum(S, R) == SumOver(Only(f, S, R), S)
<1>0. /\ s.read \in SUBSET Counters /\ s.routes \in Nat /\ s.classes \in Nat /\ s.total \in Nat
      /\ s = [read |-> s.read, total |-> s.total, classes |-> s.classes, routes |-> s.routes]
  BY DEF Seen
<1>1. /\ IsFiniteSet(Routes) /\ IsFiniteSet(C) /\ Routes # {} /\ "total" \notin C /\ "total" \notin Routes
      /\ C \intersect Routes = {} /\ Counters = {"total"} \union C \union Routes
      /\ Routes \subseteq Counters /\ C \subseteq Counters
  BY CounterNames
<1>2. \A R : /\ sum(Routes, R) \in Int /\ SumOver(f, Routes) \in Int
             /\ Routes \subseteq R => sum(Routes, R) = SumOver(f, Routes)
             /\ \A x \in Routes \ R : sum(Routes, R \union {x}) = sum(Routes, R) + f[x]
  BY <1>1, OnlyFacts
<1>3. \A R : /\ sum(C, R) \in Int /\ SumOver(f, C) \in Int
             /\ C \subseteq R => sum(C, R) = SumOver(f, C)
             /\ \A x \in C \ R : sum(C, R \union {x}) = sum(C, R) + f[x]
  <2> HIDE DEF C
  <2> QED
    BY <1>1, OnlyFacts
<1>4. c \in Counters \ s.read /\ f[c] \in Nat
  <2>1. c \in Counters \ s.read
    BY <1>1 DEF NextReads, Range
  <2> QED
    BY <2>1 DEF Numbers
<1> HIDE DEF sum, C
<1>5. /\ "total" \in s.read => Routes \subseteq s.read /\ s.routes <= s.total
      /\ "total" \notin s.read => C \intersect s.read = {} /\ s.classes = 0 /\ s.total = 0
      /\ s.routes <= sum(Routes, s.read)
      /\ Routes \subseteq s.read => s.routes <= s.classes + sum(C, Counters \ s.read)
  BY DEF Reader, C, sum
<1>6. SUFFICES /\ s2 \in Seen
               /\ "total" \in s2.read => Routes \subseteq s2.read /\ s2.routes <= s2.total
               /\ "total" \notin s2.read => C \intersect s2.read = {} /\ s2.classes = 0 /\ s2.total = 0
               /\ s2.routes <= sum(Routes, s2.read)
               /\ Routes \subseteq s2.read => s2.routes <= s2.classes + sum(C, Counters \ s2.read)
  BY DEF Reader, C, sum
<1>7. CASE c \in Routes
  <2>1. Group(c) = "routes"
    BY <1>1, <1>7 DEF Group
  <2>2. s2 = [read |-> read2, total |-> s.total, classes |-> s.classes, routes |-> s.routes + f[c]]
    BY <1>0, <2>1 DEF Loaded
  <2>3. s2.read = read2 /\ s2.total = s.total /\ s2.classes = s.classes /\ s2.routes = s.routes + f[c]
    BY <2>2
  <2>4. s2 \in Seen
    BY <1>0, <1>4, <2>2 DEF Seen
  <2>5. "total" \notin s.read
    BY <1>4, <1>5, <1>7
  <2>6. "total" \notin read2 /\ C \intersect read2 = {} /\ s.classes = 0 /\ s.total = 0
    BY <1>1, <1>5, <1>7, <2>5
  <2>7. sum(Routes, read2) = sum(Routes, s.read) + f[c]
    BY <1>2, <1>4, <1>7
  <2>8. s2.routes <= sum(Routes, read2)
    <3>1. sum(Routes, s.read) \in Int /\ s.routes <= sum(Routes, s.read)
      BY <1>2, <1>5
    <3> QED
      BY <1>0, <1>4, <2>3, <2>7, <3>1
  <2>9. Routes \subseteq read2 => s2.routes <= s.classes + sum(C, Counters \ read2)
    <3> SUFFICES ASSUME Routes \subseteq read2 PROVE s2.routes <= s.classes + sum(C, Counters \ read2)
      OBVIOUS
    <3>1. sum(Routes, read2) = SumOver(f, Routes)
      BY <1>2
    <3>2. C \subseteq Counters \ read2
      BY <1>1, <2>6
    <3>3. sum(C, Counters \ read2) = SumOver(f, C)
      BY <1>3, <3>2
    <3>4. SumOver(f, Routes) <= SumOver(f, C)
      BY DEF C
    <3> QED
      BY <1>0, <1>2, <1>3, <1>4, <2>3, <2>6, <2>8, <3>1, <3>3, <3>4
  <2> QED
    BY <2>3, <2>4, <2>6, <2>8, <2>9
<1>8. CASE c = "total"
  <2>1. Group(c) = "total" /\ Routes \subseteq s.read
    BY <1>1, <1>8 DEF Group, NextReads, Range, C
  <2>2. s2 = [read |-> read2, total |-> s.total + f[c], classes |-> s.classes, routes |-> s.routes]
    BY <1>0, <2>1 DEF Loaded
  <2>3. s2.read = read2 /\ s2.total = s.total + f[c] /\ s2.classes = s.classes /\ s2.routes = s.routes
    BY <2>2
  <2>4. s2 \in Seen
    BY <1>0, <1>4, <2>2 DEF Seen
  <2>5. s.total = 0
    BY <1>4, <1>5, <1>8
  <2>6. s.routes <= s.total + f[c]
    <3>1. s.routes <= SumOver(f, Routes)
      BY <1>2, <1>5, <2>1
    <3>2. SumOver(f, Routes) <= SumOver(f, C) /\ SumOver(f, C) <= f[c] /\ f[c] \in Nat
      BY <1>4, <1>8 DEF C
    <3> QED
      BY <1>0, <1>2, <1>3, <2>5, <3>1, <3>2
  <2>7. sum(Routes, read2) = sum(Routes, s.read) /\ sum(C, Counters \ read2) = sum(C, Counters \ s.read)
    <3>1. Only(f, Routes, read2) = Only(f, Routes, s.read)
      BY <1>1, <1>8 DEF Only
    <3>2. Only(f, C, Counters \ read2) = Only(f, C, Counters \ s.read)
      BY <1>1, <1>8 DEF Only
    <3> QED
      BY <3>1, <3>2 DEF sum
  <2> QED
    BY <1>5, <1>8, <2>1, <2>3, <2>4, <2>6, <2>7
<1>9. CASE c \in C
  <2>1. Group(c) = "classes" /\ Routes \subseteq s.read /\ "total" \in s.read
    BY <1>1, <1>9 DEF Group, NextReads
  <2>2. s2 = [read |-> read2, total |-> s.total, classes |-> s.classes + f[c], routes |-> s.routes]
    BY <1>0, <2>1 DEF Loaded
  <2>3. s2.read = read2 /\ s2.total = s.total /\ s2.classes = s.classes + f[c] /\ s2.routes = s.routes
    BY <2>2
  <2>4. s2 \in Seen
    BY <1>0, <1>4, <2>2 DEF Seen
  <2>5. sum(Routes, read2) = sum(Routes, s.read)
    <3>1. Only(f, Routes, read2) = Only(f, Routes, s.read)
      BY <1>1, <1>9 DEF Only
    <3> QED
      BY <3>1 DEF sum
  <2>6. sum(C, Counters \ s.read) = sum(C, Counters \ read2) + f[c]
    <3>1. c \in C \ (Counters \ read2) /\ (Counters \ read2) \union {c} = Counters \ s.read
      BY <1>4, <1>9
    <3> QED
      BY <1>3, <3>1
  <2>7. s.routes <= (s.classes + f[c]) + sum(C, Counters \ read2)
    BY <1>0, <1>3, <1>4, <1>5, <2>1, <2>6
  <2> QED
    BY <1>5, <2>1, <2>3, <2>4, <2>5, <2>7
<1> QED
  BY <1>1, <1>4, <1>7, <1>8, <1>9

\* A step that counts nothing leaves the balance alone.
LEMMA UncountedTypes ==
  ASSUME CountTypes, Counted, NEW r \in Requests,
         Route(r) \/ TakesSlot(r) \/ TakesWriter(r) \/ ChecksKey(r) \/ Handles(r) \/ Panics(r)
           \/ ReturnsWriter(r) \/ GivesSlotBack(r) \/ Arrives(r)
  PROVE  /\ CountTypes' /\ Counted' /\ count' = count
         /\ Halfway("class")' = Halfway("class") /\ Halfway("route")' = Halfway("route")
         /\ \A q \in Requests : seen'[q] = seen[q] \/ seen'[q] = NotRead
<1>0. NotRead \in Seen
  BY DEF NotRead, Seen
<1> USE CounterNames DEF CountTypes, Counted, Halfway, At, Within, Places
<1>1. CASE Route(r)
  BY <1>1 DEF Route, Answers
<1>2. CASE TakesSlot(r)
  BY <1>2 DEF TakesSlot, Answers
<1>3. CASE TakesWriter(r)
  BY <1>3 DEF TakesWriter
<1>4. CASE ChecksKey(r)
  BY <1>4 DEF ChecksKey, Answers
<1>5. CASE Handles(r)
  <2>1. PICK c \in {"2xx", "5xx"} : Answers(r, c)
    BY <1>5 DEF Handles
  <2>2. /\ At(r, "handling", "returned") \/ At(r, "handling", "total")
        /\ UNCHANGED <<path, count, seen>>
    BY <1>5 DEF Handles, After
  <2> QED
    BY <2>1, <2>2 DEF Answers
<1>6. CASE Panics(r)
  <2>1. CASE Wrapped(path[r])
    BY <1>6, <2>1 DEF Panics, Answers
  <2>2. CASE ~Wrapped(path[r])
    <3>1. At(r, "handling", "done") /\ Ends(r) /\ count' = count
      BY <1>6, <2>2 DEF Panics
    <3> QED
      BY <1>0, <3>1 DEF Ends
  <2> QED
    BY <2>1, <2>2
<1>7. CASE ReturnsWriter(r)
  BY <1>7 DEF ReturnsWriter
<1>8. CASE GivesSlotBack(r)
  <2>1. CASE status[r] = "panic"
    <3>1. At(r, "closed", "done") /\ Ends(r) /\ count' = count
      BY <1>8, <2>1 DEF GivesSlotBack, Leaves
    <3> QED
      BY <1>0, <3>1 DEF Ends
  <2>2. CASE status[r] # "panic"
    <3>1. At(r, "closed", "total") /\ UNCHANGED <<path, status, seen, count>>
      BY <1>8, <2>2 DEF GivesSlotBack, Leaves
    <3> QED
      BY <2>2, <3>1
  <2> QED
    BY <2>1, <2>2
<1>9. CASE Arrives(r)
  <2>1. PICK p \in Asks[r] : path' = [path EXCEPT ![r] = p]
    BY <1>9 DEF Arrives
  <2>2. p \in Routes
    BY RequestAssumption
  <2>3. At(r, "absent", "routing") /\ UNCHANGED <<status, count, seen>>
    BY <1>9 DEF Arrives
  <2> QED
    BY <2>1, <2>2, <2>3
<1> QED
  BY <1>1, <1>2, <1>3, <1>4, <1>5, <1>6, <1>7, <1>8, <1>9


\* Where a counter is incremented: in total first, then by class, and by route at last, so that
\* each request is in at most one sum that the next one does not have yet.
LEMMA CountingKeeps ==
  ASSUME CountInv, NEW r \in Requests, RecordsTotal(r) \/ RecordsClass(r) \/ RecordsRoute(r)
  PROVE  /\ CountTypes' /\ Counted' /\ Balanced'
         /\ \A x \in Counters : count[x] <= count'[x]
         /\ \A q \in Requests : seen'[q] = seen[q] \/ seen'[q] = NotRead
<1> DEFINE c == IF pc[r] = "total" THEN "total" ELSE IF pc[r] = "class" THEN status[r] ELSE path[r]
           next == IF pc[r] = "total" THEN "class" ELSE IF pc[r] = "class" THEN "route" ELSE "done"
           C == Range(Classes)
<1> USE DEF At
<1>0. CountTypes /\ Counted /\ Balanced
  BY DEF CountInv
<1>1. /\ pc[r] \in {"total", "class", "route"} /\ pc' = [pc EXCEPT ![r] = next]
      /\ count' = [count EXCEPT ![c] = @ + 1]
      /\ \/ pc[r] = "route" /\ Ends(r)
         \/ pc[r] # "route" /\ UNCHANGED <<path, status, seen>>
  <2>1. CASE RecordsTotal(r)
    BY <2>1 DEF RecordsTotal, Counts
  <2>2. CASE RecordsClass(r)
    BY <2>2 DEF RecordsClass, Counts
  <2>3. CASE RecordsRoute(r)
    BY <2>3 DEF RecordsRoute, Counts
  <2> QED
    BY <2>1, <2>2, <2>3
<1>2. /\ pc[r] = "total" => c = "total" /\ next = "class"
      /\ pc[r] = "class" => c \in C /\ next = "route"
      /\ pc[r] = "route" => c \in Routes /\ next = "done"
      /\ c \in Counters
  BY <1>0, <1>1, CounterNames DEF Counted, Places
<1> HIDE DEF c, next
<1>3. CountTypes' /\ Counted'
  <2>1. count' \in Numbers
    BY <1>0, <1>1, <1>2 DEF CountTypes, Numbers
  <2>2. pc' \in [Requests -> Places]
    BY <1>0, <1>1, <1>2 DEF CountTypes, Places
  <2>3. NotRead \in Seen
    BY DEF NotRead, Seen
  <2>4. CASE UNCHANGED <<path, status, seen>> /\ pc[r] # "route"
    BY <1>0, <1>1, <1>2, <2>1, <2>2, <2>4 DEF CountTypes, Counted, Places, Within
  <2>5. CASE pc[r] = "route" /\ Ends(r)
    BY <1>0, <1>1, <1>2, <2>1, <2>2, <2>3, <2>5 DEF CountTypes, Counted, Places, Within, Ends
  <2> QED
    BY <1>1, <2>4, <2>5
<1>4. /\ count'["total"] = count["total"] + (IF pc[r] = "total" THEN 1 ELSE 0)
      /\ ByClass' = ByClass + (IF pc[r] = "class" THEN 1 ELSE 0)
      /\ ByRoute' = ByRoute + (IF pc[r] = "route" THEN 1 ELSE 0)
      /\ count["total"] \in Nat /\ ByClass \in Int /\ ByRoute \in Int
  <2>0. count["total"] \in Nat /\ count'["total"] = IF c = "total" THEN count["total"] + 1 ELSE count["total"]
    BY <1>0, <1>1, CounterNames DEF CountTypes, Numbers
  <2>1. ByClass \in Int /\ ByClass' = ByClass + IF c \in C THEN 1 ELSE 0
    <3>1. /\ SumOver(count, C) \in Int
          /\ SumOver(count', C) = SumOver(count, C) + IF c \in C THEN 1 ELSE 0
      BY <1>0, <1>1, <1>2, CounterNames, OneMore
    <3> QED
      BY <3>1 DEF ByClass
  <2>2. ByRoute \in Int /\ ByRoute' = ByRoute + IF c \in Routes THEN 1 ELSE 0
    <3>1. /\ SumOver(count, Routes) \in Int
          /\ SumOver(count', Routes) = SumOver(count, Routes) + IF c \in Routes THEN 1 ELSE 0
      BY <1>0, <1>1, <1>2, CounterNames, OneMore
    <3> QED
      BY <3>1 DEF ByRoute
  <2>3. /\ c = "total" <=> pc[r] = "total"
        /\ c \in C <=> pc[r] = "class"
        /\ c \in Routes <=> pc[r] = "route"
    BY <1>1, <1>2, CounterNames
  <2> QED
    BY <2>0, <2>1, <2>2, <2>3
<1>5. ASSUME NEW place \in {"class", "route"}
      PROVE  /\ IsFiniteSet(Halfway(place)) /\ Cardinality(Halfway(place)) \in Nat
             /\ pc[r] = place => Cardinality(Halfway(place)') = Cardinality(Halfway(place)) - 1
             /\ next = place => Cardinality(Halfway(place)') = Cardinality(Halfway(place)) + 1
             /\ pc[r] # place /\ next # place => Halfway(place)' = Halfway(place)
  <2>1. IsFiniteSet(Halfway(place)) /\ Cardinality(Halfway(place)) \in Nat
    <3>1. Halfway(place) \subseteq Requests
      BY DEF Halfway
    <3> QED
      BY <3>1, RequestAssumption, FS_Subset, FS_CardinalityType
  <2>2. /\ pc[r] = place => r \in Halfway(place) /\ Halfway(place)' = Halfway(place) \ {r}
        /\ next = place => r \notin Halfway(place) /\ Halfway(place)' = Halfway(place) \union {r}
        /\ pc[r] # place /\ next # place => Halfway(place)' = Halfway(place)
    BY <1>0, <1>1, <1>2 DEF Halfway, CountTypes
  <2> QED
    BY <2>1, <2>2, FS_AddElement, FS_RemoveElement
<1>6. Balanced'
  <2> DEFINE half(place) == Cardinality(Halfway(place))
  <2>1. /\ half("class") \in Nat /\ half("route") \in Nat
        /\ pc[r] = "total" => half("class")' = half("class") + 1 /\ half("route")' = half("route")
        /\ pc[r] = "class" => half("class")' = half("class") - 1 /\ half("route")' = half("route") + 1
        /\ pc[r] = "route" => half("class")' = half("class") /\ half("route")' = half("route") - 1
    BY <1>2, <1>5
  <2> HIDE DEF half
  <2>2. count["total"] = ByClass + half("class") /\ ByClass = ByRoute + half("route")
    BY <1>0 DEF Balanced, half
  <2>3. count'["total"] = ByClass' + half("class")' /\ ByClass' = ByRoute' + half("route")'
    BY <1>1, <1>4, <2>1, <2>2
  <2> QED
    BY <2>3 DEF Balanced, half
<1>7. \A x \in Counters : count[x] <= count'[x]
  BY <1>0, <1>1 DEF CountTypes, Numbers
<1>8. \A q \in Requests : seen'[q] = seen[q] \/ seen'[q] = NotRead
  BY <1>0, <1>1 DEF Ends, CountTypes
<1> QED
  BY <1>3, <1>6, <1>7, <1>8

\* A load of the snapshot.
LEMMA ReadingKeeps ==
  ASSUME CountInv, NEW r \in Requests, Reads(r)
  PROVE  CountInv'
<1>0. CountTypes /\ Counted /\ Balanced /\ ReadInv
  BY DEF CountInv
<1>1. PICK c \in NextReads(seen[r].read) : seen' = [seen EXCEPT ![r] = Loaded(seen[r], c, count)]
  BY <1>0 DEF Reads, Loaded, CountTypes, Seen
<1>2. count' = count /\ path' = path
  BY DEF Reads
<1>3. seen[r] \in Seen /\ count \in Numbers
  BY <1>0 DEF CountTypes
<1>4. SumOver(count, Routes) <= SumOver(count, Range(Classes)) /\ SumOver(count, Range(Classes)) <= count["total"]
  <2>1. ByRoute \in Int /\ ByClass \in Int
    BY <1>3, CounterNames, OnlyFacts DEF ByRoute, ByClass
  <2>2. Cardinality(Halfway("class")) \in Nat /\ Cardinality(Halfway("route")) \in Nat
    <3>1. Halfway("class") \subseteq Requests /\ Halfway("route") \subseteq Requests
      BY DEF Halfway
    <3> QED
      BY <3>1, RequestAssumption, FS_Subset, FS_CardinalityType
  <2> QED
    BY <1>0, <2>1, <2>2 DEF Balanced, ByRoute, ByClass
<1>5. Reader(count, Loaded(seen[r], c, count)) /\ Loaded(seen[r], c, count) \in Seen
  BY <1>0, <1>3, <1>4, ReaderReads DEF ReadInv
<1>6. ReadInv'
  BY <1>0, <1>1, <1>2, <1>5 DEF ReadInv, CountTypes
<1>7. /\ (pc' = pc /\ status' = status)
           \/ (/\ pc' = [pc EXCEPT ![r] = After(r)] /\ pc[r] = "handling"
               /\ status' = [status EXCEPT ![r] = "2xx"])
  BY DEF Reads, At, Answers
<1>8. After(r) \in {"returned", "total"}
  BY DEF After
<1>9. CountTypes' /\ Counted'
  BY <1>0, <1>1, <1>2, <1>5, <1>7, <1>8, CounterNames DEF CountTypes, Counted, Places, Within
<1>10. Halfway("class")' = Halfway("class") /\ Halfway("route")' = Halfway("route")
  BY <1>0, <1>7, <1>8 DEF Halfway, CountTypes
<1>11. Balanced'
  BY <1>0, <1>2, <1>10 DEF Balanced, ByClass, ByRoute
<1> QED
  BY <1>6, <1>9, <1>11 DEF CountInv

LEMMA CountInvKeeps ==
  ASSUME CountInv, NEW r \in Requests, Arrives(r) \/ Step(r)
  PROVE  CountInv'
<1>0. CountTypes /\ Counted /\ Balanced /\ ReadInv
  BY DEF CountInv
<1>1. ASSUME CountTypes', \A x \in Counters : count[x] <= count'[x],
             \A q \in Requests : seen'[q] = seen[q] \/ seen'[q] = NotRead
      PROVE  ReadInv'
  <2>1. count \in Numbers /\ count' \in Numbers /\ \A q \in Requests : seen[q] \in Seen
    BY <1>0, <1>1 DEF CountTypes
  <2>2. ASSUME NEW q \in Requests PROVE Reader(count', seen'[q])
    <3>1. CASE seen'[q] = NotRead
      BY <2>1, <3>1, NothingRead
    <3>2. CASE seen'[q] = seen[q]
      <4>1. Reader(count, seen[q])
        BY <1>0 DEF ReadInv
      <4> QED
        BY <1>1, <2>1, <3>2, <4>1, ReaderStays
    <3> QED
      BY <1>1, <3>1, <3>2
  <2> QED
    BY <2>2 DEF ReadInv
<1>2. CASE RecordsTotal(r) \/ RecordsClass(r) \/ RecordsRoute(r)
  BY <1>1, <1>2, CountingKeeps DEF CountInv
<1>3. CASE Reads(r)
  BY <1>3, ReadingKeeps
<1>4. CASE \/ Route(r) \/ TakesSlot(r) \/ TakesWriter(r) \/ ChecksKey(r) \/ Handles(r) \/ Panics(r)
           \/ ReturnsWriter(r) \/ GivesSlotBack(r) \/ Arrives(r)
  <2>1. /\ CountTypes' /\ Counted' /\ count' = count
        /\ Halfway("class")' = Halfway("class") /\ Halfway("route")' = Halfway("route")
        /\ \A q \in Requests : seen'[q] = seen[q] \/ seen'[q] = NotRead
    BY <1>0, <1>4, UncountedTypes
  <2>2. \A x \in Counters : count[x] <= count'[x]
    BY <1>0, <2>1 DEF CountTypes, Numbers
  <2>3. Balanced'
    BY <1>0, <2>1 DEF Balanced, ByClass, ByRoute
  <2> QED
    BY <1>1, <2>1, <2>2, <2>3 DEF CountInv
<1> QED
  BY <1>2, <1>3, <1>4 DEF Step

\* CountersAgree holds of every behaviour, for any number of requests, readers and routes.
THEOREM CountersAreCoherent == Spec => []CountersAgree
<1>1. Init => CountInv
  <2> SUFFICES ASSUME Init PROVE CountInv
    OBVIOUS
  <2>1. CountTypes /\ Counted
    <3>1. NotRead \in Seen
      BY DEF NotRead, Seen
    <3> QED
      BY <3>1 DEF Init, CountTypes, Counted, Numbers, Places, Within
  <2>2. ReadInv
    BY <2>1, NothingRead DEF Init, ReadInv, CountTypes
  <2>3. Balanced
    <3>1. Halfway("class") = {} /\ Halfway("route") = {} /\ Cardinality({}) = 0
      BY FS_EmptySet DEF Init, Halfway
    <3>2. ByClass = 0 /\ ByRoute = 0 /\ count["total"] = 0
      BY CounterNames, SumOfZeros DEF Init, ByClass, ByRoute
    <3> QED
      BY <3>1, <3>2 DEF Balanced
  <2> QED
    BY <2>1, <2>2, <2>3 DEF CountInv
<1>2. CountInv /\ [Next]_vars => CountInv'
  <2> SUFFICES ASSUME CountInv, [Next]_vars PROVE CountInv'
    OBVIOUS
  <2>1. CASE UNCHANGED vars
    BY <2>1 DEF vars, CountInv, CountTypes, Counted, Balanced, ReadInv, ByClass, ByRoute, Halfway
  <2> QED
    BY <2>1, CountInvKeeps DEF Next
<1>3. CountInv => CountersAgree
  <2> SUFFICES ASSUME CountInv PROVE CountersAgree
    OBVIOUS
  <2>1. count \in Numbers /\ \A r \in Requests : seen[r] \in Seen /\ Reader(count, seen[r])
    BY DEF CountInv, CountTypes, ReadInv
  <2>2. ASSUME NEW r \in Requests, seen[r].read = Counters
        PROVE  seen[r].routes <= seen[r].total /\ seen[r].routes <= seen[r].classes
    <3>1. /\ Range(Classes) \in SUBSET Counters /\ IsFiniteSet(Range(Classes))
          /\ Range(Classes) \intersect (Counters \ Counters) = {}
      BY CounterNames
    <3>2. SumOver(Only(count, Range(Classes), Counters \ Counters), Range(Classes)) = 0
      BY <2>1, <3>1, OnlyFacts
    <3>3. "total" \in Counters /\ Routes \subseteq Counters
      BY CounterNames
    <3>4. seen[r].classes \in Nat
      BY <2>1 DEF Seen
    <3> QED
      BY <2>1, <2>2, <3>2, <3>3, <3>4 DEF Reader
  <2>3. ASSUME \A r \in Requests : pc[r] \in {"absent", "done"}
        PROVE  SumOver(count, Routes) = count["total"] /\ SumOver(count, Range(Classes)) = count["total"]
    <3>1. Halfway("class") = {} /\ Halfway("route") = {} /\ Cardinality({}) = 0
      BY <2>3, FS_EmptySet DEF Halfway
    <3>2. ByRoute \in Int /\ ByClass \in Int
      BY <2>1, CounterNames, OnlyFacts DEF ByRoute, ByClass
    <3>3. count["total"] = ByClass + 0 /\ ByClass = ByRoute + 0
      BY <3>1 DEF CountInv, Balanced
    <3>4. count["total"] = ByClass /\ ByClass = ByRoute
      BY <3>2, <3>3
    <3> QED
      BY <3>4 DEF ByRoute, ByClass
  <2> QED
    BY <2>2, <2>3 DEF CountersAgree
<1> QED
  BY <1>1, <1>2, <1>3, PTL DEF Spec
=============================================================================
