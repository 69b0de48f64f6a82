-------------------------- MODULE Dashboard_proofs --------------------------
(***************************************************************************)
(* Proofs about HistoryServing and Dashboard, for any clients, capacity,   *)
(* window, tolerance and ticks, and any number of restarts.                *)
(*                                                                         *)
(* Whatever leaves the collector is a Copy of what it holds after some     *)
(* instant: complete up to its own end and without a hole.  The cache is   *)
(* one, and so is every reply.  Nothing that the server does afterwards    *)
(* makes a copy less of one (Later), and the page is put together from     *)
(* copies: PageOf says what remains true of it.                            *)
(***************************************************************************)
EXTENDS Dashboard, FiniteSetTheorems, SequenceTheorems, WellFoundedInduction, TLAPS

In(p, s) == \E i \in 1..Len(s) : s[i] = p

\* s is in time order, and no later than t.
Timed(s, t) ==
  /\ s \in Seq(Nat) /\ t \in Nat
  /\ \A i \in 1..Len(s) : 0 < s[i] /\ s[i] <= t
  /\ \A i, j \in 1..Len(s) : i < j => s[i] < s[j]

\* H is what the collector holds at t, of the points K that no restart lost.
Series(H, K, t) ==
  /\ Timed(H, t) /\ Len(H) <= Capacity
  /\ \A p \in K : p \in Nat /\ p <= t
  /\ Len(H) > 0 => \A p \in K : In(p, H) \/ p < H[1]

\* s has what H has after from, up to its own end, and all of K in between.
Copy(s, from, H, K, t) ==
  /\ Timed(s, t) /\ from \in Nat /\ Len(s) <= Capacity
  /\ \A i \in 1..Len(s) : s[i] > from
  /\ \A k \in 1..Len(H) :
       Len(s) > 0 /\ from < H[k] /\ H[k] <= s[Len(s)] => In(H[k], s)
  /\ \A i \in 1..(Len(s) - 1) : \A p \in K : p <= s[i] \/ p >= s[i + 1]

\* h has what H has within a window before its own end, and where it has a hole, so has K.
PageOf(h, H, K, t) ==
  /\ Timed(h, t)
  /\ \A k \in 1..Len(H) :
       Len(h) > 0 /\ H[k] <= h[Len(h)] /\ H[k] >= h[Len(h)] - Window => In(H[k], h)
  /\ \A i \in 1..(Len(h) - 1) :
       h[i + 1] - h[i] > Tolerance => \A p \in K : p <= h[i] \/ p >= h[i + 1]

\* The page does not grow.
Bounded(h) == Len(h) > 0 => Len(h) <= Capacity \/ h[Len(h)] - h[1] <= Window

\* What the server does: nothing comes to be before the instant t.
Later(H, K, t, H2, K2, t2) ==
  /\ t \in Nat /\ t2 \in Nat /\ t <= t2
  /\ \A k \in 1..Len(H2) : H2[k] \in Nat /\ (In(H2[k], H) \/ H2[k] > t)
  /\ \A p \in K2 : p \in Nat /\ (p \in K \/ p > t)

Known == recorded \ lost

Cache == [valid: BOOLEAN, gen: Nat, data: Seq(Nat), json: Seq(Nat), encoded: BOOLEAN]

CacheInv ==
  /\ cache \in Cache
  /\ Copy(cache.data, 0, hist, Known, clock)
  /\ cache.encoded => cache.json = cache.data
  /\ cache.valid => cache.gen <= gen /\ (cache.gen = gen => cache.data = hist)

Request == [pc: {"none", "sent", "handled", "answered", "broken"}, since: Nat, gen: Nat,
            newest: Nat, reply: Seq(Nat)]

RequestInv(c) ==
  /\ request[c].pc = "handled" =>
       /\ request[c].gen <= gen /\ request[c].newest <= NewestPoint(hist)
       /\ cache.valid /\ cache.gen = request[c].gen =>
            request[c].newest <= NewestPoint(cache.data)
  /\ request[c].pc = "answered" =>
       /\ Copy(request[c].reply, request[c].since, hist, Known, clock)
       /\ request[c].newest > request[c].since =>
            NewestPoint(request[c].reply) >= request[c].newest

ServerInv ==
  /\ Series(hist, Known, clock) /\ recorded \subseteq 1..clock /\ gen \in Nat
  /\ CacheInv
  /\ request \in [Clients -> Request] /\ \A c \in Clients : RequestInv(c)

PageInv ==
  /\ PageOf(held, hist, Known, clock) /\ Bounded(held)
  /\ since # FullWindow => held # NoData /\ since = Last(held)
  /\ phase \in {"idle", "delta", "full"}
  /\ phase = "delta" =>
       /\ held # NoData
       /\ request[Page].pc # "broken" => request[Page].since = Last(held)
  /\ phase = "full" => request[Page].since = FullWindow

IndInv == ServerInv /\ PageInv

-----------------------------------------------------------------------------
(* Sequences in time order. *)

\* q is s without its first k.
Suffix(q, s, k) ==
  /\ q \in Seq(Nat) /\ k \in 0..Len(s) /\ Len(q) = Len(s) - k
  /\ \A i \in 1..Len(q) : q[i] = s[k + i]

LEMMA SuffixExists ==
  ASSUME NEW s \in Seq(Nat), NEW k \in 0..Len(s)
  PROVE  Suffix(SubSeq(s, 1 + k, Len(s)), s, k)
<1> DEFINE q == SubSeq(s, 1 + k, Len(s))
<1>1. Len(s) \in Nat /\ \A i \in 1..Len(s) : s[i] \in Nat
  BY LenProperties, ElementOfSeq
<1>2. /\ q \in Seq(Nat)
      /\ Len(q) = IF 1 + k <= Len(s) THEN Len(s) - (1 + k) + 1 ELSE 0
      /\ \A i \in 1 .. Len(s) - (1 + k) + 1 : q[i] = s[(1 + k) + i - 1]
  <2>1. 1 + k \in Int /\ Len(s) \in Int /\ \A i \in (1 + k)..Len(s) : s[i] \in Nat
    BY <1>1
  <2> DEFINE m == 1 + k
             n == Len(s)
  <2>2. m \in Int /\ n \in Int /\ \A i \in m..n : s[i] \in Nat
    BY <2>1
  <2> HIDE DEF m, n
  <2>3. /\ SubSeq(s, m, n) \in Seq(Nat)
        /\ Len(SubSeq(s, m, n)) = IF m <= n THEN n - m + 1 ELSE 0
        /\ \A i \in 1 .. n - m + 1 : SubSeq(s, m, n)[i] = s[m + i - 1]
    BY <2>2, SubSeqProperties
  <2> QED
    BY <2>3 DEF m, n
<1> HIDE DEF q
<1>3. Len(q) = Len(s) - k
  BY <1>1, <1>2
<1>4. \A i \in 1..Len(q) : q[i] = s[k + i]
  <2> SUFFICES ASSUME NEW i \in 1..Len(q) PROVE q[i] = s[k + i]
    OBVIOUS
  <2>1. i \in 1 .. Len(s) - (1 + k) + 1 /\ (1 + k) + i - 1 = k + i
    BY <1>1, <1>3
  <2> QED
    BY <1>2, <2>1
<1>5. Suffix(q, s, k)
  BY <1>2, <1>3, <1>4 DEF Suffix
<1> QED
  BY <1>5 DEF q

\* The first points are the oldest, so that dropping as many as are old drops those.
LEMMA FromIsSuffix ==
  ASSUME NEW s, NEW t, Timed(s, t), NEW c \in Int
  PROVE  \E k \in 0..Len(s) :
           Suffix(From(s, c), s, k) /\ \A i \in 1..Len(s) : s[i] < c <=> i <= k
<1> DEFINE len == Len(s)
           old == {i \in DOMAIN s : s[i] < c}
           R == OpToRel(<, Nat)
           T == {i \in 1..(len + 1) : i \notin old}
<1>1. /\ s \in Seq(Nat) /\ len \in Nat /\ DOMAIN s = 1..len
      /\ \A i \in 1..len : s[i] \in Nat
      /\ \A i, j \in 1..len : i < j => s[i] < s[j]
  <2>1. s \in Seq(Nat)
    BY DEF Timed
  <2> QED
    BY <2>1, LenProperties, ElementOfSeq DEF Timed
<1>2. PICK k \in T : \A m \in T : ~(m < k)
  <2>1. IsWellFoundedOn(R, Nat)
    BY NatLessThanWellFounded
  <2>2. \A x, y \in Nat : x < y => <<x, y>> \in R
    BY DEF OpToRel
  <2>3. T \subseteq Nat /\ len + 1 \in T
    BY <1>1
  <2> HIDE DEF R, T
  <2>4. PICK k \in T : \A m \in T : ~(<<m, k>> \in R)
    BY <2>1, <2>3, WFMin
  <2> QED
    BY <2>2, <2>3, <2>4
<1>3. \A i \in 1..len : i \in old <=> i <= k - 1
  <2> SUFFICES ASSUME NEW i \in 1..len PROVE i \in old <=> i <= k - 1
    OBVIOUS
  <2>1. CASE i < k
    BY <1>1, <1>2, <2>1
  <2>2. CASE i = k
    BY <1>1, <1>2, <2>2
  <2>3. CASE i > k
    <3>1. k \in 1..len /\ ~(s[k] < c) /\ s[k] < s[i]
      BY <1>1, <1>2, <2>3
    <3>2. ~(s[i] < c)
      BY <1>1, <3>1
    <3> QED
      BY <1>1, <1>2, <2>3, <3>2
  <2> QED
    BY <1>1, <1>2, <2>1, <2>2, <2>3
<1>4. k \in 1..(len + 1)
  BY <1>2
<1>5. old = 1..(k - 1)
  <2>1. old \subseteq 1..len
    BY <1>1
  <2> HIDE DEF old
  <2>2. \A i : i \in 1..(k - 1) <=> i \in 1..len /\ i <= k - 1
    BY <1>1, <1>4
  <2> QED
    BY <1>3, <2>1, <2>2
<1>6. Cardinality(old) = k - 1
  <2>1. 1 \in Int /\ k - 1 \in Int /\ (IF 1 > k - 1 THEN 0 ELSE (k - 1) - 1 + 1) = k - 1
    BY <1>1, <1>4
  <2>2. Cardinality(1..(k - 1)) = IF 1 > k - 1 THEN 0 ELSE (k - 1) - 1 + 1
    BY <2>1, FS_Interval
  <2> QED
    BY <1>5, <2>1, <2>2
<1>7. From(s, c) = SubSeq(s, 1 + (k - 1), Len(s))
  BY <1>6 DEF From
<1>8. \A i \in 1..Len(s) : s[i] < c <=> i \in old
  BY <1>1
<1> HIDE DEF old, T
<1>9. k - 1 \in 0..Len(s)
  BY <1>1, <1>4
<1>10. Suffix(From(s, c), s, k - 1)
  BY <1>1, <1>7, <1>9, SuffixExists
<1>11. \A i \in 1..Len(s) : s[i] < c <=> i <= k - 1
  BY <1>3, <1>8
<1> QED
  BY <1>9, <1>10, <1>11

KeptOf(q, s) ==
  \E k \in 0..Len(s) :
    Suffix(q, s, k) /\ k = IF Len(s) <= Capacity THEN 0 ELSE Len(s) - Capacity

LEMMA KeptIsSuffix == ASSUME NEW s \in Seq(Nat) PROVE KeptOf(Kept(s), s)
<1> DEFINE k == IF Len(s) <= Capacity THEN 0 ELSE Len(s) - Capacity
<1>1. Len(s) \in Nat /\ Capacity \in Nat \ {0} /\ \A i \in 1..Len(s) : s[i] \in Nat
  BY ServingAssumption, LenProperties, ElementOfSeq
<1>2. k \in 0..Len(s)
  BY <1>1
<1>3. Suffix(Kept(s), s, k)
  <2>1. CASE Len(s) <= Capacity
    <3>1. Kept(s) = s /\ k = 0
      BY <2>1 DEF Kept
    <3> HIDE DEF k
    <3> QED
      BY <1>1, <1>2, <3>1 DEF Suffix
  <2>2. CASE ~(Len(s) <= Capacity)
    <3>1. Kept(s) = SubSeq(s, 1 + k, Len(s))
      <4>1. 1 + k = Len(s) - Capacity + 1
        BY <1>1, <2>2
      <4> QED
        BY <2>2, <4>1 DEF Kept
    <3> HIDE DEF k
    <3> QED
      BY <1>2, <3>1, SuffixExists
  <2> QED
    BY <2>1, <2>2
<1> QED
  BY <1>2, <1>3 DEF KeptOf

\* A suffix of what is in time order is.
LEMMA SuffixIsTimed ==
  ASSUME NEW s, NEW t, Timed(s, t), NEW k, NEW q, Suffix(q, s, k)
  PROVE  /\ Timed(q, t) /\ Len(q) \in Nat /\ Len(s) \in Nat /\ k \in 0..Len(s)
         /\ Len(q) > 0 => q[Len(q)] = s[Len(s)]
<1>1. s \in Seq(Nat) /\ q \in Seq(Nat)
  BY DEF Timed, Suffix
<1>2. Len(s) \in Nat /\ Len(q) \in Nat
  BY <1>1, LenProperties
<1>3. /\ k \in 0..Len(s) /\ Len(q) = Len(s) - k
      /\ \A i \in 1..Len(q) : q[i] = s[k + i] /\ k + i \in 1..Len(s)
  BY <1>2 DEF Suffix
<1>4. \A i, j \in 1..Len(q) : i < j => q[i] < q[j]
  <2> SUFFICES ASSUME NEW i \in 1..Len(q), NEW j \in 1..Len(q), i < j PROVE q[i] < q[j]
    OBVIOUS
  <2>1. k + i < k + j /\ k + i \in 1..Len(s) /\ k + j \in 1..Len(s)
    BY <1>2, <1>3
  <2> QED
    BY <1>3, <2>1 DEF Timed
<1>5. \A i \in 1..Len(q) : 0 < q[i] /\ q[i] <= t
  BY <1>3 DEF Timed
<1>6. Len(q) > 0 => q[Len(q)] = s[Len(s)]
  <2> SUFFICES ASSUME Len(q) > 0 PROVE q[Len(q)] = s[Len(s)]
    OBVIOUS
  <2>1. Len(q) \in 1..Len(q) /\ k + Len(q) = Len(s)
    BY <1>2, <1>3
  <2> QED
    BY <1>3, <2>1
<1> QED
  BY <1>1, <1>2, <1>3, <1>4, <1>5, <1>6 DEF Timed

LEMMA SuffixFacts ==
  ASSUME NEW s, NEW t, Timed(s, t), NEW k, NEW q, Suffix(q, s, k)
  PROVE  /\ Timed(q, t) /\ Len(q) \in Nat /\ Len(s) \in Nat /\ k \in 0..Len(s)
         /\ Len(q) = Len(s) - k /\ \A i \in 1..Len(q) : q[i] = s[k + i]
         /\ Len(q) > 0 => q[Len(q)] = s[Len(s)]
<1>1. /\ Timed(q, t) /\ Len(q) \in Nat /\ Len(s) \in Nat /\ k \in 0..Len(s)
      /\ Len(q) > 0 => q[Len(q)] = s[Len(s)]
  BY SuffixIsTimed
<1>2. Len(q) = Len(s) - k /\ \A i \in 1..Len(q) : q[i] = s[k + i]
  BY DEF Suffix
<1> QED
  BY <1>1, <1>2

\* A suffix has the later ones of what the whole has.
LEMMA InSuffix ==
  ASSUME NEW s, NEW t, Timed(s, t), NEW k, NEW q, Suffix(q, s, k), NEW i \in 1..Len(s), i > k
  PROVE  In(s[i], q)
<1>1. /\ Len(s) \in Nat /\ Len(q) \in Nat /\ k \in 0..Len(s) /\ Len(q) = Len(s) - k
      /\ \A j \in 1..Len(q) : q[j] = s[k + j]
  BY SuffixIsTimed DEF Suffix
<1>2. i - k \in 1..Len(q) /\ k + (i - k) = i
  BY <1>1
<1> QED
  BY <1>1, <1>2 DEF In

LEMMA TimedFacts ==
  ASSUME NEW s, NEW t, Timed(s, t)
  PROVE  /\ Len(s) \in Nat /\ t \in Nat /\ s \in Seq(Nat)
         /\ \A i \in 1..Len(s) : s[i] \in Nat /\ 0 < s[i] /\ s[i] <= t
         /\ \A i, j \in 1..Len(s) : i < j => s[i] < s[j]
         /\ \A i \in 1..Len(s) : s[i] <= s[Len(s)] /\ s[1] <= s[i]
         /\ (s = NoData <=> Len(s) = 0)
         /\ NewestPoint(s) = (IF Len(s) = 0 THEN 0 ELSE s[Len(s)])
         /\ Len(s) > 0 => Last(s) = s[Len(s)] /\ Head(s) = s[1]
<1>1. s \in Seq(Nat) /\ t \in Nat
  BY DEF Timed
<1>2. Len(s) \in Nat /\ \A i \in 1..Len(s) : s[i] \in Nat
  BY <1>1, LenProperties, ElementOfSeq
<1>3. \A i \in 1..Len(s) : 0 < s[i] /\ s[i] <= t
  BY DEF Timed
<1>4. \A i, j \in 1..Len(s) : i < j => s[i] < s[j]
  BY DEF Timed
<1>5. \A i \in 1..Len(s) : s[i] <= s[Len(s)] /\ s[1] <= s[i]
  <2> SUFFICES ASSUME NEW i \in 1..Len(s) PROVE s[i] <= s[Len(s)] /\ s[1] <= s[i]
    OBVIOUS
  <2>1. 1 \in 1..Len(s) /\ Len(s) \in 1..Len(s)
    BY <1>2
  <2>2. (i = Len(s) \/ i < Len(s)) /\ (i = 1 \/ 1 < i)
    BY <1>2
  <2> QED
    BY <1>2, <1>4, <2>1, <2>2
<1>6. s = NoData <=> Len(s) = 0
  BY <1>1, EmptySeq DEF NoData
<1>7. NewestPoint(s) = IF Len(s) = 0 THEN 0 ELSE s[Len(s)]
  BY <1>6 DEF NewestPoint, Last
<1>8. Len(s) > 0 => Last(s) = s[Len(s)] /\ Head(s) = s[1]
  BY <1>1 DEF Last
<1> QED
  BY <1>1, <1>2, <1>3, <1>4, <1>5, <1>6, <1>7, <1>8

-----------------------------------------------------------------------------
(* What the server does. *)

LEMMA TimedLater ==
  ASSUME NEW s, NEW t, Timed(s, t), NEW t2 \in Nat, t <= t2
  PROVE  Timed(s, t2)
<1>1. /\ s \in Seq(Nat) /\ t \in Nat
      /\ \A i \in 1..Len(s) : s[i] \in Nat /\ 0 < s[i] /\ s[i] <= t
      /\ \A i, j \in 1..Len(s) : i < j => s[i] < s[j]
  BY TimedFacts
<1>2. \A i \in 1..Len(s) : 0 < s[i] /\ s[i] <= t2
  BY <1>1
<1> QED
  BY <1>1, <1>2 DEF Timed

LEMMA CopyStays ==
  ASSUME NEW s, NEW from, NEW H, NEW K, NEW t, Copy(s, from, H, K, t),
         NEW H2, NEW K2, NEW t2, Later(H, K, t, H2, K2, t2)
  PROVE  Copy(s, from, H2, K2, t2)
<1>1. /\ Timed(s, t) /\ from \in Nat /\ Len(s) <= Capacity
      /\ \A i \in 1..Len(s) : s[i] > from
  BY DEF Copy
<1>2. /\ t \in Nat /\ t2 \in Nat /\ t <= t2
      /\ \A k \in 1..Len(H2) : H2[k] \in Nat /\ (In(H2[k], H) \/ H2[k] > t)
      /\ \A p \in K2 : p \in Nat /\ (p \in K \/ p > t)
  BY DEF Later
<1>3. Len(s) \in Nat /\ \A i \in 1..Len(s) : s[i] \in Nat /\ s[i] <= t
  BY <1>1, TimedFacts
<1>4. ASSUME NEW k \in 1..Len(H2), Len(s) > 0, from < H2[k], H2[k] <= s[Len(s)]
      PROVE  In(H2[k], s)
  <2>1. ~(H2[k] > t)
    <3>1. s[Len(s)] \in Nat /\ s[Len(s)] <= t
      BY <1>3, <1>4
    <3>2. ASSUME H2[k] > t PROVE FALSE
      BY <1>2, <1>4, <3>1, <3>2
    <3> QED
      BY <3>2
  <2>2. PICK j \in 1..Len(H) : H[j] = H2[k]
    BY <1>2, <2>1 DEF In
  <2> QED
    BY <1>4, <2>2 DEF Copy
<1>5. ASSUME NEW i \in 1..(Len(s) - 1), NEW p \in K2
      PROVE  p <= s[i] \/ p >= s[i + 1]
  <2>1. CASE p \in K
    BY <2>1 DEF Copy
  <2>2. CASE p > t
    <3>1. i + 1 \in 1..Len(s) /\ p \in Nat
      BY <1>2, <1>3
    <3> QED
      BY <1>2, <1>3, <2>2, <3>1
  <2> QED
    BY <1>2, <2>1, <2>2
<1>6. Timed(s, t2)
  BY <1>1, <1>2, TimedLater
<1> QED
  BY <1>1, <1>4, <1>5, <1>6 DEF Copy

LEMMA PageStays ==
  ASSUME NEW h, NEW H, NEW K, NEW t, PageOf(h, H, K, t),
         NEW H2, NEW K2, NEW t2, Later(H, K, t, H2, K2, t2)
  PROVE  PageOf(h, H2, K2, t2)
<1>1. Timed(h, t)
  BY DEF PageOf
<1>2. /\ t \in Nat /\ t2 \in Nat /\ t <= t2
      /\ \A k \in 1..Len(H2) : H2[k] \in Nat /\ (In(H2[k], H) \/ H2[k] > t)
      /\ \A p \in K2 : p \in Nat /\ (p \in K \/ p > t)
  BY DEF Later
<1>3. Len(h) \in Nat /\ \A i \in 1..Len(h) : h[i] \in Nat /\ h[i] <= t
  BY <1>1, TimedFacts
<1>4. ASSUME NEW k \in 1..Len(H2), Len(h) > 0, H2[k] <= h[Len(h)], H2[k] >= h[Len(h)] - Window
      PROVE  In(H2[k], h)
  <2>1. ~(H2[k] > t)
    <3>1. h[Len(h)] \in Nat /\ h[Len(h)] <= t
      BY <1>3, <1>4
    <3>2. ASSUME H2[k] > t PROVE FALSE
      BY <1>2, <1>4, <3>1, <3>2
    <3> QED
      BY <3>2
  <2>2. PICK j \in 1..Len(H) : H[j] = H2[k]
    BY <1>2, <2>1 DEF In
  <2> QED
    BY <1>4, <2>2 DEF PageOf
<1>5. ASSUME NEW i \in 1..(Len(h) - 1), h[i + 1] - h[i] > Tolerance, NEW p \in K2
      PROVE  p <= h[i] \/ p >= h[i + 1]
  <2>1. CASE p \in K
    BY <1>5, <2>1 DEF PageOf
  <2>2. CASE p > t
    <3>1. i + 1 \in 1..Len(h) /\ p \in Nat
      BY <1>2, <1>3
    <3> QED
      BY <1>2, <1>3, <2>2, <3>1
  <2> QED
    BY <1>2, <2>1, <2>2
<1>6. Timed(h, t2)
  BY <1>1, <1>2, TimedLater
<1> QED
  BY <1>4, <1>5, <1>6 DEF PageOf

\* The collector's series is a copy of itself.
LEMMA SeriesIsCopy ==
  ASSUME NEW H, NEW K, NEW t, Series(H, K, t)
  PROVE  Copy(H, 0, H, K, t)
<1>1. Timed(H, t) /\ Len(H) <= Capacity
  BY DEF Series
<1>2. /\ Len(H) \in Nat /\ \A i \in 1..Len(H) : H[i] \in Nat /\ H[i] > 0 /\ H[1] <= H[i]
      /\ \A i, j \in 1..Len(H) : i < j => H[i] < H[j]
  BY <1>1, TimedFacts
<1>3. \A k \in 1..Len(H) : In(H[k], H)
  BY DEF In
<1>4. ASSUME NEW i \in 1..(Len(H) - 1), NEW p \in K
      PROVE  p <= H[i] \/ p >= H[i + 1]
  <2>1. i \in 1..Len(H) /\ i + 1 \in 1..Len(H) /\ Len(H) > 0 /\ p \in Nat
    BY <1>2 DEF Series
  <2>2. CASE p < H[1]
    BY <1>2, <2>1, <2>2
  <2>3. CASE In(p, H)
    <3>1. PICK j \in 1..Len(H) : H[j] = p
      BY <2>3 DEF In
    <3>2. j < i \/ j = i \/ j = i + 1 \/ j > i + 1
      BY <1>2
    <3> QED
      BY <1>2, <2>1, <3>1, <3>2
  <2> QED
    BY <2>1, <2>2, <2>3 DEF Series
<1> QED
  BY <1>1, <1>2, <1>3, <1>4 DEF Copy

\* A reply (Since): a copy of the cache's copy, as fresh as that.
LEMMA SinceIsCopy ==
  ASSUME NEW s, NEW H, NEW K, NEW t, Timed(H, t), Copy(s, 0, H, K, t), NEW from \in Nat,
         NEW q, q = Since(s, from)
  PROVE  /\ Copy(q, from, H, K, t)
         /\ \A n \in Nat : n > from /\ NewestPoint(s) >= n => NewestPoint(q) >= n
<1>1. CASE from = 0
  <2>1. q = s
    BY <1>1 DEF Since, FullWindow
  <2> QED
    BY <1>1, <2>1
<1>2. CASE from # 0
  <2>1. Timed(s, t) /\ Len(s) <= Capacity
    BY DEF Copy
  <2>2. q = From(s, from + 1)
    BY <1>2 DEF Since, FullWindow
  <2>3. PICK k \in 0..Len(s) :
          Suffix(q, s, k) /\ \A i \in 1..Len(s) : s[i] < from + 1 <=> i <= k
    <3> DEFINE c == from + 1
    <3>1. c \in Int /\ q = From(s, c)
      BY <2>2
    <3> HIDE DEF c
    <3>2. \E k \in 0..Len(s) : Suffix(q, s, k) /\ \A i \in 1..Len(s) : s[i] < c <=> i <= k
      BY <2>1, <3>1, FromIsSuffix
    <3> QED
      BY <3>2 DEF c
  <2>4. /\ Timed(q, t) /\ Len(q) \in Nat /\ Len(s) \in Nat /\ Len(q) = Len(s) - k
        /\ Len(q) > 0 => q[Len(q)] = s[Len(s)]
        /\ \A i \in 1..Len(q) : q[i] = s[k + i]
    BY <2>1, <2>3, SuffixFacts
  <2>5. Capacity \in Nat /\ \A i \in 1..Len(s) : s[i] \in Nat
    BY <2>1, TimedFacts, ServingAssumption
  <2>6. \A i \in 1..Len(q) : q[i] > from
    <3> SUFFICES ASSUME NEW i \in 1..Len(q) PROVE q[i] > from
      OBVIOUS
    <3>1. k + i \in 1..Len(s) /\ ~(k + i <= k)
      BY <2>4
    <3>2. ~(s[k + i] < from + 1) /\ s[k + i] \in Nat
      BY <2>3, <2>5, <3>1
    <3> QED
      BY <2>4, <3>2
  <2>7. ASSUME NEW j \in 1..Len(H), Len(q) > 0, from < H[j], H[j] <= q[Len(q)]
        PROVE  In(H[j], q)
    <3>1. H[j] <= s[Len(s)] /\ Len(s) > 0 /\ H[j] \in Nat /\ 0 < H[j]
      BY <2>4, <2>7, TimedFacts
    <3>2. PICK m \in 1..Len(s) : s[m] = H[j]
      BY <3>1 DEF Copy, In
    <3>3. m > k
      BY <2>3, <2>4, <2>5, <2>7, <3>1, <3>2
    <3> QED
      BY <2>1, <2>3, <3>2, <3>3, InSuffix
  <2>8. ASSUME NEW i \in 1..(Len(q) - 1), NEW p \in K
        PROVE  p <= q[i] \/ p >= q[i + 1]
    <3>1. /\ i \in 1..Len(q) /\ i + 1 \in 1..Len(q) /\ k + i \in 1..(Len(s) - 1)
          /\ k + (i + 1) = (k + i) + 1
      BY <2>4
    <3>2. q[i] = s[k + i] /\ q[i + 1] = s[(k + i) + 1]
      BY <2>4, <3>1
    <3> QED
      BY <3>1, <3>2 DEF Copy
  <2>9. Copy(q, from, H, K, t)
    BY <2>1, <2>4, <2>5, <2>6, <2>7, <2>8 DEF Copy
  <2>10. ASSUME NEW n \in Nat, n > from, NewestPoint(s) >= n PROVE NewestPoint(q) >= n
    <3>1. /\ NewestPoint(s) = (IF Len(s) = 0 THEN 0 ELSE s[Len(s)])
          /\ NewestPoint(q) = (IF Len(q) = 0 THEN 0 ELSE q[Len(q)])
      BY <2>1, <2>4, TimedFacts
    <3>2. Len(s) > 0 /\ s[Len(s)] >= n /\ Len(s) \in 1..Len(s)
      BY <2>4, <2>10, <3>1
    <3>3. ~(Len(s) <= k)
      BY <2>3, <2>5, <2>10, <3>2
    <3> QED
      BY <2>4, <3>1, <3>2, <3>3
  <2> QED
    BY <2>9, <2>10
<1> QED
  BY <1>1, <1>2

\* a is H with c.
Ticked(a, H, c) ==
  /\ Timed(a, c) /\ Len(a) = Len(H) + 1 /\ a[Len(H) + 1] = c
  /\ \A i \in 1..Len(H) : a[i] = H[i]

LEMMA AppendIsTimed ==
  ASSUME NEW H, NEW t, Timed(H, t), NEW c, c \in Nat, c > t, NEW a, a = Append(H, c)
  PROVE  Ticked(a, H, c)
<1>1. /\ Len(H) \in Nat /\ t \in Nat /\ H \in Seq(Nat)
      /\ \A i \in 1..Len(H) : H[i] \in Nat /\ 0 < H[i] /\ H[i] <= t
      /\ \A i, j \in 1..Len(H) : i < j => H[i] < H[j]
  BY TimedFacts
<1>2. /\ a \in Seq(Nat) /\ Len(a) = Len(H) + 1 /\ a[Len(H) + 1] = c
      /\ \A i \in 1..Len(H) : a[i] = H[i]
  BY <1>1, AppendProperties
<1>3. \A i \in 1..Len(a) : i \in 1..Len(H) \/ i = Len(H) + 1
  BY <1>1, <1>2
<1>4. \A i \in 1..Len(a) : 0 < a[i] /\ a[i] <= c
  BY <1>1, <1>2, <1>3
<1>5. ASSUME NEW i \in 1..Len(a), NEW j \in 1..Len(a), i < j PROVE a[i] < a[j]
  <2>1. i \in 1..Len(H)
    BY <1>1, <1>3, <1>5
  <2>2. CASE j \in 1..Len(H)
    BY <1>1, <1>2, <1>5, <2>1, <2>2
  <2>3. CASE j = Len(H) + 1
    BY <1>1, <1>2, <2>1, <2>3
  <2> QED
    BY <1>3, <2>2, <2>3
<1> QED
  BY <1>2, <1>4, <1>5 DEF Timed, Ticked

\* A tick at c: a is H with c, and H2 what of a is kept.
LEMMA NewestKeepSeries ==
  ASSUME NEW H, NEW K, NEW t, Series(H, K, t), NEW c, c \in Nat, c > t,
         NEW a, Ticked(a, H, c), NEW H2, KeptOf(H2, a),
         NEW K2, \A p \in K2 : p \in K \/ p = c
  PROVE  /\ Series(H2, K2, c) /\ Later(H, K, t, H2, K2, c)
         /\ NewestPoint(H2) = c
<1>1. Timed(H, t)
  BY DEF Series
<1>2. /\ Timed(a, c) /\ Len(a) = Len(H) + 1 /\ a[Len(H) + 1] = c
      /\ \A i \in 1..Len(H) : a[i] = H[i]
  BY DEF Ticked
<1>3. /\ Len(H) \in Nat /\ t \in Nat /\ Capacity \in Nat \ {0}
      /\ \A i \in 1..Len(H) : H[i] \in Nat /\ 0 < H[i] /\ H[i] <= t
      /\ a \in Seq(Nat) /\ \A i \in 1..Len(a) : a[i] \in Nat /\ a[1] <= a[i]
      /\ \A i, j \in 1..Len(a) : i < j => a[i] < a[j]
  BY <1>1, <1>2, TimedFacts, ServingAssumption
<1>4. PICK k \in 0..Len(a) :
        Suffix(H2, a, k) /\ k = IF Len(a) <= Capacity THEN 0 ELSE Len(a) - Capacity
  BY DEF KeptOf
<1>5. /\ Timed(H2, c) /\ Len(H2) \in Nat /\ Len(H2) = Len(a) - k
      /\ Len(H2) > 0 => H2[Len(H2)] = a[Len(a)]
      /\ \A i \in 1..Len(H2) : H2[i] = a[k + i]
  <2>1. Timed(H2, c)
    BY <1>2, <1>4, SuffixFacts
  <2>2. Len(H2) \in Nat /\ Len(H2) = Len(a) - k
    BY <1>2, <1>4, SuffixFacts
  <2>3. Len(H2) > 0 => H2[Len(H2)] = a[Len(a)]
    BY <1>2, <1>4, SuffixFacts
  <2>4. \A i \in 1..Len(H2) : H2[i] = a[k + i]
    BY <1>4 DEF Suffix
  <2> QED
    BY <2>1, <2>2, <2>3, <2>4
<1>6. Len(H2) > 0 /\ Len(H2) <= Capacity
  <2>1. CASE Len(a) <= Capacity
    BY <1>2, <1>3, <1>4, <1>5, <2>1
  <2>2. CASE ~(Len(a) <= Capacity)
    <3>1. Len(H2) = Capacity
      BY <1>2, <1>3, <1>4, <1>5, <2>2
    <3> QED
      BY <1>3, <3>1
  <2> QED
    BY <2>1, <2>2
<1>7. \A p \in K2 : p \in Nat /\ p <= c /\ (p \in K \/ p > t)
  BY <1>3 DEF Series
<1>8. \A i \in 1..Len(a) : (i <= Len(H) /\ In(a[i], H)) \/ i = Len(a)
  <2> SUFFICES ASSUME NEW i \in 1..Len(a), i # Len(a) PROVE i <= Len(H) /\ In(a[i], H)
    OBVIOUS
  <2>1. i \in 1..Len(H)
    BY <1>2, <1>3
  <2> QED
    BY <1>2, <2>1 DEF In
<1>9. ASSUME NEW p \in K2 PROVE In(p, H2) \/ p < H2[1]
  <2>1. 1 \in 1..Len(H2) /\ k + 1 \in 1..Len(a) /\ H2[1] = a[k + 1]
    <3>1. Len(a) \in Nat /\ k \in Nat
      BY <1>2, <1>3, <1>4
    <3>2. 1 \in 1..Len(H2) /\ k + 1 \in 1..Len(a)
      BY <1>5, <1>6, <3>1
    <3> QED
      BY <1>5, <3>2
  <2>2. CASE \E i \in 1..Len(a) : a[i] = p
    <3>1. PICK i \in 1..Len(a) : a[i] = p
      BY <2>2
    <3>2. CASE i <= k
      BY <1>2, <1>3, <1>4, <2>1, <3>1, <3>2
    <3>3. CASE i > k
      BY <1>2, <1>4, <3>1, <3>3, InSuffix
    <3> QED
      BY <1>4, <3>2, <3>3
  <2>3. CASE ~\E i \in 1..Len(a) : a[i] = p
    <3>1. Len(a) \in 1..Len(a) /\ a[Len(a)] = c
      BY <1>2, <1>3
    <3>2. p # c /\ p \in K /\ p \in Nat
      BY <1>7, <2>3, <3>1
    <3>3. ~In(p, H)
      <4>1. \A i \in 1..Len(H) : i \in 1..Len(a)
        BY <1>2, <1>3
      <4> QED
        BY <1>2, <2>3, <4>1 DEF In
    <3>4. CASE Len(H) > 0
      <4>1. 1 \in 1..Len(H) /\ p < H[1] /\ a[1] = H[1]
        BY <1>2, <1>3, <3>2, <3>3, <3>4 DEF Series
      <4>2. a[1] <= H2[1] /\ a[1] \in Nat /\ H2[1] \in Nat
        <5>1. 1 \in 1..Len(a)
          BY <1>2, <1>3
        <5> QED
          BY <1>3, <2>1, <5>1
      <4> QED
        BY <3>2, <4>1, <4>2
    <3>5. CASE Len(H) = 0
      <4>1. p <= t /\ k = 0 /\ H2[1] = c
        BY <1>2, <1>3, <1>4, <2>1, <3>1, <3>2, <3>5 DEF Series
      <4> QED
        BY <1>3, <3>2, <4>1
    <3> QED
      BY <1>3, <3>4, <3>5
  <2> QED
    BY <2>2, <2>3
<1>10. Series(H2, K2, c)
  BY <1>5, <1>6, <1>7, <1>9 DEF Series
<1>11. ASSUME NEW j \in 1..Len(H2) PROVE H2[j] \in Nat /\ (In(H2[j], H) \/ H2[j] > t)
  <2>1. k + j \in 1..Len(a) /\ H2[j] = a[k + j]
    <3>1. Len(a) \in Nat /\ k \in Nat
      BY <1>2, <1>3, <1>4
    <3>2. k + j \in 1..Len(a)
      BY <1>5, <3>1
    <3> QED
      BY <1>5, <3>2
  <2>2. In(a[k + j], H) \/ a[k + j] = c
    BY <1>2, <1>8, <2>1
  <2> QED
    BY <1>3, <2>1, <2>2
<1>12. Later(H, K, t, H2, K2, c)
  BY <1>3, <1>7, <1>11 DEF Later
<1>13. NewestPoint(H2) = c
  <2>1. NewestPoint(H2) = IF Len(H2) = 0 THEN 0 ELSE H2[Len(H2)]
    BY <1>5, TimedFacts
  <2> QED
    BY <1>2, <1>5, <1>6, <2>1
<1> QED
  BY <1>10, <1>12, <1>13

LEMMA TickKeepsSeries ==
  ASSUME NEW H, NEW K, NEW t, Series(H, K, t), NEW c, c \in Nat, c > t,
         NEW K2, \A p \in K2 : p \in K \/ p = c
  PROVE  LET H2 == Kept(Append(H, c))
         IN  /\ Series(H2, K2, c) /\ Later(H, K, t, H2, K2, c)
             /\ NewestPoint(H) <= NewestPoint(H2)
<1> DEFINE a == Append(H, c)
           H2 == Kept(a)
<1>1. Timed(H, t)
  BY DEF Series
<1>2. a = Append(H, c)
  OBVIOUS
<1>3. H2 = Kept(a)
  OBVIOUS
<1> HIDE DEF a, H2
<1>4. Ticked(a, H, c)
  BY <1>1, <1>2, AppendIsTimed
<1>5. a \in Seq(Nat)
  BY <1>4 DEF Ticked, Timed
<1>6. KeptOf(H2, a)
  BY <1>3, <1>5, KeptIsSuffix
<1>7. /\ Series(H2, K2, c) /\ Later(H, K, t, H2, K2, c)
      /\ NewestPoint(H) <= NewestPoint(H2)
  <2>1. Series(H2, K2, c) /\ Later(H, K, t, H2, K2, c) /\ NewestPoint(H2) = c
    BY <1>4, <1>6, NewestKeepSeries
  <2>4. NewestPoint(H) \in Nat /\ NewestPoint(H) <= t /\ t \in Nat
    <3>1. /\ Len(H) \in Nat /\ t \in Nat /\ \A i \in 1..Len(H) : H[i] \in Nat /\ H[i] <= t
          /\ NewestPoint(H) = IF Len(H) = 0 THEN 0 ELSE H[Len(H)]
      BY <1>1, TimedFacts
    <3>2. Len(H) # 0 => Len(H) \in 1..Len(H)
      BY <3>1
    <3> QED
      BY <3>1, <3>2
  <2> QED
    BY <2>1, <2>4
<1> QED
  BY <1>7 DEF a, H2

\* A restart: what is left is some of the first points, without those that are too old.
LEMMA RestartKeepsSeries ==
  ASSUME NEW H, NEW K, NEW t, Series(H, K, t), NEW n, n \in 0..Len(H), NEW c, c \in Int,
         NEW H2, H2 = From(SubSeq(H, 1, n), c),
         NEW K2, \A p \in K2 : p \in K /\ (In(p, H) => In(p, H2))
  PROVE  Series(H2, K2, t) /\ Later(H, K, t, H2, K2, t)
<1> DEFINE b == SubSeq(H, 1, n)
<1>1. Timed(H, t) /\ Len(H) <= Capacity
  BY DEF Series
<1>2. /\ Len(H) \in Nat /\ t \in Nat /\ H \in Seq(Nat) /\ n \in Nat /\ n <= Len(H)
      /\ \A i \in 1..Len(H) : H[i] \in Nat /\ 0 < H[i] /\ H[i] <= t
      /\ \A i, j \in 1..Len(H) : i < j => H[i] < H[j]
      /\ Capacity \in Nat
  BY <1>1, TimedFacts, ServingAssumption
<1>3. /\ b \in Seq(Nat) /\ Len(b) = n
      /\ \A i \in 1..n : b[i] = H[i]
  <2>1. 1 \in Int /\ n \in Int /\ \A i \in 1..n : H[i] \in Nat
    BY <1>2
  <2>2. /\ b \in Seq(Nat) /\ Len(b) = IF 1 <= n THEN n - 1 + 1 ELSE 0
        /\ \A i \in 1 .. n - 1 + 1 : b[i] = H[1 + i - 1]
    BY <1>2, <2>1, SubSeqProperties
  <2> HIDE DEF b
  <2>3. Len(b) = n
    BY <1>2, <2>2
  <2>4. ASSUME NEW i \in 1..n PROVE b[i] = H[i]
    <3>1. i \in 1 .. n - 1 + 1 /\ 1 + i - 1 = i
      BY <1>2
    <3> QED
      BY <2>2, <3>1
  <2> QED
    BY <2>2, <2>3, <2>4
<1>4. H2 = From(b, c)
  OBVIOUS
<1> HIDE DEF b
<1>5. Timed(b, t)
  <2>1. \A i \in 1..n : i \in 1..Len(H)
    BY <1>2
  <2>2. \A i \in 1..Len(b) : 0 < b[i] /\ b[i] <= t
    BY <1>2, <1>3, <2>1
  <2>3. \A i, j \in 1..Len(b) : i < j => b[i] < b[j]
    BY <1>2, <1>3, <2>1
  <2> QED
    BY <1>2, <1>3, <2>2, <2>3 DEF Timed
<1>6. PICK k \in 0..Len(b) : Suffix(H2, b, k) /\ \A i \in 1..Len(b) : b[i] < c <=> i <= k
  BY <1>4, <1>5, FromIsSuffix
<1>7. /\ Timed(H2, t) /\ Len(H2) \in Nat /\ Len(H2) = n - k
      /\ \A i \in 1..Len(H2) : H2[i] = b[k + i]
  <2>1. /\ Timed(H2, t) /\ Len(H2) \in Nat /\ Len(H2) = Len(b) - k
        /\ \A i \in 1..Len(H2) : H2[i] = b[k + i]
    BY <1>5, <1>6, SuffixFacts
  <2> QED
    BY <1>3, <2>1
<1>8. \A i \in 1..Len(H2) : k + i \in 1..Len(H) /\ H2[i] = H[k + i]
  <2> SUFFICES ASSUME NEW i \in 1..Len(H2) PROVE k + i \in 1..Len(H) /\ H2[i] = H[k + i]
    OBVIOUS
  <2>1. k + i \in 1..n /\ k + i \in 1..Len(H)
    BY <1>2, <1>3, <1>6, <1>7
  <2> QED
    BY <1>3, <1>7, <2>1
<1>9. Len(H2) <= Capacity
  BY <1>1, <1>2, <1>3, <1>6, <1>7
<1>10. \A p \in K2 : p \in K /\ p \in Nat /\ p <= t
  BY DEF Series
<1>11. ASSUME Len(H2) > 0, NEW p \in K2 PROVE In(p, H2) \/ p < H2[1]
  <2>1. 1 \in 1..Len(H2) /\ 1 \in 1..Len(H) /\ k + 1 \in 1..Len(H) /\ H2[1] = H[k + 1]
    BY <1>2, <1>7, <1>8, <1>11
  <2>2. In(p, H) \/ p < H[1]
    <3>1. Len(H) > 0
      BY <1>2, <2>1
    <3> QED
      BY <1>10, <3>1 DEF Series
  <2>3. H[1] <= H[k + 1] /\ H[1] \in Nat /\ H[k + 1] \in Nat
    BY <1>1, <2>1, TimedFacts
  <2>4. p < H[1] => p < H2[1]
    BY <1>10, <2>1, <2>3
  <2> QED
    BY <2>2, <2>4
<1>12. Series(H2, K2, t)
  BY <1>7, <1>9, <1>10, <1>11 DEF Series
<1>13. ASSUME NEW j \in 1..Len(H2) PROVE H2[j] \in Nat /\ In(H2[j], H)
  BY <1>2, <1>8 DEF In
<1>14. Later(H, K, t, H2, K2, t)
  BY <1>2, <1>10, <1>13 DEF Later
<1> QED
  BY <1>12, <1>14

-----------------------------------------------------------------------------
(* What the page does. *)

\* A full reply.
LEMMA FullIsPage ==
  ASSUME NEW h, NEW H, NEW K, NEW t, Timed(H, t), Copy(h, 0, H, K, t)
  PROVE  PageOf(h, H, K, t) /\ Bounded(h)
<1>1. \A k \in 1..Len(H) : 0 < H[k]
  BY DEF Timed
<1> QED
  BY <1>1 DEF Copy, PageOf, Bounded

\* m is h and then d.
Joins(m, h, d) ==
  /\ m \in Seq(Nat) /\ Len(m) = Len(h) + Len(d)
  /\ \A i \in 1..Len(h) : m[i] = h[i]
  /\ \A i \in 1..Len(d) : m[Len(h) + i] = d[i]

LEMMA JoinExists == ASSUME NEW h \in Seq(Nat), NEW d \in Seq(Nat) PROVE Joins(h \o d, h, d)
<1> DEFINE m == h \o d
<1>1. Len(h) \in Nat /\ Len(d) \in Nat
  BY LenProperties
<1>2. /\ m \in Seq(Nat) /\ Len(m) = Len(h) + Len(d)
      /\ \A i \in 1 .. Len(h) + Len(d) : m[i] = IF i <= Len(h) THEN h[i] ELSE d[i - Len(h)]
  BY ConcatProperties
<1> HIDE DEF m
<1>3. \A i \in 1..Len(h) : m[i] = h[i]
  BY <1>1, <1>2
<1>4. ASSUME NEW i \in 1..Len(d) PROVE m[Len(h) + i] = d[i]
  <2>1. Len(h) + i \in 1 .. Len(h) + Len(d) /\ ~(Len(h) + i <= Len(h)) /\ (Len(h) + i) - Len(h) = i
    BY <1>1
  <2> QED
    BY <1>2, <2>1
<1>5. Joins(m, h, d)
  BY <1>2, <1>3, <1>4 DEF Joins
<1> QED
  BY <1>5 DEF m

\* A delta that lines up is appended (mergeHistory).
LEMMA JoinIsPage ==
  ASSUME NEW h, NEW H, NEW K, NEW t, PageOf(h, H, K, t), Timed(H, t), Len(h) > 0,
         NEW d, Copy(d, h[Len(h)], H, K, t),
         Len(d) > 0 => d[1] - h[Len(h)] <= Tolerance,
         NEW m, Joins(m, h, d)
  PROVE  PageOf(m, H, K, t)
<1> DEFINE n == Len(h)
<1>1. Timed(h, t) /\ Timed(d, t)
  BY DEF PageOf, Copy
<1>2. /\ n \in Nat /\ Len(d) \in Nat /\ t \in Nat /\ n > 0
      /\ \A i \in 1..n : h[i] \in Nat /\ 0 < h[i] /\ h[i] <= t /\ h[i] <= h[n]
      /\ \A i, j \in 1..n : i < j => h[i] < h[j]
  BY <1>1, TimedFacts
<1>3. /\ \A i \in 1..Len(d) : d[i] \in Nat /\ 0 < d[i] /\ d[i] <= t
      /\ \A i, j \in 1..Len(d) : i < j => d[i] < d[j]
      /\ \A i \in 1..Len(d) : d[i] > h[n]
  BY <1>1, TimedFacts DEF Copy
<1>4. /\ m \in Seq(Nat) /\ Len(m) = n + Len(d)
      /\ \A i \in 1..n : m[i] = h[i]
      /\ \A i \in 1..Len(d) : m[n + i] = d[i]
  BY DEF Joins
<1>5. \A i \in 1..Len(m) : i \in 1..n \/ (i - n \in 1..Len(d) /\ m[i] = d[i - n])
  <2> SUFFICES ASSUME NEW i \in 1..Len(m), i \notin 1..n
               PROVE  i - n \in 1..Len(d) /\ m[i] = d[i - n]
    OBVIOUS
  <2>1. i - n \in 1..Len(d) /\ n + (i - n) = i
    BY <1>2, <1>4
  <2> QED
    BY <1>4, <2>1
<1> HIDE DEF n
<1>6. Timed(m, t)
  <2>1. \A i \in 1..Len(m) : 0 < m[i] /\ m[i] <= t
    BY <1>2, <1>3, <1>4, <1>5
  <2>2. ASSUME NEW i \in 1..Len(m), NEW j \in 1..Len(m), i < j PROVE m[i] < m[j]
    <3>1. CASE j \in 1..n
      <4>1. i \in 1..n
        BY <1>2, <2>2, <3>1
      <4> QED
        BY <1>2, <1>4, <2>2, <3>1, <4>1
    <3>2. CASE j \notin 1..n
      <4>1. j - n \in 1..Len(d) /\ m[j] = d[j - n]
        BY <1>5, <3>2
      <4>2. CASE i \in 1..n
        <5>1. m[i] \in Nat /\ m[i] <= h[n] /\ h[n] \in Nat /\ m[j] > h[n] /\ m[j] \in Nat
          <6>1. n \in 1..n
            BY <1>2
          <6> QED
            BY <1>2, <1>3, <1>4, <4>1, <4>2, <6>1
        <5> QED
          BY <5>1
      <4>3. CASE i \notin 1..n
        <5>1. i - n \in 1..Len(d) /\ m[i] = d[i - n] /\ i - n < j - n
          BY <1>2, <1>5, <2>2, <4>3
        <5> QED
          BY <1>3, <4>1, <5>1
      <4> QED
        BY <4>2, <4>3
    <3> QED
      BY <3>1, <3>2
  <2> QED
    BY <1>2, <1>4, <2>1, <2>2 DEF Timed
<1>7. /\ \A i \in 1..n : i \in 1..Len(m) /\ m[i] = h[i]
      /\ \A i \in 1..Len(d) : n + i \in 1..Len(m) /\ m[n + i] = d[i]
      /\ Len(m) \in Nat /\ Len(m) > 0
  BY <1>2, <1>4
<1>8. \A p : In(p, h) \/ In(p, d) => In(p, m)
  BY <1>7 DEF In, n
<1>9. m[Len(m)] = (IF Len(d) = 0 THEN h[n] ELSE d[Len(d)])
  <2>1. CASE Len(d) = 0
    <3>1. n \in 1..n /\ Len(m) = n
      BY <1>2, <1>4, <2>1
    <3> QED
      BY <1>4, <2>1, <3>1
  <2>2. CASE Len(d) # 0
    <3>1. Len(d) \in 1..Len(d) /\ Len(m) = n + Len(d)
      BY <1>2, <1>4, <2>2
    <3> QED
      BY <1>4, <2>2, <3>1
  <2> QED
    BY <2>1, <2>2
<1>10. ASSUME NEW k \in 1..Len(H), H[k] <= m[Len(m)], H[k] >= m[Len(m)] - Window
       PROVE  In(H[k], m)
  <2>1. /\ H[k] \in Nat /\ h[n] \in Nat /\ Window \in Nat
        /\ Len(d) # 0 => d[Len(d)] \in Nat /\ d[Len(d)] > h[n]
    <3>1. n \in 1..n /\ (Len(d) # 0 => Len(d) \in 1..Len(d))
      BY <1>2
    <3> QED
      BY <1>2, <1>3, <3>1, TimedFacts, ServingAssumption
  <2>2. CASE H[k] <= h[n]
    <3>1. H[k] >= h[n] - Window
      BY <1>9, <1>10, <2>1
    <3>2. In(H[k], h)
      BY <1>2, <2>2, <3>1 DEF PageOf, n
    <3> QED
      BY <1>8, <3>2
  <2>3. CASE H[k] > h[n]
    <3>1. Len(d) > 0 /\ H[k] <= d[Len(d)]
      BY <1>2, <1>9, <1>10, <2>1, <2>3
    <3>2. In(H[k], d)
      BY <2>3, <3>1 DEF Copy, n
    <3> QED
      BY <1>8, <3>2
  <2> QED
    BY <2>1, <2>2, <2>3
<1>11. ASSUME NEW i \in 1..(Len(m) - 1), m[i + 1] - m[i] > Tolerance, NEW p \in K
       PROVE  p <= m[i] \/ p >= m[i + 1]
  <2>1. CASE i < n
    <3>1. i \in 1..(n - 1) /\ m[i] = h[i] /\ m[i + 1] = h[i + 1]
      <4>1. i \in 1..(n - 1) /\ i \in 1..n /\ i + 1 \in 1..n
        BY <1>2, <1>7, <2>1
      <4> QED
        BY <1>4, <4>1
    <3> QED
      BY <1>11, <3>1 DEF PageOf, n
  <2>2. CASE i = n
    <3>1. n \in 1..n /\ 1 \in 1..Len(d) /\ Len(d) > 0
      BY <1>2, <1>4, <2>2
    <3>2. m[i] = h[n] /\ m[i + 1] = d[1]
      BY <1>4, <2>2, <3>1
    <3>3. d[1] - h[n] <= Tolerance /\ d[1] \in Nat /\ h[n] \in Nat /\ Tolerance \in Nat
      BY <1>2, <1>3, <3>1, PageAssumption DEF n
    <3> QED
      BY <1>11, <3>2, <3>3
  <2>3. CASE i > n
    <3>1. /\ i - n \in 1..(Len(d) - 1) /\ i - n \in 1..Len(d) /\ (i - n) + 1 \in 1..Len(d)
          /\ n + (i - n) = i /\ n + ((i - n) + 1) = i + 1
      BY <1>2, <1>4, <2>3
    <3>2. m[n + (i - n)] = d[i - n] /\ m[n + ((i - n) + 1)] = d[(i - n) + 1]
      <4> DEFINE j == i - n
                 l == (i - n) + 1
      <4>1. j \in 1..Len(d) /\ l \in 1..Len(d)
        BY <3>1
      <4> HIDE DEF j, l
      <4>2. m[n + j] = d[j] /\ m[n + l] = d[l]
        BY <1>4, <4>1
      <4> QED
        BY <4>2 DEF j, l
    <3>3. m[i] = d[i - n] /\ m[i + 1] = d[(i - n) + 1]
      BY <3>1, <3>2
    <3> QED
      BY <3>1, <3>3 DEF Copy
  <2> QED
    BY <1>2, <2>1, <2>2, <2>3
<1> QED
  BY <1>6, <1>10, <1>11 DEF PageOf

\* What is older than the window is dropped (trimHistoryWindow).
LEMMA TrimIsPage ==
  ASSUME NEW m, NEW H, NEW K, NEW t, PageOf(m, H, K, t), Timed(H, t)
  PROVE  PageOf(Trimmed(m), H, K, t) /\ Bounded(Trimmed(m))
<1>1. Timed(m, t)
  BY DEF PageOf
<1>2. /\ Len(m) \in Nat /\ Window \in Nat \ {0} /\ (m = NoData <=> Len(m) = 0)
      /\ \A i \in 1..Len(m) : m[i] \in Nat /\ m[i] <= m[Len(m)]
      /\ Len(m) > 0 => Last(m) = m[Len(m)]
  BY <1>1, TimedFacts, ServingAssumption
<1>3. CASE Len(m) = 0
  <2>1. Trimmed(m) = m
    BY <1>2, <1>3 DEF Trimmed
  <2> QED
    BY <1>3, <2>1 DEF Bounded
<1>4. CASE Len(m) # 0
  <2> DEFINE c == m[Len(m)] - Window
             q == Trimmed(m)
  <2>1. c \in Int /\ q = From(m, c) /\ m[Len(m)] \in Nat /\ Len(m) \in 1..Len(m)
    <3>1. Len(m) \in 1..Len(m)
      BY <1>2, <1>4
    <3>2. m[Len(m)] \in Nat /\ Last(m) = m[Len(m)]
      BY <1>2, <1>4, <3>1
    <3> QED
      BY <1>2, <1>4, <3>1, <3>2 DEF Trimmed
  <2>2. \A x \in Int : x < c <=> ~(x >= m[Len(m)] - Window)
    BY <2>1
  <2>3. c <= m[Len(m)]
    BY <1>2, <2>1
  <2>4. \A x, y \in Int : x >= c /\ y <= m[Len(m)] => y - x <= Window
    BY <1>2, <2>1
  <2> HIDE DEF c, q
  <2>5. PICK k \in 0..Len(m) : Suffix(q, m, k) /\ \A i \in 1..Len(m) : m[i] < c <=> i <= k
    BY <1>1, <2>1, FromIsSuffix
  <2>6. /\ Timed(q, t) /\ Len(q) \in Nat /\ Len(q) = Len(m) - k
        /\ Len(q) > 0 => q[Len(q)] = m[Len(m)]
        /\ \A i \in 1..Len(q) : q[i] = m[k + i]
    BY <1>1, <2>5, SuffixFacts
  <2>7. ASSUME NEW j \in 1..Len(H), Len(q) > 0, H[j] <= q[Len(q)], H[j] >= q[Len(q)] - Window
        PROVE  In(H[j], q)
    <3>1. Len(m) > 0 /\ H[j] <= m[Len(m)] /\ H[j] >= m[Len(m)] - Window /\ H[j] \in Nat
      <4>1. H[j] \in Nat
        BY TimedFacts
      <4> QED
        BY <1>2, <1>4, <2>6, <2>7, <4>1
    <3>2. PICK i \in 1..Len(m) : m[i] = H[j]
      BY <3>1 DEF PageOf, In
    <3>3. ~(m[i] < c)
      BY <2>2, <3>1, <3>2
    <3>4. i > k
      BY <1>2, <2>5, <3>3
    <3> QED
      BY <1>1, <2>5, <3>2, <3>4, InSuffix
  <2>8. ASSUME NEW i \in 1..(Len(q) - 1), q[i + 1] - q[i] > Tolerance, NEW p \in K
        PROVE  p <= q[i] \/ p >= q[i + 1]
    <3>1. /\ i \in 1..Len(q) /\ i + 1 \in 1..Len(q) /\ k + i \in 1..(Len(m) - 1)
          /\ k + (i + 1) = (k + i) + 1
      BY <1>2, <2>6
    <3>2. q[i] = m[k + i] /\ q[i + 1] = m[(k + i) + 1]
      BY <2>6, <3>1
    <3> QED
      BY <2>8, <3>1, <3>2 DEF PageOf
  <2>9. Bounded(q)
    <3> SUFFICES ASSUME Len(q) > 0 PROVE q[Len(q)] - q[1] <= Window
      BY DEF Bounded
    <3>1. 1 \in 1..Len(q) /\ k + 1 \in 1..Len(m) /\ ~(k + 1 <= k)
      BY <1>2, <2>5, <2>6
    <3>2. q[1] = m[k + 1] /\ ~(m[k + 1] < c) /\ m[k + 1] \in Nat /\ q[Len(q)] = m[Len(m)]
      BY <1>2, <2>5, <2>6, <3>1
    <3>3. m[k + 1] \in Int /\ m[Len(m)] \in Int /\ m[k + 1] >= c /\ m[Len(m)] <= m[Len(m)]
      BY <2>1, <3>2
    <3>4. m[Len(m)] - m[k + 1] <= Window
      BY <2>4, <3>3
    <3> QED
      BY <3>2, <3>4
  <2>10. PageOf(q, H, K, t)
    BY <2>6, <2>7, <2>8 DEF PageOf
  <2> QED
    BY <2>9, <2>10 DEF q
<1> QED
  BY <1>3, <1>4

-----------------------------------------------------------------------------
(* The invariant. *)

LEMMA NothingIsCopy ==
  ASSUME NEW from \in Nat, NEW H, NEW K, NEW t \in Nat
  PROVE  Copy(NoData, from, H, K, t) /\ PageOf(NoData, H, K, t) /\ Bounded(NoData)
<1>1. NoData \in Seq(Nat) /\ Len(NoData) = 0 /\ Capacity \in Nat
  BY EmptySeq, ServingAssumption DEF NoData
<1> HIDE DEF NoData
<1>2. Timed(NoData, t)
  BY <1>1 DEF Timed
<1> QED
  BY <1>1, <1>2 DEF Copy, PageOf, Bounded

LEMMA Asked ==
  /\ NoRequest \in Request /\ NoRequest.pc = "none" /\ NoRequest.since = FullWindow
  /\ [NoRequest EXCEPT !.pc = "broken"] \in Request
  /\ [NoRequest EXCEPT !.pc = "broken"].pc = "broken"
  /\ [NoRequest EXCEPT !.pc = "broken"].since = FullWindow
  /\ \A t \in Nat : LET r == [NoRequest EXCEPT !.pc = "sent", !.since = t]
                    IN  r \in Request /\ r.pc = "sent" /\ r.since = t
  /\ FullWindow = 0
<1>1. NoData \in Seq(Nat)
  BY EmptySeq DEF NoData
<1> QED
  BY <1>1 DEF NoRequest, Request, FullWindow

LEMMA FullAsked ==
  LET r == [NoRequest EXCEPT !.pc = "sent", !.since = FullWindow]
  IN  r \in Request /\ r.pc = "sent" /\ r.since = FullWindow
<1> DEFINE t == FullWindow
<1>1. t \in Nat
  BY DEF FullWindow
<1> HIDE DEF t
<1>2. LET r == [NoRequest EXCEPT !.pc = "sent", !.since = t]
      IN  r \in Request /\ r.pc = "sent" /\ r.since = t
  BY <1>1, Asked
<1> QED
  BY <1>2 DEF t

LEMMA EmptyCacheFacts ==
  /\ EmptyCache \in Cache
  /\ EmptyCache.data = NoData /\ ~EmptyCache.encoded /\ ~EmptyCache.valid
<1>1. NoData \in Seq(Nat)
  BY EmptySeq DEF NoData
<1> QED
  BY <1>1 DEF EmptyCache, Cache

LEMMA InitInv == Init => IndInv
<1> SUFFICES ASSUME Init PROVE IndInv
  OBVIOUS
<1>1. /\ clock = 0 /\ hist = NoData /\ gen = 0 /\ cache = EmptyCache
      /\ request = [c \in Clients |-> NoRequest] /\ lost = {} /\ recorded = {}
      /\ held = NoData /\ since = FullWindow /\ phase = "idle"
  BY DEF Init, ServingInit, NoData
<1>2. Known = {} /\ recorded \subseteq 1..clock
  BY <1>1 DEF Known
<1>3. NoData \in Seq(Nat) /\ Len(NoData) = 0
  BY EmptySeq DEF NoData
<1>4. Copy(NoData, 0, hist, Known, clock) /\ PageOf(NoData, hist, Known, clock) /\ Bounded(NoData)
  BY <1>1, NothingIsCopy
<1>5. Series(hist, Known, clock)
  BY <1>1, <1>2, <1>3, <1>4 DEF Series, Copy
<1>6. CacheInv
  BY <1>1, <1>4, EmptyCacheFacts DEF CacheInv
<1>7. request \in [Clients -> Request] /\ \A c \in Clients : RequestInv(c)
  BY <1>1, Asked DEF RequestInv
<1>8. ServerInv
  BY <1>1, <1>2, <1>5, <1>6, <1>7 DEF ServerInv
<1>9. PageInv
  BY <1>1, <1>4 DEF PageInv
<1> QED
  BY <1>8, <1>9 DEF IndInv

\* A client asks, or forgets what it asked.
LEMMA RequestChanges ==
  ASSUME ServerInv, NEW c \in Clients, NEW r \in Request, r.pc \in {"none", "sent", "broken"},
         request' = [request EXCEPT ![c] = r],
         UNCHANGED <<clock, hist, gen, cache, recorded, lost>>
  PROVE  ServerInv' /\ request'[c] = r /\ \A d \in Clients \ {c} : request'[d] = request[d]
<1>1. request \in [Clients -> Request] /\ CacheInv /\ Series(hist, Known, clock)
  BY DEF ServerInv
<1>2. /\ request' \in [Clients -> Request] /\ request'[c] = r
      /\ \A d \in Clients \ {c} : request'[d] = request[d]
  BY <1>1
<1>3. Known' = Known
  BY DEF Known
<1>4. CacheInv'
  BY <1>1, <1>3 DEF CacheInv
<1>5. RequestInv(c)'
  BY <1>2 DEF RequestInv
<1>6. ASSUME NEW d \in Clients \ {c} PROVE RequestInv(d)'
  BY <1>2, <1>3 DEF RequestInv, ServerInv
<1>7. ServerInv'
  BY <1>1, <1>2, <1>3, <1>4, <1>5, <1>6 DEF ServerInv
<1> QED
  BY <1>2, <1>7

\* The page sees of the server only the points and its own request.
LEMMA PageWaits ==
  ASSUME PageInv, UNCHANGED <<held, since, phase>>,
         Later(hist, Known, clock, hist', Known', clock'),
         request'[Page] = request[Page] \/ (request'[Page].pc = "broken" /\ request'[Page].since = FullWindow)
           \/ (request'[Page].pc # "broken" /\ request[Page].pc # "broken" /\ request'[Page].since = request[Page].since)
  PROVE  PageInv'
<1>1. PageOf(held', hist', Known', clock') /\ Bounded(held')
  BY PageStays DEF PageInv
<1> QED
  BY <1>1 DEF PageInv

\* Nothing new: the points and what is known of them stay.
LEMMA SameIsLater ==
  ASSUME ServerInv PROVE Later(hist, Known, clock, hist, Known, clock)
<1>1. Series(hist, Known, clock)
  BY DEF ServerInv
<1>2. Timed(hist, clock)
  BY <1>1 DEF Series
<1>3. clock \in Nat /\ \A k \in 1..Len(hist) : hist[k] \in Nat /\ In(hist[k], hist)
  BY <1>2, TimedFacts DEF In
<1>4. \A p \in Known : p \in Nat
  BY <1>1 DEF Series
<1> QED
  BY <1>3, <1>4 DEF Later

LEMMA TickKeeps ==
  ASSUME IndInv, FastTick, recorded' = recorded \union {clock'}, UNCHANGED <<held, since, polls, phase>>
  PROVE  IndInv'
<1>1. /\ ServerInv /\ PageInv /\ CacheInv /\ Series(hist, Known, clock)
      /\ recorded \subseteq 1..clock /\ gen \in Nat
      /\ request \in [Clients -> Request] /\ \A c \in Clients : RequestInv(c)
  BY DEF IndInv, ServerInv
<1>2. Timed(hist, clock) /\ clock \in Nat
  BY <1>1, TimedFacts DEF Series
<1>3. /\ clock' \in Nat /\ clock' > clock /\ hist' = Kept(Append(hist, clock')) /\ gen' = gen + 1
      /\ UNCHANGED <<cache, request, restarts, lost>>
  BY <1>2, ServingAssumption DEF FastTick
<1>4. \A p \in Known' : p \in Known \/ p = clock'
  BY <1>3 DEF Known
<1>5. /\ Series(hist', Known', clock') /\ Later(hist, Known, clock, hist', Known', clock')
      /\ NewestPoint(hist) <= NewestPoint(hist')
  <2> DEFINE K2 == Known'
             c == clock'
  <2>1. c \in Nat /\ c > clock /\ hist' = Kept(Append(hist, c)) /\ \A p \in K2 : p \in Known \/ p = c
    BY <1>3, <1>4
  <2> HIDE DEF K2, c
  <2>2. LET H2 == Kept(Append(hist, c))
        IN  /\ Series(H2, K2, c) /\ Later(hist, Known, clock, H2, K2, c)
            /\ NewestPoint(hist) <= NewestPoint(H2)
    BY <1>1, <2>1, TickKeepsSeries
  <2>3. Series(hist', K2, c) /\ Later(hist, Known, clock, hist', K2, c)
        /\ NewestPoint(hist) <= NewestPoint(hist')
    BY <2>1, <2>2
  <2> QED
    BY <2>3 DEF K2, c
<1>6. \A s, from : Copy(s, from, hist, Known, clock) => Copy(s, from, hist', Known', clock')
  BY <1>5, CopyStays
<1>7. CacheInv'
  <2>1. Copy(cache.data, 0, hist', Known', clock')
    BY <1>1, <1>6 DEF CacheInv
  <2>2. cache.valid => cache.gen <= gen' /\ cache.gen # gen'
    BY <1>1, <1>3 DEF CacheInv, Cache
  <2> QED
    BY <1>1, <1>3, <2>1, <2>2 DEF CacheInv
<1>8. ASSUME NEW c \in Clients PROVE RequestInv(c)'
  <2>1. request[c] \in Request /\ RequestInv(c)
    BY <1>1
  <2>2. NewestPoint(hist) \in Nat /\ NewestPoint(hist') \in Nat
    <3>1. Timed(hist', clock')
      BY <1>5 DEF Series
    <3>2. \A s, t : Timed(s, t) => NewestPoint(s) \in Nat
      <4> SUFFICES ASSUME NEW s, NEW t, Timed(s, t) PROVE NewestPoint(s) \in Nat
        OBVIOUS
      <4>1. /\ Len(s) \in Nat /\ \A i \in 1..Len(s) : s[i] \in Nat
            /\ NewestPoint(s) = IF Len(s) = 0 THEN 0 ELSE s[Len(s)]
        BY TimedFacts
      <4>2. Len(s) # 0 => Len(s) \in 1..Len(s)
        BY <4>1
      <4> QED
        BY <4>1, <4>2
    <3> QED
      BY <1>2, <3>1, <3>2
  <2>3. request[c].pc = "handled" =>
          /\ request[c].gen <= gen' /\ request[c].newest <= NewestPoint(hist')
          /\ cache.valid /\ cache.gen = request[c].gen =>
               request[c].newest <= NewestPoint(cache.data)
    <3>1. request[c].gen \in Nat /\ request[c].newest \in Nat
      BY <2>1 DEF Request
    <3> QED
      BY <1>1, <1>3, <1>5, <2>1, <2>2, <3>1 DEF RequestInv
  <2>4. request[c].pc = "answered" =>
          /\ Copy(request[c].reply, request[c].since, hist', Known', clock')
          /\ request[c].newest > request[c].since =>
               NewestPoint(request[c].reply) >= request[c].newest
    BY <1>6, <2>1 DEF RequestInv
  <2> QED
    BY <1>3, <2>3, <2>4 DEF RequestInv
<1>9. recorded' \subseteq 1..clock'
  BY <1>1, <1>2, <1>3
<1>10. ServerInv'
  BY <1>1, <1>3, <1>5, <1>7, <1>8, <1>9 DEF ServerInv
<1>11. PageInv'
  BY <1>1, <1>3, <1>5, PageWaits
<1> QED
  BY <1>10, <1>11 DEF IndInv

LEMMA RestartKeeps ==
  ASSUME IndInv, Restart, UNCHANGED recorded, UNCHANGED <<held, since, polls, phase>>
  PROVE  IndInv'
<1>1. /\ ServerInv /\ PageInv /\ CacheInv /\ Series(hist, Known, clock)
      /\ recorded \subseteq 1..clock
      /\ request \in [Clients -> Request] /\ \A c \in Clients : RequestInv(c)
  BY DEF IndInv, ServerInv
<1>2. Timed(hist, clock) /\ clock \in Nat /\ Len(hist) \in Nat
  BY <1>1, TimedFacts DEF Series
<1>3. /\ lost' = lost \union (ToSet(hist) \ ToSet(hist')) /\ gen' = 0 /\ cache' = EmptyCache
      /\ clock' = clock
      /\ request' = [c \in Clients |->
                       IF request[c].pc \in {"sent", "handled"}
                       THEN [NoRequest EXCEPT !.pc = "broken"] ELSE request[c]]
  BY DEF Restart
<1>4. PICK n \in 0..Len(hist) : hist' = From(SubSeq(hist, 1, n), clock - Window)
  BY DEF Restart
<1>5. Series(hist', Known', clock) /\ Later(hist, Known, clock, hist', Known', clock)
  <2> DEFINE K2 == Known'
             H2 == hist'
             c == clock - Window
  <2>1. c \in Int
    BY <1>2, ServingAssumption
  <2>2. \A p \in K2 : p \in Known /\ (In(p, hist) => In(p, H2))
    <3>1. \A p, s : In(p, s) /\ s \in Seq(Nat) => p \in ToSet(s)
      BY LenProperties DEF In, ToSet
    <3>2. \A p : p \in ToSet(H2) => In(p, H2)
      BY DEF In, ToSet
    <3>3. hist \in Seq(Nat)
      BY <1>2 DEF Timed
    <3> QED
      BY <1>1, <1>3, <3>1, <3>2, <3>3 DEF Known
  <2>3. H2 = From(SubSeq(hist, 1, n), c)
    BY <1>4
  <2> HIDE DEF K2, H2, c
  <2>4. Series(H2, K2, clock) /\ Later(hist, Known, clock, H2, K2, clock)
    BY <1>1, <1>4, <2>1, <2>2, <2>3, RestartKeepsSeries
  <2> QED
    BY <2>4 DEF K2, H2
<1>6. \A s, from : Copy(s, from, hist, Known, clock) => Copy(s, from, hist', Known', clock')
  BY <1>3, <1>5, CopyStays
<1>7. CacheInv'
  <2>1. Copy(NoData, 0, hist', Known', clock')
    BY <1>2, <1>3, NothingIsCopy
  <2> QED
    BY <1>3, <2>1, EmptyCacheFacts DEF CacheInv
<1>8. /\ request' \in [Clients -> Request]
      /\ \A c \in Clients : \/ request'[c].pc = "broken" /\ request'[c].since = FullWindow
                            \/ request'[c] = request[c] /\ request[c].pc # "handled"
  BY <1>1, <1>3, Asked
<1>9. ASSUME NEW c \in Clients PROVE RequestInv(c)'
  BY <1>1, <1>6, <1>8 DEF RequestInv
<1>10. ServerInv'
  <2>1. recorded' \subseteq 1..clock' /\ gen' \in Nat
    BY <1>1, <1>3
  <2> QED
    BY <1>3, <1>5, <1>7, <1>8, <1>9, <2>1 DEF ServerInv
<1>11. PageInv'
  <2>1. Page \in Clients
    BY PageAssumption
  <2> QED
    BY <1>1, <1>3, <1>5, <1>8, <2>1, PageWaits
<1> QED
  BY <1>10, <1>11 DEF IndInv

LEMMA BreakKeeps ==
  ASSUME IndInv, NEW c \in Clients, Break(c), UNCHANGED recorded, UNCHANGED <<held, since, polls, phase>>
  PROVE  IndInv'
<1> DEFINE r == [NoRequest EXCEPT !.pc = "broken"]
<1>1. /\ request' = [request EXCEPT ![c] = r]
      /\ UNCHANGED <<clock, hist, gen, cache, recorded, lost>>
  BY DEF Break
<1>2. r \in Request /\ r.pc = "broken" /\ r.since = FullWindow
  BY Asked
<1> HIDE DEF r
<1>3. ServerInv' /\ request'[c] = r /\ \A d \in Clients \ {c} : request'[d] = request[d]
  BY <1>1, <1>2, RequestChanges DEF IndInv
<1>4. Later(hist, Known, clock, hist', Known', clock')
  BY <1>1, SameIsLater DEF IndInv, Known
<1>5. PageInv'
  BY <1>2, <1>3, <1>4, PageWaits, PageAssumption DEF IndInv
<1> QED
  BY <1>3, <1>5 DEF IndInv

LEMMA ReadKeeps ==
  ASSUME IndInv, NEW c \in Clients, ReadGeneration(c), UNCHANGED recorded,
         UNCHANGED <<held, since, polls, phase>>
  PROVE  IndInv'
<1>1. /\ ServerInv /\ PageInv /\ CacheInv /\ Series(hist, Known, clock) /\ gen \in Nat
      /\ request \in [Clients -> Request] /\ \A d \in Clients : RequestInv(d)
  BY DEF IndInv, ServerInv
<1>2. /\ request[c].pc = "sent" /\ UNCHANGED <<clock, hist, gen, cache, recorded, lost>>
      /\ request' = [request EXCEPT ![c].pc = "handled", ![c].gen = gen, ![c].newest = NewestPoint(hist)]
  BY DEF ReadGeneration
<1>3. NewestPoint(hist) \in Nat
  <2>1. /\ Len(hist) \in Nat /\ \A i \in 1..Len(hist) : hist[i] \in Nat
        /\ NewestPoint(hist) = IF Len(hist) = 0 THEN 0 ELSE hist[Len(hist)]
    BY <1>1, TimedFacts DEF Series
  <2>2. Len(hist) # 0 => Len(hist) \in 1..Len(hist)
    BY <2>1
  <2> QED
    BY <2>1, <2>2
<1>4. /\ request' \in [Clients -> Request]
      /\ request'[c].pc = "handled" /\ request'[c].gen = gen
      /\ request'[c].newest = NewestPoint(hist) /\ request'[c].since = request[c].since
      /\ \A d \in Clients \ {c} : request'[d] = request[d]
  <2> DEFINE x == NewestPoint(hist)
  <2>1. x \in Nat /\ request' = [request EXCEPT ![c].pc = "handled", ![c].gen = gen, ![c].newest = x]
    BY <1>2, <1>3
  <2> HIDE DEF x
  <2>2. /\ request' \in [Clients -> Request]
        /\ request'[c].pc = "handled" /\ request'[c].gen = gen
        /\ request'[c].newest = x /\ request'[c].since = request[c].since
        /\ \A d \in Clients \ {c} : request'[d] = request[d]
    BY <1>1, <2>1 DEF Request
  <2> QED
    BY <2>2 DEF x
<1>5. Known' = Known
  BY <1>2 DEF Known
<1>6. CacheInv'
  BY <1>1, <1>2, <1>5 DEF CacheInv
<1>7. RequestInv(c)'
  <2>1. cache.valid /\ cache.gen = gen => NewestPoint(cache.data) = NewestPoint(hist)
    BY <1>1 DEF CacheInv
  <2>2. UNCHANGED <<hist, gen, cache>> /\ NewestPoint(hist') = NewestPoint(hist)
    BY <1>2
  <2> QED
    BY <1>1, <1>3, <1>4, <2>1, <2>2 DEF RequestInv
<1>8. ASSUME NEW d \in Clients \ {c} PROVE RequestInv(d)'
  BY <1>1, <1>2, <1>4, <1>5 DEF RequestInv
<1>9. ServerInv'
  BY <1>1, <1>2, <1>4, <1>5, <1>6, <1>7, <1>8 DEF ServerInv
<1>10. PageInv'
  <2>1. Later(hist, Known, clock, hist', Known', clock')
    BY <1>1, <1>2, <1>5, SameIsLater
  <2> QED
    BY <1>1, <1>2, <1>4, <2>1, PageWaits, PageAssumption
<1> QED
  BY <1>9, <1>10 DEF IndInv

\* f is the cache that a handler of generation g works with.
Fresh(f, g) ==
  /\ f \in Cache /\ f.valid /\ f.gen = g
  /\ f.encoded => f.json = f.data
  /\ Copy(f.data, 0, hist, Known, clock)
  /\ g <= gen /\ (g = gen => f.data = hist)
  /\ \/ f.data = hist
     \/ cache.valid /\ cache.gen = g /\ f.data = cache.data

LEMMA RefreshedIsFresh ==
  ASSUME CacheInv, Series(hist, Known, clock), gen \in Nat, NEW g \in Nat, g <= gen
  PROVE  Fresh(Refreshed(g), g)
<1>1. Copy(hist, 0, hist, Known, clock) /\ hist \in Seq(Nat)
  <2>1. Timed(hist, clock)
    BY DEF Series
  <2> QED
    BY <2>1, SeriesIsCopy DEF Timed
<1>2. CASE cache.valid /\ cache.gen = g
  BY <1>2 DEF Refreshed, Fresh, Cache, CacheInv
<1>3. CASE ~(cache.valid /\ cache.gen = g)
  <2> DEFINE f == [EmptyCache EXCEPT !.valid = TRUE, !.gen = g, !.data = hist]
  <2>1. Refreshed(g) = f
    BY <1>3 DEF Refreshed
  <2>2. f \in Cache /\ f.valid /\ f.gen = g /\ f.data = hist /\ ~f.encoded
    <3>1. NoData \in Seq(Nat)
      BY EmptySeq DEF NoData
    <3> QED
      BY <1>1, <3>1 DEF Cache, EmptyCache
  <2> HIDE DEF f
  <2> QED
    BY <1>1, <2>1, <2>2 DEF Fresh
<1> QED
  BY <1>2, <1>3

LEMMA EncodedIsFresh ==
  ASSUME NEW f, NEW g, Fresh(f, g),
         NEW h, h = [f EXCEPT !.encoded = TRUE, !.json = f.data]
  PROVE  Fresh(h, g) /\ h.json = h.data
<1>1. f \in Cache
  BY DEF Fresh
<1>2. /\ h \in Cache /\ h.valid = f.valid /\ h.gen = f.gen /\ h.data = f.data
      /\ h.json = f.data
  BY <1>1 DEF Cache
<1> QED
  BY <1>2 DEF Fresh

LEMMA ServeKeeps ==
  ASSUME IndInv, NEW c \in Clients, Serve(c), UNCHANGED recorded,
         UNCHANGED <<held, since, polls, phase>>
  PROVE  IndInv'
<1>1. /\ ServerInv /\ PageInv /\ CacheInv /\ Series(hist, Known, clock) /\ gen \in Nat
      /\ request \in [Clients -> Request] /\ \A d \in Clients : RequestInv(d)
  BY DEF IndInv, ServerInv
<1> DEFINE r == request[c]
           full == r.since = FullWindow
           fresh == Refreshed(r.gen)
           now == IF full /\ ~fresh.encoded
                  THEN [fresh EXCEPT !.encoded = TRUE, !.json = fresh.data] ELSE fresh
           answer == IF full THEN now.json ELSE Since(now.data, r.since)
<1>2. /\ r.pc = "handled" /\ cache' = now /\ UNCHANGED <<clock, hist, gen, recorded, lost>>
      /\ request' = [request EXCEPT ![c].pc = "answered", ![c].reply = answer]
  BY DEF Serve
<1>3. /\ r.gen \in Nat /\ r.gen <= gen /\ r.newest \in Nat /\ r.since \in Nat
      /\ r.newest <= NewestPoint(hist)
      /\ cache.valid /\ cache.gen = r.gen => r.newest <= NewestPoint(cache.data)
  BY <1>1, <1>2 DEF Request, RequestInv
<1>4. Fresh(fresh, r.gen)
  BY <1>1, <1>3, RefreshedIsFresh
<1> HIDE DEF fresh
<1>5. Fresh(now, r.gen) /\ (full => now.json = now.data)
  <2>1. CASE full /\ ~fresh.encoded
    BY <1>4, <2>1, EncodedIsFresh
  <2>2. CASE ~(full /\ ~fresh.encoded)
    BY <1>4, <2>2 DEF Fresh
  <2> QED
    BY <2>1, <2>2
<1> HIDE DEF now
<1>6. answer = Since(now.data, r.since)
  BY <1>5 DEF Since
<1>7. /\ Copy(answer, r.since, hist, Known, clock)
      /\ \A n \in Nat : n > r.since /\ NewestPoint(now.data) >= n => NewestPoint(answer) >= n
  <2> DEFINE s == now.data
             from == r.since
             q == answer
  <2>1. Timed(hist, clock) /\ Copy(s, 0, hist, Known, clock) /\ from \in Nat /\ q = Since(s, from)
    BY <1>1, <1>3, <1>5, <1>6 DEF Series, Fresh
  <2> HIDE DEF s, from, q
  <2>2. /\ Copy(q, from, hist, Known, clock)
        /\ \A n \in Nat : n > from /\ NewestPoint(s) >= n => NewestPoint(q) >= n
    BY <2>1, SinceIsCopy
  <2> QED
    BY <2>2 DEF s, from, q
<1> HIDE DEF answer, full
<1>8. /\ request' \in [Clients -> Request]
      /\ request'[c].pc = "answered" /\ request'[c].reply = answer
      /\ request'[c].newest = r.newest /\ request'[c].since = r.since
      /\ \A d \in Clients \ {c} : request'[d] = request[d]
  <2>1. answer \in Seq(Nat)
    BY <1>7 DEF Copy, Timed
  <2> QED
    BY <1>1, <1>2, <2>1 DEF Request
<1>9. Known' = Known
  BY <1>2 DEF Known
<1>10. CacheInv'
  BY <1>2, <1>5, <1>9 DEF CacheInv, Fresh, Cache
<1>11. RequestInv(c)'
  <2>1. r.newest <= NewestPoint(now.data)
    BY <1>3, <1>5 DEF Fresh
  <2>2. r.newest > r.since => NewestPoint(answer) >= r.newest
    <3>1. NewestPoint(now.data) \in Nat
      <4>1. Timed(now.data, clock)
        BY <1>5 DEF Fresh, Copy
      <4> DEFINE s == now.data
      <4>2. /\ Len(s) \in Nat /\ \A i \in 1..Len(s) : s[i] \in Nat
            /\ NewestPoint(s) = IF Len(s) = 0 THEN 0 ELSE s[Len(s)]
        BY <4>1, TimedFacts
      <4>3. Len(s) # 0 => Len(s) \in 1..Len(s)
        BY <4>2
      <4> QED
        BY <4>2, <4>3
    <3> QED
      BY <1>3, <1>7, <2>1, <3>1
  <2>3. Copy(answer, r.since, hist', Known', clock')
    BY <1>2, <1>7, <1>9
  <2> QED
    BY <1>8, <2>2, <2>3 DEF RequestInv
<1>12. ASSUME NEW d \in Clients \ {c} PROVE RequestInv(d)'
  <2>1. request'[d] = request[d] /\ RequestInv(d)
    BY <1>1, <1>8
  <2>2. ASSUME request[d].pc = "handled", cache'.valid, cache'.gen = request[d].gen
        PROVE  request[d].newest <= NewestPoint(cache'.data)
    <3>1. CASE now.data = hist
      BY <1>2, <2>1, <2>2, <3>1 DEF RequestInv
    <3>2. CASE cache.valid /\ cache.gen = r.gen /\ now.data = cache.data
      <4>1. cache.gen = request[d].gen
        BY <1>2, <1>5, <2>2, <3>2 DEF Fresh
      <4> QED
        BY <1>2, <2>1, <2>2, <3>2, <4>1 DEF RequestInv
    <3> QED
      BY <1>5, <3>1, <3>2 DEF Fresh
  <2> QED
    BY <1>2, <1>9, <2>1, <2>2 DEF RequestInv
<1>13. ServerInv'
  BY <1>1, <1>2, <1>8, <1>9, <1>10, <1>11, <1>12 DEF ServerInv
<1>14. PageInv'
  <2>1. Later(hist, Known, clock, hist', Known', clock')
    BY <1>1, <1>2, <1>9, SameIsLater
  <2>2. \/ request'[Page] = request[Page]
        \/ /\ request'[Page].pc # "broken" /\ request[Page].pc # "broken"
           /\ request'[Page].since = request[Page].since
    BY <1>2, <1>8, PageAssumption
  <2> QED
    BY <1>1, <2>1, <2>2, PageWaits
<1> QED
  BY <1>13, <1>14 DEF IndInv

\* A step of the page that only asks or forgets: what the server did not change stays.
LEMMA PageKeepsServer ==
  ASSUME ServerInv, NEW r \in Request, r.pc \in {"none", "sent", "broken"},
         request' = [request EXCEPT ![Page] = r], UNCHANGED server
  PROVE  /\ ServerInv' /\ request'[Page] = r
         /\ UNCHANGED <<hist, clock>> /\ Known' = Known
<1>1. UNCHANGED <<clock, hist, gen, cache, recorded, lost>> /\ Page \in Clients
  BY PageAssumption DEF server
<1> QED
  BY <1>1, RequestChanges DEF Known

LEMMA OtherKeeps == ASSUME IndInv, OtherAsks PROVE IndInv'
<1>1. PICK c \in Clients \ {Page} : Ask(c, FullWindow)
  BY DEF OtherAsks
<1> DEFINE r == [NoRequest EXCEPT !.pc = "sent", !.since = FullWindow]
<1>2. /\ request' = [request EXCEPT ![c] = r]
      /\ UNCHANGED <<clock, hist, gen, cache, recorded, lost>>
      /\ UNCHANGED <<held, since, phase>>
  BY <1>1 DEF OtherAsks, Ask, server
<1>3. r \in Request /\ r.pc = "sent"
  BY FullAsked
<1> HIDE DEF r
<1>4. ServerInv' /\ request'[Page] = request[Page]
  BY <1>2, <1>3, RequestChanges, PageAssumption DEF IndInv
<1>5. Later(hist, Known, clock, hist', Known', clock')
  BY <1>2, SameIsLater DEF IndInv, Known
<1>6. PageInv'
  BY <1>2, <1>4, <1>5, PageWaits DEF IndInv
<1> QED
  BY <1>4, <1>6 DEF IndInv

\* What is held, as the checks on a delta read it.
LEMMA HeldFacts ==
  ASSUME NEW h, NEW H, NEW K, NEW t, PageOf(h, H, K, t)
  PROVE  /\ Timed(h, t) /\ h \in Seq(Nat) /\ Len(h) \in Nat
         /\ (h = NoData <=> Len(h) = 0)
         /\ NewestPoint(h) \in Nat
         /\ NewestPoint(h) # 0 => h # NoData /\ NewestPoint(h) = Last(h)
         /\ h # NoData => Last(h) = h[Len(h)] /\ Last(h) \in Nat
<1>1. Timed(h, t)
  BY DEF PageOf
<1>2. /\ Len(h) \in Nat /\ h \in Seq(Nat)
      /\ \A i \in 1..Len(h) : h[i] \in Nat
      /\ (h = NoData <=> Len(h) = 0)
      /\ NewestPoint(h) = (IF Len(h) = 0 THEN 0 ELSE h[Len(h)])
      /\ Len(h) > 0 => Last(h) = h[Len(h)]
  BY <1>1, TimedFacts
<1>3. Len(h) # 0 => Len(h) \in 1..Len(h)
  BY <1>2
<1> QED
  BY <1>1, <1>2, <1>3

LEMMA PollKeeps == ASSUME IndInv, Poll PROVE IndInv'
<1> DEFINE t == IF Incremental THEN since ELSE FullWindow
           r == [NoRequest EXCEPT !.pc = "sent", !.since = t]
<1>1. /\ request' = [request EXCEPT ![Page] = r] /\ UNCHANGED server
      /\ UNCHANGED <<held, since>> /\ phase' = IF Incremental THEN "delta" ELSE "full"
  BY DEF Poll, Ask
<1>2. /\ ServerInv /\ PageInv /\ PageOf(held, hist, Known, clock) /\ Bounded(held)
      /\ since # FullWindow => held # NoData /\ since = Last(held)
  BY DEF IndInv, PageInv
<1>3. held # NoData => Last(held) \in Nat
  BY <1>2, HeldFacts
<1>4. t \in Nat /\ (Incremental => since # FullWindow)
  BY <1>2, <1>3 DEF Incremental, FullWindow
<1>5. r \in Request /\ r.pc = "sent" /\ r.since = t
  BY <1>4, Asked
<1> HIDE DEF r
<1>6. ServerInv' /\ request'[Page] = r /\ UNCHANGED <<hist, clock>> /\ Known' = Known
  BY <1>1, <1>2, <1>5, PageKeepsServer
<1>7. PageInv'
  BY <1>1, <1>2, <1>4, <1>5, <1>6 DEF PageInv
<1> QED
  BY <1>6, <1>7 DEF IndInv

\* Rendering a page.
LEMMA RenderKeeps ==
  ASSUME ServerInv, NEW h, PageOf(h, hist, Known, clock), Bounded(h),
         NEW n, Render(h, n), UNCHANGED server
  PROVE  IndInv'
<1>1. /\ held' = h /\ since' = NewestPoint(h) /\ phase' = "idle"
      /\ request' = [request EXCEPT ![Page] = NoRequest]
  BY DEF Render
<1>2. ServerInv' /\ UNCHANGED <<hist, clock>> /\ Known' = Known
  BY <1>1, Asked, PageKeepsServer
<1>3. since' # FullWindow => held' # NoData /\ since' = Last(held')
  BY <1>1, HeldFacts DEF FullWindow
<1>4. PageOf(held', hist', Known', clock') /\ Bounded(held')
  BY <1>1, <1>2
<1>5. PageInv'
  BY <1>1, <1>3, <1>4 DEF PageInv
<1> QED
  BY <1>2, <1>5 DEF IndInv

LEMMA FullKeeps == ASSUME IndInv, ReceiveFull PROVE IndInv'
<1> DEFINE h == request[Page].reply
<1>1. /\ phase = "full" /\ request[Page].pc = "answered" /\ Render(h, 0) /\ UNCHANGED server
  BY DEF ReceiveFull
<1>2. Copy(h, 0, hist, Known, clock) /\ ServerInv /\ Timed(hist, clock)
  BY <1>1, PageAssumption DEF IndInv, ServerInv, RequestInv, PageInv, FullWindow, Series
<1> HIDE DEF h
<1>3. PageOf(h, hist, Known, clock) /\ Bounded(h)
  BY <1>2, FullIsPage
<1> QED
  BY <1>1, <1>2, <1>3, RenderKeeps

LEMMA DeltaKeeps == ASSUME IndInv, ReceiveDelta PROVE IndInv'
<1> DEFINE d == request[Page].reply
           m == held \o d
           h == Trimmed(m)
           n == polls + 1
<1>1. /\ phase = "delta" /\ request[Page].pc = "answered" /\ Aligns(d)
      /\ Render(h, n) /\ UNCHANGED server
  BY DEF ReceiveDelta
<1>2. /\ ServerInv /\ Timed(hist, clock) /\ PageOf(held, hist, Known, clock)
      /\ held # NoData /\ request[Page].since = Last(held)
      /\ Copy(d, request[Page].since, hist, Known, clock)
  BY <1>1, PageAssumption DEF IndInv, ServerInv, RequestInv, PageInv, Series
<1>3. /\ held \in Seq(Nat) /\ Len(held) > 0 /\ Last(held) = held[Len(held)]
      /\ d \in Seq(Nat)
  <2>1. d \in Seq(Nat)
    BY <1>2 DEF Copy, Timed
  <2> QED
    BY <1>2, <2>1, HeldFacts
<1>4. Len(d) > 0 => d[1] - held[Len(held)] <= Tolerance
  <2>1. Timed(d, clock)
    BY <1>2 DEF Copy
  <2>2. (d = NoData <=> Len(d) = 0) /\ (Len(d) > 0 => Head(d) = d[1])
    BY <2>1, TimedFacts
  <2> QED
    BY <1>1, <1>3, <2>2 DEF Aligns
<1>5. Joins(m, held, d)
  BY <1>3, JoinExists
<1>6. Copy(d, held[Len(held)], hist, Known, clock)
  BY <1>2, <1>3
<1> HIDE DEF d, m
<1>7. PageOf(m, hist, Known, clock)
  BY <1>2, <1>3, <1>4, <1>5, <1>6, JoinIsPage
<1>8. PageOf(h, hist, Known, clock) /\ Bounded(h)
  BY <1>2, <1>7, TrimIsPage
<1> HIDE DEF h, n
<1> QED
  BY <1>1, <1>2, <1>8, RenderKeeps

LEMMA RealignKeeps == ASSUME IndInv, Realign PROVE IndInv'
<1> DEFINE r == [NoRequest EXCEPT !.pc = "sent", !.since = FullWindow]
<1>1. /\ request' = [request EXCEPT ![Page] = r] /\ UNCHANGED server
      /\ UNCHANGED <<held, since>> /\ phase' = "full"
  BY DEF Realign, Ask
<1>2. r \in Request /\ r.pc = "sent" /\ r.since = FullWindow
  BY FullAsked
<1> HIDE DEF r
<1>3. ServerInv' /\ request'[Page] = r /\ UNCHANGED <<hist, clock>> /\ Known' = Known
  BY <1>1, <1>2, PageKeepsServer DEF IndInv
<1>4. PageInv'
  BY <1>1, <1>2, <1>3 DEF IndInv, PageInv
<1> QED
  BY <1>3, <1>4 DEF IndInv

LEMMA ErrorKeeps == ASSUME IndInv, ReceiveError PROVE IndInv'
<1>1. /\ request' = [request EXCEPT ![Page] = NoRequest] /\ UNCHANGED server
      /\ UNCHANGED held /\ since' = FullWindow /\ phase' = "idle"
  BY DEF ReceiveError
<1>2. ServerInv' /\ UNCHANGED <<hist, clock>> /\ Known' = Known
  BY <1>1, Asked, PageKeepsServer DEF IndInv
<1>3. PageInv'
  BY <1>1, <1>2 DEF IndInv, PageInv
<1> QED
  BY <1>2, <1>3 DEF IndInv

LEMMA StutterKeeps == ASSUME IndInv, UNCHANGED vars PROVE IndInv'
<1>1. /\ UNCHANGED <<clock, hist, gen, cache, request, lost, recorded>>
      /\ UNCHANGED <<held, since, phase>>
  BY DEF vars, svars
<1>2. Known' = Known
  BY <1>1 DEF Known
<1>3. ServerInv'
  BY <1>1, <1>2 DEF IndInv, ServerInv, CacheInv, RequestInv
<1>4. PageInv'
  BY <1>1, <1>2 DEF IndInv, PageInv
<1> QED
  BY <1>3, <1>4 DEF IndInv

\* Every reply and the page stay what IndInv says, whatever ticks, handlers, restarts and
\* polls do in which order.
THEOREM HistoryIsCopied == Spec => []IndInv
<1>1. Init => IndInv
  BY InitInv
<1>2. IndInv /\ [Next]_vars => IndInv'
  <2> SUFFICES ASSUME IndInv, [Next]_vars PROVE IndInv'
    OBVIOUS
  <2>1. CASE ServerStep
    <3>1. UNCHANGED <<held, since, polls, phase>>
      BY <2>1 DEF ServerStep
    <3>2. CASE FastTick /\ recorded' = recorded \union {clock'}
      BY <3>1, <3>2, TickKeeps
    <3>3. CASE Restart /\ UNCHANGED recorded
      BY <3>1, <3>3, RestartKeeps
    <3>4. CASE (\E c \in Clients : Handler(c)) /\ UNCHANGED recorded
      BY <3>1, <3>4, ReadKeeps, ServeKeeps, BreakKeeps DEF Handler
    <3> QED
      BY <2>1, <3>2, <3>3, <3>4 DEF ServerStep
  <2>2. CASE OtherAsks
    BY <2>2, OtherKeeps
  <2>3. CASE Poll
    BY <2>3, PollKeeps
  <2>4. CASE ReceiveFull
    BY <2>4, FullKeeps
  <2>5. CASE ReceiveDelta
    BY <2>5, DeltaKeeps
  <2>6. CASE Realign
    BY <2>6, RealignKeeps
  <2>7. CASE ReceiveError
    BY <2>7, ErrorKeeps
  <2>8. CASE UNCHANGED vars
    BY <2>8, StutterKeeps
  <2> QED
    BY <2>1, <2>2, <2>3, <2>4, <2>5, <2>6, <2>7, <2>8 DEF Next
<1> QED
  BY <1>1, <1>2, PTL DEF Spec

\* A reply is never older than what the collector held when its handler started
\* (cachedHistory): the generation is read before the points are.
THEOREM RepliesAreFresh == Spec => []FreshReplies
<1>1. IndInv => FreshReplies
  BY DEF IndInv, ServerInv, RequestInv, FreshReplies
<1> QED
  BY <1>1, HistoryIsCopied, PTL

\* The page misses nothing of its window that the server still has, and does not grow
\* (mergeHistory, trimHistoryWindow).
THEOREM PageCoversWindow == Spec => []HeldCoversWindow
<1>1. IndInv => HeldCoversWindow
  <2> SUFFICES ASSUME IndInv, held # NoData PROVE
        /\ \A p \in ToSet(hist) :
             p <= Last(held) /\ p >= Last(held) - Window => p \in ToSet(held)
        /\ Len(held) <= Capacity \/ Last(held) - Head(held) <= Window
    BY DEF HeldCoversWindow
  <2>1. PageOf(held, hist, Known, clock) /\ Bounded(held) /\ Timed(hist, clock)
    BY DEF IndInv, PageInv, ServerInv, Series
  <2>2. Timed(held, clock)
    BY <2>1 DEF PageOf
  <2>3. held \in Seq(Nat) /\ Len(held) > 0 /\ Last(held) = held[Len(held)] /\ Head(held) = held[1]
    BY <2>2, TimedFacts
  <2>4. hist \in Seq(Nat)
    BY <2>1 DEF Timed
  <2>5. ASSUME NEW p \in ToSet(hist), p <= Last(held), p >= Last(held) - Window
        PROVE  p \in ToSet(held)
    <3>1. PICK k \in 1..Len(hist) : hist[k] = p
      BY <2>4 DEF ToSet
    <3>2. In(hist[k], held)
      BY <2>1, <2>3, <2>5, <3>1 DEF PageOf
    <3> QED
      BY <2>3, <3>1, <3>2 DEF In, ToSet
  <2> QED
    BY <2>1, <2>3, <2>5 DEF Bounded
<1> QED
  BY <1>1, HistoryIsCopied, PTL

\* Where the page has a hole, so had the collector, unless a restart lost the points
\* (mergeHistory's gap check).
THEOREM HolesAreReal == Spec => []NoSilentHole
<1>1. IndInv => NoSilentHole
  BY DEF IndInv, PageInv, PageOf, Known, NoSilentHole
<1> QED
  BY <1>1, HistoryIsCopied, PTL
=============================================================================
