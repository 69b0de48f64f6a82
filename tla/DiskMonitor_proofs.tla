------------------------ MODULE DiskMonitor_proofs -------------------------
(***************************************************************************)
(* Proofs about DiskMonitor, for any set of mountpoints, any timeout and   *)
(* cooldown, and whatever the kernel mounts, fails or lets hang.           *)
(*                                                                         *)
(* A cooldown that is remembered ends Cooldown after the last hang, and    *)
(* one that is forgotten has ended: CooldownInv.  Hence a filesystem hangs *)
(* once per cooldown, and is skipped no longer.  The series of a device is *)
(* a ring buffer that covers what was seen of it within the window         *)
(* (SeriesInv), and is dropped only when nothing is left to cover.  The    *)
(* engine behind it cannot tell this collector from any other: its         *)
(* theorems carry over.                                                    *)
(***************************************************************************)
EXTENDS DiskMonitor, AlertEngine_proofs

-----------------------------------------------------------------------------
(* The ring buffer, for every capacity: whatever is added to a buffer, it  *)
(* holds the newest values in the order they came.  So a series behaves as *)
(* a bounded sequence, which is how HistoryPersistence (Retained) and      *)
(* HistoryServing (Kept) model it.                                         *)

\* The index arithmetic of the methods.
LEMMA Wraps ==
  ASSUME NEW c \in Nat \ {0}, NEW k \in 0..(c - 1)
  PROVE  /\ (k + 1) % c = IF k + 1 < c THEN k + 1 ELSE 0
         /\ (k - 1 + c) % c = IF k > 0 THEN k - 1 ELSE c - 1
<1>1. \A i \in 0..(c - 1) : i % c = i
  BY SMT
<1>2. c % c = 0
  BY SMT
<1>3. \A i \in 0..(c - 1) : (i + c) % c = i
  BY SMT
<1>4. k + 1 \in 0..(c - 1) \/ k + 1 = c
  OBVIOUS
<1>5. CASE k > 0
  <2>1. k - 1 \in 0..(c - 1)
    BY <1>5
  <2> QED
    BY <1>1, <1>2, <1>3, <1>4, <1>5, <2>1
<1>6. CASE k = 0
  <2>1. k - 1 + c \in 0..(c - 1) /\ k - 1 + c = c - 1
    BY <1>6
  <2> QED
    BY <1>1, <1>2, <1>4, <1>6, <2>1
<1> QED
  BY <1>5, <1>6

\* Where the values of a full buffer are does not change when the oldest, at k, is
\* overwritten: the i-th from the new start n was the one after the i-th from k.
LEMMA Rotates ==
  ASSUME NEW c \in Nat \ {0}, NEW k \in 0..(c - 1), NEW i \in 1..(c - 1),
         NEW n, n = IF k + 1 < c THEN k + 1 ELSE 0,
         NEW place, place = IF n + i - 1 < c THEN n + i - 1 ELSE n + i - 1 - c
  PROVE  /\ place = IF k + (i + 1) - 1 < c THEN k + (i + 1) - 1 ELSE k + (i + 1) - 1 - c
         /\ place \in 0..(c - 1) /\ place # k
<1>1. CASE k + 1 < c
  BY <1>1
<1>2. CASE ~(k + 1 < c)
  BY <1>2
<1> QED
  BY <1>1, <1>2

\* What a snapshot is: as many values as the buffer holds.
LEMMA SnapshotType ==
  ASSUME NEW c, NEW V, NEW rb, IsRingBuffer(rb, c, V)
  PROVE  Snapshot(rb) \in Seq(V) /\ Len(Snapshot(rb)) = rb.size /\ rb.size \in 0..c
<1>1. /\ rb.size \in 0..c /\ rb.capacity = c /\ c \in Nat \ {0} /\ rb.next \in 0..(c - 1)
      /\ rb.data \in [0..(c - 1) -> V]
  BY DEF IsRingBuffer, Slots
<1>2. ASSUME NEW i \in 1..rb.size PROVE Snapshot(rb)[i] \in V
  BY <1>1, <1>2 DEF Snapshot
<1>3. Snapshot(rb) \in [1..rb.size -> V]
  BY <1>1, <1>2 DEF Snapshot
<1> QED
  BY <1>1, <1>3

\* A buffer that is made, or filled, is one.
LEMMA NewIsRingBuffer ==
  ASSUME NEW c \in Int, NEW V, NEW zero \in V
  PROVE  /\ IsRingBuffer(NewRingBuffer(c, zero), IF c < 1 THEN 1 ELSE c, V)
         /\ Snapshot(NewRingBuffer(c, zero)) = << >>
BY DEF NewRingBuffer, IsRingBuffer, Slots, Snapshot

\* Add (ringbuffer.go) keeps a ring buffer one, and its contents are the newest values:
\* what they were and the new one, without the oldest if there is no more room.
THEOREM AddKeepsNewest ==
  ASSUME NEW c, NEW V, NEW rb, IsRingBuffer(rb, c, V), NEW v \in V
  PROVE  /\ IsRingBuffer(Add(rb, v), c, V)
         /\ Snapshot(Add(rb, v)) = LastOf(Append(Snapshot(rb), v), c)
<1> DEFINE added == Add(rb, v)
           before == Snapshot(rb)
           after == Snapshot(added)
           appended == Append(before, v)
<1>1. /\ rb.size \in 0..c /\ rb.capacity = c /\ c \in Nat \ {0} /\ rb.next \in 0..(c - 1)
      /\ rb.data \in [0..(c - 1) -> V]
      /\ rb.size < c => rb.next = rb.size
  BY DEF IsRingBuffer, Slots
<1>2. (rb.next + 1) % c = IF rb.next + 1 < c THEN rb.next + 1 ELSE 0
  BY <1>1, Wraps
<1>3. /\ added.data = [rb.data EXCEPT ![rb.next] = v]
      /\ added.capacity = c
      /\ added.next = (IF rb.next + 1 < c THEN rb.next + 1 ELSE 0)
      /\ added.size = (IF rb.size < c THEN rb.size + 1 ELSE rb.size)
  BY <1>1, <1>2 DEF Add
<1>4. IsRingBuffer(added, c, V)
  <2>1. added = [data |-> added.data, capacity |-> c, next |-> added.next, size |-> added.size]
    BY <1>1 DEF Add
  <2> HIDE DEF added
  <2>2. added.data \in [0..(c - 1) -> V] /\ added.next \in 0..(c - 1) /\ added.size \in 0..c
    BY <1>1, <1>3
  <2>3. added.size < c => added.next = added.size
    BY <1>1, <1>3
  <2> QED
    BY <1>1, <2>1, <2>2, <2>3 DEF IsRingBuffer, Slots
<1>5. before \in Seq(V) /\ Len(before) = rb.size
  BY SnapshotType
<1>6. \A i \in 1..rb.size :
        before[i] = rb.data[IF rb.size < c THEN i - 1
                            ELSE IF rb.next + i - 1 < c THEN rb.next + i - 1
                            ELSE rb.next + i - 1 - c]
  BY <1>1 DEF Snapshot
<1>7. after \in Seq(V) /\ Len(after) = added.size
  BY <1>4, SnapshotType
<1>8. \A i \in 1..added.size :
        after[i] = added.data[IF added.size < c THEN i - 1
                              ELSE IF added.next + i - 1 < c THEN added.next + i - 1
                              ELSE added.next + i - 1 - c]
  BY <1>3 DEF Snapshot
<1> HIDE DEF added, before, after
<1>9. /\ appended \in Seq(V) /\ Len(appended) = rb.size + 1
      /\ \A i \in 1..rb.size : appended[i] = before[i]
      /\ appended[rb.size + 1] = v
  BY <1>1, <1>5
<1> HIDE DEF appended
<1>10. CASE rb.size < c
  <2>1. LastOf(appended, c) = appended
    BY <1>1, <1>9, <1>10 DEF LastOf
  <2>2. ASSUME NEW i \in 1..(rb.size + 1)
        PROVE  after[i] = appended[i]
    <3>1. after[i] = added.data[i - 1]
      BY <1>1, <1>3, <1>8, <1>10
    <3>2. CASE i = rb.size + 1
      BY <1>1, <1>3, <1>9, <1>10, <3>1, <3>2
    <3>3. CASE i # rb.size + 1
      <4>1. i \in 1..rb.size /\ i - 1 \in 0..(c - 1) /\ i - 1 # rb.next
        BY <1>1, <1>10, <3>3
      <4> QED
        BY <1>1, <1>3, <1>6, <1>9, <1>10, <3>1, <4>1
    <3> QED
      BY <3>2, <3>3
  <2>3. Len(after) = rb.size + 1
    BY <1>1, <1>3, <1>7, <1>10
  <2>4. after = appended
    BY <1>1, <1>7, <1>9, <2>2, <2>3, SMTT(30)
  <2> QED
    BY <1>4, <2>1, <2>4 DEF after, added, appended, before
<1>11. CASE rb.size = c
  <2> DEFINE kept == LastOf(appended, c)
  <2>1. kept \in Seq(V) /\ Len(kept) = c /\ \A i \in 1..c : kept[i] = appended[i + 1]
    BY <1>1, <1>9, <1>11 DEF LastOf
  <2> HIDE DEF kept
  <2>2. ASSUME NEW i \in 1..c PROVE after[i] = kept[i]
    <3> DEFINE place == IF added.next + i - 1 < c THEN added.next + i - 1
                        ELSE added.next + i - 1 - c
    <3>1. after[i] = added.data[place]
      BY <1>1, <1>3, <1>8, <1>11
    <3>2. CASE i = c
      <4>1. place = rb.next
        BY <1>1, <1>3, <3>2
      <4> HIDE DEF place
      <4>2. added.data[place] = v /\ kept[i] = v
        BY <1>1, <1>3, <1>9, <1>11, <2>1, <3>2, <4>1
      <4> QED
        BY <3>1, <4>2
    <3>3. CASE i # c
      <4>1. /\ i + 1 \in 1..rb.size
            /\ place = (IF rb.next + (i + 1) - 1 < c THEN rb.next + (i + 1) - 1
                        ELSE rb.next + (i + 1) - 1 - c)
            /\ place \in 0..(c - 1) /\ place # rb.next
        <5>1. i \in 1..(c - 1) /\ added.next \in 0..(c - 1)
          BY <1>1, <1>3, <3>3
        <5>2. i + 1 \in 1..rb.size
          BY <1>1, <1>11, <5>1
        <5>3. /\ c \in Nat \ {0} /\ rb.next \in 0..(c - 1)
              /\ added.next = IF rb.next + 1 < c THEN rb.next + 1 ELSE 0
          BY <1>1, <1>3
        <5>4. place = IF added.next + i - 1 < c THEN added.next + i - 1 ELSE added.next + i - 1 - c
          OBVIOUS
        <5> HIDE DEF place
        <5>5. /\ place = (IF rb.next + (i + 1) - 1 < c THEN rb.next + (i + 1) - 1
                          ELSE rb.next + (i + 1) - 1 - c)
              /\ place \in 0..(c - 1) /\ place # rb.next
          BY <5>1, <5>3, <5>4, Rotates
        <5> QED
          BY <5>2, <5>5
      <4> HIDE DEF place
      <4>2. before[i + 1] = rb.data[place]
        <5> DEFINE j == i + 1
        <5>1. /\ j \in 1..rb.size /\ ~(rb.size < c)
              /\ place = IF rb.next + j - 1 < c THEN rb.next + j - 1 ELSE rb.next + j - 1 - c
          BY <1>1, <1>11, <4>1
        <5> HIDE DEF j
        <5>2. before[j] = rb.data[IF rb.size < c THEN j - 1
                                  ELSE IF rb.next + j - 1 < c THEN rb.next + j - 1
                                  ELSE rb.next + j - 1 - c]
          BY <1>6, <5>1
        <5>3. before[j] = rb.data[place]
          BY <5>1, <5>2, Zenon
        <5> QED
          BY <5>3 DEF j
      <4>3. kept[i] = before[i + 1]
        BY <1>9, <2>1, <4>1
      <4>4. added.data[place] = rb.data[place]
        BY <1>1, <1>3, <4>1
      <4> QED
        BY <3>1, <4>2, <4>3, <4>4
    <3> QED
      BY <3>2, <3>3
  <2>3. Len(after) = c
    BY <1>1, <1>3, <1>7, <1>11
  <2>4. after = kept
    BY <1>1, <1>7, <2>1, <2>2, <2>3
  <2> QED
    BY <1>4, <2>4 DEF after, added, appended, before, kept
<1> QED
  BY <1>1, <1>10, <1>11

\* Fill (ringbuffer.go), which restores a series, leaves the newest of the values given.
THEOREM FillKeepsNewest ==
  ASSUME NEW c, NEW V, NEW rb, IsRingBuffer(rb, c, V), NEW values \in Seq(V), NEW zero \in V
  PROVE  /\ IsRingBuffer(Fill(rb, values, zero), c, V)
         /\ Snapshot(Fill(rb, values, zero)) = LastOf(values, c)
<1> DEFINE filled == Fill(rb, values, zero)
           kept == LastOf(values, c)
<1>1. rb.capacity = c /\ c \in Nat \ {0}
  BY DEF IsRingBuffer
<1>2. kept \in Seq(V) /\ Len(kept) \in 0..c
  BY <1>1 DEF LastOf
<1>3. Len(kept) % c = IF Len(kept) < c THEN Len(kept) ELSE 0
  <2> HIDE DEF kept
  <2>1. \A i \in 0..(c - 1) : i % c = i
    BY <1>1, SMT
  <2>2. c % c = 0
    BY <1>1, SMT
  <2> QED
    BY <1>1, <1>2, <2>1, <2>2
<1>4. /\ filled.data = [i \in 0..(c - 1) |-> IF i < Len(kept) THEN kept[i + 1] ELSE zero]
      /\ filled.capacity = c
      /\ filled.next = (IF Len(kept) < c THEN Len(kept) ELSE 0)
      /\ filled.size = Len(kept)
      /\ filled = [data |-> filled.data, capacity |-> c, next |-> filled.next, size |-> filled.size]
  BY <1>1, <1>3 DEF Fill, Slots
<1> HIDE DEF filled, kept
<1>5. filled.data \in [0..(c - 1) -> V]
  <2>1. ASSUME NEW i \in 0..(c - 1) PROVE filled.data[i] \in V
    BY <1>1, <1>2, <1>4
  <2> QED
    BY <1>4, <2>1
<1>6. IsRingBuffer(filled, c, V)
  BY <1>1, <1>2, <1>4, <1>5 DEF IsRingBuffer, Slots
<1>7. Snapshot(filled) \in Seq(V) /\ Len(Snapshot(filled)) = Len(kept)
  BY <1>4, <1>6, SnapshotType
<1>8. ASSUME NEW i \in 1..Len(kept) PROVE Snapshot(filled)[i] = kept[i]
  BY <1>1, <1>2, <1>4 DEF Snapshot
<1>9. Snapshot(filled) = kept
  BY <1>2, <1>7, <1>8
<1> QED
  BY <1>6, <1>9 DEF filled, kept

\* Newest (ringbuffer.go), by which series are evicted, is the last value of a snapshot.
THEOREM NewestIsLast ==
  ASSUME NEW c, NEW V, NEW rb, IsRingBuffer(rb, c, V), rb.size > 0
  PROVE  NewestIn(rb) = Snapshot(rb)[Len(Snapshot(rb))]
<1>1. /\ rb.size \in 0..c /\ rb.capacity = c /\ c \in Nat \ {0} /\ rb.next \in 0..(c - 1)
      /\ rb.size < c => rb.next = rb.size
  BY DEF IsRingBuffer, Slots
<1>2. (rb.next - 1 + c) % c = IF rb.next > 0 THEN rb.next - 1 ELSE c - 1
  BY <1>1, Wraps
<1>3. Len(Snapshot(rb)) = rb.size
  BY SnapshotType
<1>4. Snapshot(rb)[rb.size] = rb.data[IF rb.size < c THEN rb.size - 1
                                      ELSE IF rb.next + rb.size - 1 < c THEN rb.next + rb.size - 1
                                      ELSE rb.next + rb.size - 1 - c]
  BY <1>1 DEF Snapshot
<1> DEFINE last == Snapshot(rb)[rb.size]
<1>5. NewestIn(rb) = rb.data[IF rb.next > 0 THEN rb.next - 1 ELSE c - 1]
  BY <1>1, <1>2 DEF NewestIn
<1>6. last = rb.data[IF rb.next > 0 THEN rb.next - 1 ELSE c - 1]
  BY <1>1, <1>4
<1> QED
  BY <1>3, <1>5, <1>6

-----------------------------------------------------------------------------
(* The disks. *)

DiskTypes ==
  /\ now \in Nat /\ DOMAIN badUntil \subseteq Mounts
  /\ \A m \in DOMAIN badUntil : badUntil[m] \in Nat
  /\ parked \in [Mounts -> Nat] /\ stuckAt \in [Mounts -> Nat]
  /\ sightings \in [Mounts -> SUBSET Nat]

\* What is known of the last hang on m.
CooldownInv(m) ==
  /\ stuckAt[m] <= now
  /\ m \in DOMAIN badUntil => stuckAt[m] > 0 /\ badUntil[m] = stuckAt[m] + Cooldown
  /\ m \notin DOMAIN badUntil => stuckAt[m] = 0 \/ stuckAt[m] + Cooldown <= now
  /\ parked[m] > 0 => stuckAt[m] > 0 /\ (parked[m] - 1) * Cooldown < stuckAt[m]

\* Why a filesystem that answered was not reported.
SkippedInv ==
  \A m \in DOMAIN kernel :
    /\ m \in Mounts
    /\ kernel[m] = "answers" /\ now \notin sightings[m] =>
         stuckAt[m] > 0 /\ now - stuckAt[m] < Cooldown

DiskInv == DiskTypes /\ (\A m \in Mounts : CooldownInv(m)) /\ SkippedInv

\* A tick that hangs on m begins when the cooldown of the last hang is over.
LEMMA CollectKeeps ==
  ASSUME DiskInv, NEW t \in Nat, t > now, now' = t, NEW mounted \in SUBSET Mounts,
         NEW hung \in SUBSET mounted, NEW failing \in SUBSET (mounted \ hung),
         Collect(t, mounted, hung, failing)
  PROVE  DiskInv'
<1> DEFINE probed == {m \in mounted : ~Cooling(m, t)}
           reported == probed \ (hung \union failing)
<1>0. Cooldown \in Nat \ {0}
  BY DiskAssumption
<1>1. /\ badUntil' = [m \in (DOMAIN badUntil \ probed) \union (hung \intersect probed) |->
                        IF m \in probed THEN t + Cooldown ELSE badUntil[m]]
      /\ parked' = [m \in Mounts |-> parked[m] + IF m \in probed \intersect hung THEN 1 ELSE 0]
      /\ stuckAt' = [m \in Mounts |-> IF m \in probed \intersect hung THEN t ELSE stuckAt[m]]
      /\ sightings' = [m \in Mounts |-> sightings[m] \union IF m \in reported THEN {t} ELSE {}]
      /\ kernel' = [m \in mounted |-> CASE m \in hung -> "hangs" [] m \in failing -> "fails"
                                        [] OTHER -> "answers"]
  BY DEF Collect, BadUntil
<1>2. \A m \in mounted : m \in probed <=> ~(m \in DOMAIN badUntil /\ t < badUntil[m])
  BY DEF Cooling
<1> HIDE DEF probed
<1>3. probed \subseteq mounted
  BY DEF probed
<1>4. DiskTypes'
  BY <1>0, <1>1, <1>3 DEF DiskInv, DiskTypes
<1>5. ASSUME NEW m \in Mounts PROVE CooldownInv(m)'
  <2>1. /\ CooldownInv(m) /\ now \in Nat /\ parked[m] \in Nat /\ stuckAt[m] \in Nat
    BY DEF DiskInv, DiskTypes
  <2>2. CASE m \in probed \intersect hung
    <3>1. /\ badUntil'[m] = t + Cooldown /\ m \in DOMAIN badUntil' /\ stuckAt'[m] = t
          /\ parked'[m] = parked[m] + 1
      BY <1>1, <2>2
    <3>2. stuckAt[m] = 0 \/ stuckAt[m] + Cooldown <= t
      BY <1>0, <1>2, <1>3, <2>1, <2>2 DEF CooldownInv
    <3>3. parked[m] * Cooldown < t
      <4>1. CASE parked[m] = 0
        BY <1>0, <2>1, <4>1
      <4>2. CASE parked[m] > 0
        <5>1. (parked[m] - 1) * Cooldown < stuckAt[m] /\ stuckAt[m] + Cooldown <= t
          BY <2>1, <3>2, <4>2 DEF CooldownInv
        <5>2. (parked[m] - 1) * Cooldown = parked[m] * Cooldown - Cooldown
          BY <1>0, <2>1
        <5> QED
          BY <1>0, <2>1, <5>1, <5>2
      <4> QED
        BY <2>1, <4>1, <4>2
    <3> QED
      BY <1>0, <2>1, <3>1, <3>3 DEF CooldownInv
  <2>3. CASE m \notin probed \intersect hung
    <3>1. /\ stuckAt'[m] = stuckAt[m] /\ parked'[m] = parked[m]
          /\ m \in DOMAIN badUntil' <=> m \in DOMAIN badUntil /\ m \notin probed
          /\ m \in DOMAIN badUntil' => badUntil'[m] = badUntil[m]
      BY <1>1, <2>1, <2>3
    <3>2. CASE m \in probed
      BY <1>0, <1>2, <1>3, <2>1, <3>1, <3>2 DEF CooldownInv
    <3>3. CASE m \notin probed
      BY <1>0, <2>1, <3>1, <3>3 DEF CooldownInv
    <3> QED
      BY <3>2, <3>3
  <2> QED
    BY <2>2, <2>3
<1>6. SkippedInv'
  <2> SUFFICES ASSUME NEW m \in mounted, kernel'[m] = "answers", t \notin sightings'[m]
               PROVE  stuckAt'[m] > 0 /\ t - stuckAt'[m] < Cooldown
    BY <1>1 DEF SkippedInv
  <2>1. m \notin hung /\ m \notin failing
    BY <1>1
  <2>2. m \notin probed
    BY <1>1, <2>1
  <2>3. /\ CooldownInv(m) /\ stuckAt'[m] = stuckAt[m] /\ stuckAt[m] \in Nat
    BY <1>1, <2>2 DEF DiskInv, DiskTypes
  <2> QED
    BY <1>0, <1>2, <2>2, <2>3 DEF CooldownInv
<1> QED
  BY <1>4, <1>5, <1>6 DEF DiskInv

\* The invariant holds throughout.
LEMMA DiskInvariant == DiskSpec => []DiskInv
<1>1. DiskInit => DiskInv
  BY DEF DiskInit, Init, DiskInv, DiskTypes, CooldownInv, SkippedInv
<1>2. DiskInv /\ [DiskNext]_dvars => DiskInv'
  <2> SUFFICES ASSUME DiskInv, [DiskNext]_dvars PROVE DiskInv'
    OBVIOUS
  <2>1. \A t \in NextTicks : t \in Nat /\ t > now
    BY StepAssumption DEF NextTicks, DiskInv, DiskTypes
  <2>2. CASE DiskTick
    <3>1. PICK t \in NextTicks, mounted \in SUBSET Mounts :
            /\ now' = t
            /\ \E hung \in SUBSET mounted : \E failing \in SUBSET (mounted \ hung) :
                 Collect(t, mounted, hung, failing)
      BY <2>2 DEF DiskTick
    <3> QED
      BY <2>1, <3>1, CollectKeeps
  <2>3. CASE MountsUnreadable
    <3>1. /\ now' \in Nat /\ now' > now /\ kernel' = << >>
          /\ UNCHANGED <<badUntil, parked, stuckAt, sightings>>
      BY <2>1, <2>3 DEF MountsUnreadable
    <3>2. DiskTypes' /\ SkippedInv'
      BY <3>1 DEF DiskInv, DiskTypes, SkippedInv
    <3>3. \A m \in Mounts : CooldownInv(m)'
      BY <3>1, DiskAssumption DEF DiskInv, DiskTypes, CooldownInv
    <3> QED
      BY <3>2, <3>3 DEF DiskInv
  <2>4. CASE Release
    BY <2>4, DiskAssumption
       DEF Release, vars, DiskInv, DiskTypes, CooldownInv, SkippedInv
  <2>5. CASE UNCHANGED dvars
    BY <2>5 DEF dvars, vars, DiskInv, DiskTypes, CooldownInv, SkippedInv
  <2> QED
    BY <2>2, <2>3, <2>4, <2>5 DEF DiskNext
<1> QED
  BY <1>1, <1>2, PTL DEF DiskSpec

\* ParkedBounded holds of every behaviour: a hung filesystem costs one goroutine per
\* cooldown.
THEOREM HungCallsAreFew == DiskSpec => []ParkedBounded
<1>1. DiskInv => ParkedBounded
  <2> SUFFICES ASSUME DiskInv, NEW m \in Mounts, parked[m] > 0
               PROVE  (parked[m] - 1) * Cooldown < now
    BY DEF ParkedBounded
  <2>1. /\ (parked[m] - 1) * Cooldown < stuckAt[m] /\ stuckAt[m] <= now
        /\ (parked[m] - 1) * Cooldown \in Int /\ stuckAt[m] \in Nat /\ now \in Nat
    BY DiskAssumption DEF DiskInv, DiskTypes, CooldownInv
  <2> QED
    BY <2>1
<1> QED
  BY <1>1, DiskInvariant, PTL

\* CooldownIsBounded holds of every behaviour: a disk that answers is shown again once
\* its cooldown is over.
THEOREM AnsweringDisksAreShown == DiskSpec => []CooldownIsBounded
<1>1. DiskInv => CooldownIsBounded
  BY DEF DiskInv, SkippedInv, CooldownIsBounded
<1> QED
  BY <1>1, DiskInvariant, PTL

-----------------------------------------------------------------------------
\* The series.

\* The points p of a disk reported at the instants seen: in order, up to its newest
\* report, and without a report of the window only if there was no more room.
Covers(p, seen, t) ==
  /\ p # << >>
  /\ \A i, j \in DOMAIN p : i < j => p[i] < p[j]
  /\ \A i \in DOMAIN p : p[i] \in seen
  /\ \A s \in seen : s <= p[Len(p)]
  /\ \A s \in seen : t - s <= HistoryWindow =>
       (\E i \in DOMAIN p : p[i] = s) \/ (Len(p) = Capacity /\ s < p[1])

SeriesInv ==
  /\ DOMAIN series \subseteq Mounts
  /\ \A m \in Mounts :
       /\ \A s \in sightings[m] : s <= now
       /\ m \in DOMAIN series =>
            /\ IsRingBuffer(series[m], Capacity, Nat)
            /\ Covers(Snapshot(series[m]), sightings[m], now)
            /\ now - NewestIn(series[m]) <= HistoryWindow
       /\ m \notin DOMAIN series => \A s \in sightings[m] : now - s > HistoryWindow

LEMMA WindowIsInt == HistoryWindow \in Nat /\ Capacity \in Nat \ {0}
BY DiskAssumption DEF HistoryWindow

\* The first point of a series whose disk was not reported within the window.
LEMMA FirstCovers ==
  ASSUME NEW seen \in SUBSET Nat, NEW t \in Nat, NEW n \in Nat, n < t,
         \A s \in seen : s <= n /\ n - s > HistoryWindow,
         NEW q, q = LastOf(Append(<< >>, t), Capacity)
  PROVE  Covers(q, seen \union {t}, t) /\ q[Len(q)] = t
<1>1. HistoryWindow \in Nat /\ Capacity \in Nat \ {0}
  BY WindowIsInt
<1>2. q = <<t>>
  <2>1. Append(<< >>, t) = <<t>> /\ Len(<<t>>) = 1
    OBVIOUS
  <2> QED
    BY <1>1, <2>1 DEF LastOf
<1>3. Len(q) = 1 /\ DOMAIN q = {1} /\ q[1] = t /\ q # << >>
  BY <1>2
<1>4. \A s \in seen : t - s > HistoryWindow /\ s <= t
  BY <1>1
<1> QED
  BY <1>1, <1>3, <1>4 DEF Covers

\* A point added to a series that covers the window.
LEMMA NextCovers ==
  ASSUME NEW seen \in SUBSET Nat, NEW t \in Nat, NEW n \in Nat, n < t, NEW p \in Seq(Nat),
         \A s \in seen : s <= n, Covers(p, seen, n), Len(p) <= Capacity,
         NEW q, q = LastOf(Append(p, t), Capacity)
  PROVE  Covers(q, seen \union {t}, t) /\ q[Len(q)] = t
<1>1. HistoryWindow \in Nat /\ Capacity \in Nat \ {0}
  BY WindowIsInt
<1> DEFINE r == Append(p, t)
           len == Len(p)
<1>2. /\ len \in Nat \ {0} /\ DOMAIN p = 1..len /\ len <= Capacity
      /\ r \in Seq(Nat) /\ Len(r) = len + 1
      /\ \A i \in 1..len : r[i] = p[i] /\ p[i] \in Nat /\ p[i] \in seen
      /\ r[len + 1] = t
  <2>1. p # << >> /\ \A i \in DOMAIN p : p[i] \in seen
    BY DEF Covers
  <2> QED
    BY <2>1
<1> HIDE DEF r, len
<1>3. \A i, j \in 1..(len + 1) : i < j => r[i] < r[j]
  <2> SUFFICES ASSUME NEW i \in 1..(len + 1), NEW j \in 1..(len + 1), i < j PROVE r[i] < r[j]
    OBVIOUS
  <2>1. i \in 1..len /\ r[i] = p[i] /\ p[i] <= n /\ p[i] \in Nat
    BY <1>2
  <2>2. CASE j = len + 1
    BY <1>2, <2>1, <2>2
  <2>3. CASE j # len + 1
    <3>1. j \in 1..len /\ r[j] = p[j]
      BY <1>2, <2>3
    <3> QED
      BY <1>2, <2>1, <3>1 DEF Covers
  <2> QED
    BY <2>2, <2>3
<1>4. \A i \in 1..(len + 1) : r[i] \in seen \union {t}
  BY <1>2
<1>5. \A s \in seen : t - s <= HistoryWindow =>
        (\E i \in 1..len : p[i] = s) \/ (len = Capacity /\ s < p[1])
  <2> SUFFICES ASSUME NEW s \in seen, t - s <= HistoryWindow
               PROVE  (\E i \in 1..len : p[i] = s) \/ (len = Capacity /\ s < p[1])
    OBVIOUS
  <2>1. n - s <= HistoryWindow
    BY <1>1
  <2> QED
    BY <1>2, <2>1 DEF Covers, len
<1>6. CASE len < Capacity
  <2>1. q = r
    BY <1>1, <1>2, <1>6 DEF LastOf, r
  <2>2. Len(q) = len + 1 /\ DOMAIN q = 1..(len + 1) /\ q # << >> /\ q[len + 1] = t
    BY <1>2, <2>1
  <2>3. \A s \in seen \union {t} : s <= q[Len(q)]
    BY <2>2
  <2>4. \A s \in seen \union {t} : t - s <= HistoryWindow =>
          (\E i \in DOMAIN q : q[i] = s) \/ (Len(q) = Capacity /\ s < q[1])
    <3> SUFFICES ASSUME NEW s \in seen \union {t}, t - s <= HistoryWindow
                 PROVE  \E i \in DOMAIN q : q[i] = s
      OBVIOUS
    <3>1. CASE s = t
      BY <1>2, <2>2, <3>1, SMTT(30)
    <3>2. CASE s \in seen
      <4>1. PICK i \in 1..len : p[i] = s
        BY <1>1, <1>2, <1>5, <1>6, <3>2
      <4>2. i \in DOMAIN q /\ q[i] = s
        BY <1>2, <2>1, <2>2, <4>1
      <4> QED
        BY <4>2
    <3> QED
      BY <3>1, <3>2
  <2>5. (\A i, j \in DOMAIN q : i < j => q[i] < q[j]) /\ \A i \in DOMAIN q : q[i] \in seen \union {t}
    BY <1>3, <1>4, <2>1, <2>2
  <2> QED
    BY <2>2, <2>3, <2>4, <2>5 DEF Covers
<1>7. CASE len = Capacity
  <2>1. /\ Len(q) = len /\ DOMAIN q = 1..len /\ q # << >>
        /\ \A i \in 1..len : q[i] = r[i + 1]
    <3>1. q = SubSeq(r, Len(r) - Capacity + 1, Len(r))
      BY <1>1, <1>2, <1>7 DEF LastOf, r
    <3>2. Len(r) - Capacity + 1 = 2 /\ Len(r) = len + 1
      BY <1>1, <1>2, <1>7
    <3>3. q = SubSeq(r, 2, len + 1)
      BY <3>1, <3>2
    <3> QED
      BY <1>2, <3>3
  <2>2. \A i \in 1..len : i + 1 \in 1..(len + 1)
    BY <1>2
  <2>3. q[Len(q)] = t
    BY <1>2, <2>1
  <2>4. \A i, j \in DOMAIN q : i < j => q[i] < q[j]
    <3> SUFFICES ASSUME NEW i \in DOMAIN q, NEW j \in DOMAIN q, i < j PROVE q[i] < q[j]
      OBVIOUS
    <3>1. i + 1 < j + 1 /\ i + 1 \in 1..(len + 1) /\ j + 1 \in 1..(len + 1)
      BY <2>1, <2>2
    <3>2. r[i + 1] < r[j + 1]
      BY <1>3, <3>1
    <3> QED
      BY <2>1, <3>2
  <2>5. \A i \in DOMAIN q : q[i] \in seen \union {t}
    BY <1>4, <2>1, <2>2
  <2>6. \A s \in seen \union {t} : s <= q[Len(q)]
    BY <2>3
  <2>7. \A s \in seen \union {t} : t - s <= HistoryWindow =>
          (\E i \in DOMAIN q : q[i] = s) \/ (Len(q) = Capacity /\ s < q[1])
    <3> SUFFICES ASSUME NEW s \in seen \union {t}, t - s <= HistoryWindow
                 PROVE  (\E i \in DOMAIN q : q[i] = s) \/ (Len(q) = Capacity /\ s < q[1])
      OBVIOUS
    <3>0. 1 \in 1..len /\ 1 \in 1..(len + 1) /\ 2 \in 1..(len + 1) /\ Len(q) \in DOMAIN q
      BY <1>2, <2>1
    <3>1. p[1] < q[1] /\ q[1] = r[2] /\ p[1] \in Nat
      <4>1. r[1] < r[2]
        BY <1>3, <3>0
      <4>2. q[1] = r[1 + 1]
        BY <2>1, <3>0
      <4> QED
        BY <1>2, <3>0, <4>1, <4>2
    <3>2. CASE s = t
      BY <2>3, <3>0, <3>2
    <3>3. CASE s \in seen /\ \E i \in 1..len : p[i] = s
      <4>1. PICK i \in 1..len : p[i] = s
        BY <3>3
      <4>2. CASE i = 1
        BY <1>7, <2>1, <3>1, <4>1, <4>2
      <4>3. CASE i # 1
        <5>1. i - 1 \in 1..len /\ (i - 1) + 1 = i
          BY <1>2, <4>3
        <5>2. q[i - 1] = p[i]
          BY <1>2, <2>1, <5>1
        <5> QED
          BY <2>1, <4>1, <5>1, <5>2
      <4> QED
        BY <4>2, <4>3
    <3>4. CASE s \in seen /\ len = Capacity /\ s < p[1]
      <4>1. q[1] \in Nat
        BY <1>2, <3>0, <3>1
      <4> QED
        BY <2>1, <3>1, <3>4, <4>1
    <3> QED
      BY <1>5, <3>2, <3>3, <3>4
  <2> QED
    BY <2>1, <2>3, <2>4, <2>5, <2>6, <2>7 DEF Covers
<1> QED
  BY <1>1, <1>2, <1>6, <1>7

\* A disk's series when it is reported at t, and when it is not.
LEMMA SeriesKeeps ==
  ASSUME DiskTypes, SeriesInv, NEW t \in Nat, t > now, now' = t,
         NEW reported \in SUBSET Mounts, series' = Series(t, reported),
         sightings' = [m \in Mounts |-> sightings[m] \union IF m \in reported THEN {t} ELSE {}]
  PROVE  SeriesInv'
<1>0. now \in Nat /\ HistoryWindow \in Nat /\ Capacity \in Nat \ {0} /\ DOMAIN series \subseteq Mounts
  BY WindowIsInt DEF DiskTypes, SeriesInv
<1>1. ASSUME NEW m \in Mounts
      PROVE  /\ \A s \in sightings'[m] : s <= t
             /\ m \in DOMAIN series' =>
                  /\ IsRingBuffer(series'[m], Capacity, Nat)
                  /\ Covers(Snapshot(series'[m]), sightings'[m], t)
                  /\ t - NewestIn(series'[m]) <= HistoryWindow
             /\ m \notin DOMAIN series' => \A s \in sightings'[m] : t - s > HistoryWindow
  <2> DEFINE seen == sightings[m]
             rb == IF m \in DOMAIN series THEN series[m] ELSE NewRingBuffer(Capacity, 0)
             new == Add(rb, t)
  <2>1. /\ seen \in SUBSET Nat /\ \A s \in seen : s <= now
        /\ m \in DOMAIN series =>
             /\ IsRingBuffer(series[m], Capacity, Nat)
             /\ Covers(Snapshot(series[m]), seen, now)
             /\ now - NewestIn(series[m]) <= HistoryWindow
        /\ m \notin DOMAIN series => \A s \in seen : now - s > HistoryWindow
    BY DEF DiskTypes, SeriesInv
  <2>2. \A s \in seen : s <= t
    BY <1>0, <2>1
  <2>3. CASE m \in reported
    <3>1. m \in DOMAIN series' /\ series'[m] = new /\ sightings'[m] = seen \union {t}
      BY <2>3 DEF Series
    <3>2. /\ IsRingBuffer(rb, Capacity, Nat)
          /\ m \notin DOMAIN series => Snapshot(rb) = << >>
      <4>1. CASE m \in DOMAIN series
        BY <2>1, <4>1
      <4>2. CASE m \notin DOMAIN series
        <5>1. 0 \in Nat /\ Capacity \in Int /\ (IF Capacity < 1 THEN 1 ELSE Capacity) = Capacity
          BY <1>0
        <5>2. /\ IsRingBuffer(NewRingBuffer(Capacity, 0), IF Capacity < 1 THEN 1 ELSE Capacity, Nat)
              /\ Snapshot(NewRingBuffer(Capacity, 0)) = << >>
          BY <5>1, NewIsRingBuffer
        <5> QED
          BY <4>2, <5>1, <5>2
      <4> QED
        BY <4>1, <4>2
    <3>4. m \in DOMAIN series => Covers(Snapshot(rb), seen, now)
      BY <2>1
    <3> HIDE DEF rb
    <3>5. /\ IsRingBuffer(new, Capacity, Nat)
          /\ Snapshot(new) = LastOf(Append(Snapshot(rb), t), Capacity)
      BY <3>2, AddKeepsNewest
    <3>6. Snapshot(rb) \in Seq(Nat) /\ Len(Snapshot(rb)) <= Capacity
      BY <1>0, <3>2, SnapshotType
    <3> HIDE DEF new
    <3>7. /\ Covers(Snapshot(new), seen \union {t}, t)
          /\ Snapshot(new)[Len(Snapshot(new))] = t
      <4>1. CASE m \in DOMAIN series
        <5> DEFINE p == Snapshot(rb)
                   q == Snapshot(new)
        <5>1. /\ Covers(p, seen, now) /\ p \in Seq(Nat) /\ Len(p) <= Capacity
              /\ q = LastOf(Append(p, t), Capacity)
          BY <3>4, <3>5, <3>6, <4>1
        <5> HIDE DEF p, q
        <5>2. Covers(q, seen \union {t}, t) /\ q[Len(q)] = t
          BY <1>0, <2>1, <5>1, NextCovers
        <5> QED
          BY <5>2 DEF q
      <4>2. CASE m \notin DOMAIN series
        <5> DEFINE q == Snapshot(new)
        <5>1. q = LastOf(Append(<< >>, t), Capacity) /\ \A s \in seen : s <= now /\ now - s > HistoryWindow
          BY <2>1, <3>2, <3>5, <4>2
        <5> HIDE DEF q
        <5>2. Covers(q, seen \union {t}, t) /\ q[Len(q)] = t
          BY <1>0, <2>1, <5>1, FirstCovers
        <5> QED
          BY <5>2 DEF q
      <4> QED
        BY <4>1, <4>2
    <3>8. NewestIn(new) = t
      <4>1. Len(Snapshot(new)) = new.size /\ new.size \in Nat /\ Snapshot(new) \in Seq(Nat)
        BY <1>0, <3>5, SnapshotType
      <4>2. new.size > 0
        BY <3>7, <4>1 DEF Covers
      <4> QED
        BY <3>5, <3>7, <4>2, NewestIsLast
    <3>9. t - NewestIn(new) <= HistoryWindow
      BY <1>0, <3>8
    <3>10. \A s \in sightings'[m] : s <= t
      BY <2>2, <3>1
    <3> QED
      BY <3>1, <3>5, <3>7, <3>9, <3>10
  <2>4. CASE m \notin reported
    <3>1. sightings'[m] = seen
      BY <2>4
    <3>2. /\ m \in DOMAIN series' <=> m \in DOMAIN series /\ ~Stale(series[m], t)
          /\ m \in DOMAIN series' => series'[m] = series[m]
      BY <2>4 DEF Series
    <3> DEFINE p == Snapshot(series[m])
               last == p[Len(p)]
    <3>3. m \in DOMAIN series => /\ NewestIn(series[m]) = last /\ last \in seen
                                 /\ \A s \in seen : s <= last
      <4> SUFFICES ASSUME m \in DOMAIN series
                   PROVE  NewestIn(series[m]) = last /\ last \in seen /\ \A s \in seen : s <= last
        OBVIOUS
      <4>1. Len(p) = series[m].size /\ p \in Seq(Nat) /\ series[m].size \in Nat
        BY <1>0, <2>1, SnapshotType
      <4>2. series[m].size > 0 /\ Len(p) \in DOMAIN p
        BY <2>1, <4>1 DEF Covers
      <4>3. NewestIn(series[m]) = last
        BY <2>1, <4>2, NewestIsLast
      <4> QED
        BY <2>1, <4>2, <4>3 DEF Covers
    <3> HIDE DEF last
    <3>4. CASE m \in DOMAIN series'
      <4>1. m \in DOMAIN series /\ series'[m] = series[m] /\ ~(t - NewestIn(series[m]) > HistoryWindow)
        BY <3>2, <3>4 DEF Stale
      <4>2. NewestIn(series[m]) \in Nat /\ t - NewestIn(series[m]) <= HistoryWindow
        BY <1>0, <2>1, <3>3, <4>1
      <4>3. \A s \in seen : t - s <= HistoryWindow => now - s <= HistoryWindow
        BY <1>0, <2>1
      <4>4. Covers(p, seen, t)
        BY <2>1, <4>1, <4>3 DEF Covers
      <4> QED
        BY <2>1, <2>2, <3>1, <3>4, <4>1, <4>2, <4>4
    <3>5. CASE m \notin DOMAIN series'
      <4>1. \A s \in seen : t - s > HistoryWindow
        <5>1. CASE m \in DOMAIN series
          <6>1. t - last > HistoryWindow /\ last \in Nat
            BY <2>1, <3>2, <3>3, <3>5, <5>1 DEF Stale
          <6> QED
            BY <1>0, <2>1, <3>3, <5>1, <6>1
        <5>2. CASE m \notin DOMAIN series
          BY <1>0, <2>1, <5>2
        <5> QED
          BY <5>1, <5>2
      <4> QED
        BY <2>2, <3>1, <3>5, <4>1
    <3> QED
      BY <3>4, <3>5
  <2> QED
    BY <2>3, <2>4
<1>2. DOMAIN series' \subseteq Mounts
  BY <1>0 DEF Series
<1> QED
  BY <1>1, <1>2 DEF SeriesInv

\* SeriesCoverWindow holds of every behaviour: whatever comes and goes, a disk has a series
\* if and only if it was reported within the window, and loses no point of it but for room.
THEOREM HistoryFollowsDisks == DiskSpec => []SeriesCoverWindow
<1>1. DiskInit => SeriesInv
  BY DEF DiskInit, SeriesInv
<1>2. DiskInv /\ SeriesInv /\ [DiskNext]_dvars => SeriesInv'
  <2> SUFFICES ASSUME DiskInv, SeriesInv, [DiskNext]_dvars PROVE SeriesInv'
    OBVIOUS
  <2>0. DiskTypes
    BY DEF DiskInv
  <2>1. \A t \in NextTicks : t \in Nat /\ t > now
    BY <2>0, StepAssumption DEF NextTicks, DiskTypes
  <2>2. CASE DiskTick
    <3>1. PICK t \in NextTicks, mounted \in SUBSET Mounts :
            /\ now' = t
            /\ \E hung \in SUBSET mounted : \E failing \in SUBSET (mounted \ hung) :
                 Collect(t, mounted, hung, failing)
      BY <2>2 DEF DiskTick
    <3>2. PICK reported \in SUBSET Mounts :
            /\ series' = Series(t, reported)
            /\ sightings' = [m \in Mounts |-> sightings[m] \union IF m \in reported THEN {t} ELSE {}]
      BY <3>1 DEF Collect
    <3> QED
      BY <2>0, <2>1, <3>1, <3>2, SeriesKeeps
  <2>3. CASE MountsUnreadable
    <3>1. PICK t \in NextTicks : now' = t /\ series' = Series(t, {}) /\ sightings' = sightings
      BY <2>3 DEF MountsUnreadable
    <3>2. sightings' = [m \in Mounts |-> sightings[m] \union IF m \in {} THEN {t} ELSE {}]
      BY <2>0, <3>1 DEF DiskTypes
    <3> QED
      BY <2>0, <2>1, <3>1, <3>2, SeriesKeeps
  <2>4. CASE Release \/ UNCHANGED dvars
    <3>1. now' = now /\ series' = series /\ sightings' = sightings
      BY <2>4 DEF Release, vars, dvars
    <3> QED
      BY <3>1 DEF SeriesInv
  <2> QED
    BY <2>2, <2>3, <2>4 DEF DiskNext
<1>3. DiskInv /\ SeriesInv => SeriesCoverWindow
  <2> SUFFICES ASSUME DiskTypes, SeriesInv, NEW m \in Mounts
               PROVE  LET recent == {s \in sightings[m] : now - s <= HistoryWindow}
                          points == Snapshot(series[m])
                      IN  /\ m \in DOMAIN series <=> recent # {}
                          /\ recent # {} => \A s \in recent :
                               \/ s \in ToSet(points)
                               \/ Len(points) = Capacity /\ s < points[1]
    BY DEF DiskInv, SeriesCoverWindow
  <2>0. now \in Nat /\ HistoryWindow \in Nat /\ Capacity \in Nat \ {0} /\ sightings[m] \subseteq Nat
    BY WindowIsInt DEF DiskTypes
  <2> DEFINE recent == {s \in sightings[m] : now - s <= HistoryWindow}
             points == Snapshot(series[m])
  <2>1. CASE m \notin DOMAIN series
    <3>1. recent = {}
      BY <2>0, <2>1 DEF SeriesInv
    <3> QED
      BY <2>1, <3>1
  <2>2. CASE m \in DOMAIN series
    <3>1. /\ IsRingBuffer(series[m], Capacity, Nat) /\ Covers(points, sightings[m], now)
          /\ now - NewestIn(series[m]) <= HistoryWindow
      BY <2>2 DEF SeriesInv
    <3>2. Len(points) = series[m].size /\ points \in Seq(Nat) /\ series[m].size \in Nat
      BY <2>0, <3>1, SnapshotType
    <3>3. series[m].size > 0 /\ Len(points) \in DOMAIN points
      BY <3>1, <3>2 DEF Covers
    <3>4. NewestIn(series[m]) = points[Len(points)]
      BY <3>1, <3>3, NewestIsLast
    <3>5. NewestIn(series[m]) \in recent
      BY <3>1, <3>3, <3>4 DEF Covers
    <3>6. \A s \in recent : s \in ToSet(points) \/ (Len(points) = Capacity /\ s < points[1])
      BY <3>1 DEF Covers, ToSet
    <3> QED
      BY <2>2, <3>5, <3>6
  <2> QED
    BY <2>1, <2>2
<1> QED
  BY <1>1, <1>2, <1>3, DiskInvariant, PTL DEF DiskSpec

-----------------------------------------------------------------------------

\* Whatever becomes of the mounts, what the engine is told is a sample like any other.
LEMMA DiskStepIsTick ==
  ASSUME [DiskNext]_dvars
  PROVE  [Next]_vars
<1>1. CASE DiskTick
  <2>1. PICK d \in Steps, mounted \in SUBSET Mounts :
          /\ now + d <= MaxTime /\ now' = now + d
          /\ \E hung \in SUBSET mounted : \E failing \in SUBSET (mounted \ hung) :
               Collect(now + d, mounted, hung, failing)
    BY <1>1 DEF DiskTick, NextTicks
  <2>2. PICK hung \in SUBSET mounted :
          \E failing \in SUBSET (mounted \ hung) : Collect(now + d, mounted, hung, failing)
    BY <2>1
  <2>3. PICK present \in SUBSET Mounts :
          \E reading \in [present -> Values], disks \in SetToSeqs(present) :
            Evaluate(now + d, reading, TRUE, disks)
    BY <2>2 DEF Collect
  <2>4. \E reading \in [{} \union present -> Values], disks \in SetToSeqs(present) :
          Evaluate(now + d, reading, TRUE, disks)
    <3>1. {} \union present = present
      OBVIOUS
    <3> QED
      BY <2>3, <3>1
  <2>5. {} \in SUBSET Scalars
    OBVIOUS
  <2>6. TickWithDisks
    BY <2>1, <2>4, <2>5 DEF TickWithDisks
  <2> QED
    BY <2>6 DEF Next
<1>2. CASE MountsUnreadable
  <2>1. PICK d \in Steps : /\ now + d <= MaxTime /\ now' = now + d
                           /\ Evaluate(now + d, << >>, FALSE, << >>)
    BY <1>2 DEF MountsUnreadable, NextTicks
  <2>2. << >> \in [{} -> Values] /\ {} \in SUBSET Scalars
    OBVIOUS
  <2>3. TickWithoutDisks
    BY <2>1, <2>2 DEF TickWithoutDisks
  <2> QED
    BY <2>3 DEF Next
<1>3. CASE Release \/ UNCHANGED dvars
  BY <1>3 DEF Release, dvars
<1> QED
  BY <1>1, <1>2, <1>3 DEF DiskNext

\* Fed by this collector the engine behaves as specified.
LEMMA DisksAreSamples == DiskSpec => Spec
<1>1. DiskInit => Init
  BY DEF DiskInit
<1> QED
  BY <1>1, DiskStepIsTick, PTL DEF DiskSpec, Spec

\* So it implements AlertLevels.
THEOREM DisksImplementLevels == DiskSpec => ImplementsLevels
BY DisksAreSamples, EngineImplementsLevels, PTL

\* EventChain holds whatever becomes of the mounts: a disk's alert that is cleared because
\* its filesystem is gone has an event that says so.
THEOREM DiskReportIsCoherent == DiskSpec => []EventChain
BY DisksAreSamples, ReportIsCoherent, PTL
=============================================================================
