-------------------- MODULE HistoryPersistence_proofs --------------------
(***************************************************************************)
(* Proofs about HistoryPersistence.  What the properties say of the file   *)
(* rests on facts about the one write in flight: its snapshot lies, in     *)
(* time, between the file and the memory, and once the final flush started *)
(* it, its snapshot is the memory.  That flushed points survive rests on   *)
(* the file, the memory restored from it and the snapshot on its way back: *)
(* each has all that was flushed before, but for what age or capacity took *)
(* (SurvivalInv).                                                          *)
(***************************************************************************)
EXTENDS HistoryPersistence, FiniteSetTheorems, SequenceTheorems, WellFoundedInduction, TLAPS

Types ==
  /\ clock \in Point /\ mem \in Seq(Point) /\ Len(mem) <= Capacity
  /\ coll \in {"down", "load", "first", "loop", "draining", "done"}
  /\ writers \subseteq Write
  /\ file \in Seq(Point) /\ temps \in Nat
  /\ durable \in [file : Seq(Point), temps : Nat]
  /\ strays \in 0..MaxStrays
  /\ cancelled \in BOOLEAN /\ failed \in BOOLEAN /\ skipped \in BOOLEAN
  /\ main \in {"down", "serving", "shutdown", "waiting"}
  /\ boots \in 0..MaxBoots
  /\ kept \subseteq Point

\* The try-lock: one write at most, and only while the collector runs.
OneWriter ==
  /\ writers = {} \/ \E w \in Write : writers = {w}
  /\ writers # {} => coll \in {"loop", "draining"}
  /\ main = "down" => coll = "down"

\* What is renamed was synced.
SyncedIsStable == \A w \in writers : w.pc = "synced" => w.stable

\* Each run of the process leaves at most one temporary file behind, beside the
\* strays, and so on the disk.
TempsCounted ==
  /\ temps <= boots + strays /\ durable.temps <= boots + strays
  /\ main # "down" => boots >= 1
  /\ main # "down" /\ (\A w \in writers : w.pc = "start") => temps <= boots - 1 + strays
  /\ \A w \in writers : w.pc # "start" => temps >= 1

\* The file is not newer than a snapshot being written, and that not than memory.
InTimeOrder ==
  /\ Newest(file) <= clock /\ Newest(durable.file) <= clock
  /\ coll \in {"loop", "draining", "done"} =>
       Newest(file) <= Newest(mem) /\ Newest(mem) <= clock
  /\ \A w \in writers : Newest(file) <= Newest(w.data) /\ Newest(w.data) <= Newest(mem)

\* After a final flush that was not skipped, the memory is on its way to the file.
FlushedLast ==
  /\ coll = "draining" /\ ~skipped => \A w \in writers : w.data = mem
  /\ coll \in {"draining", "done"} /\ ~skipped /\ ~failed /\ writers = {} => file = mem

IndInv == Types /\ OneWriter /\ SyncedIsStable /\ TempsCounted /\ InTimeOrder /\ FlushedLast

-----------------------------------------------------------------------------

LEMMA PointIsNat == Point \subseteq Nat /\ 0 \in Point
  BY TimeAssumption DEF Point

\* The newest point of a sequence is one of its points, or it is empty.
LEMMA NewestType ==
  ASSUME NEW s \in Seq(Point)
  PROVE  Newest(s) \in Point \union {-1} /\ Newest(s) \in Int
<1>1. CASE s = << >>
  <2>1. Newest(s) = -1
    BY <1>1 DEF Newest
  <2> QED
    BY <2>1
<1>2. CASE s # << >>
  <2>1. Len(s) \in 1..Len(s)
    BY <1>2, EmptySeq, LenProperties
  <2>2. s[Len(s)] \in Point
    BY <2>1, ElementOfSeq
  <2> QED
    <3>1. Newest(s) = s[Len(s)]
      BY <1>2 DEF Newest, Last
    <3> QED
      BY <3>1, <2>2, TimeAssumption DEF Point
<1> QED
  BY <1>1, <1>2

\* A ring buffer keeps the newest points, at most Capacity of them (RingBuffer).
LEMMA RetainedType ==
  ASSUME NEW s \in Seq(Point)
  PROVE  /\ Retained(s) \in Seq(Point) /\ Len(Retained(s)) <= Capacity
         /\ Newest(Retained(s)) = Newest(s)
<1>0. Capacity \in Nat /\ Capacity >= 1 /\ Len(s) \in Nat
  BY CapacityAssumption, LenProperties
<1>1. CASE Len(s) <= Capacity
  BY <1>1 DEF Retained
<1>2. CASE ~(Len(s) <= Capacity)
  <2> DEFINE m == Len(s) - Capacity + 1
             t == SubSeq(s, m, Len(s))
  <2>1. m \in Int /\ Len(s) \in Int /\ 1 <= m /\ m <= Len(s)
    BY <1>0, <1>2
  <2>2. \A i \in m .. Len(s) : s[i] \in Point
    BY <2>1, ElementOfSeq
  <2>3. /\ t \in Seq(Point)
        /\ Len(t) = Capacity
        /\ \A i \in 1 .. Len(s) - m + 1 : t[i] = s[m + i - 1]
    <3> HIDE DEF t
    <3>1. /\ t \in Seq(Point)
          /\ Len(t) = IF m <= Len(s) THEN Len(s) - m + 1 ELSE 0
          /\ \A i \in 1 .. Len(s) - m + 1 : t[i] = s[m + i - 1]
      <4> HIDE DEF m
      <4> QED BY <2>1, <2>2, SubSeqProperties DEF t
    <3> QED BY <3>1, <2>1, <1>0
  <2>4. t[Capacity] = s[Len(s)]
    <3>1. Capacity \in 1 .. Len(s) - m + 1 /\ m + Capacity - 1 = Len(s)
      BY <1>0
    <3> QED BY <3>1, <2>3
  <2>5. Retained(s) = t
    BY <1>2 DEF Retained
  <2>6. t # << >> /\ s # << >>
    <3>1. Len(t) # 0 /\ Len(s) # 0 /\ Len(<< >>) = 0
      BY <2>3, <1>0, <1>2
    <3> HIDE DEF t
    <3> QED BY <3>1
  <2> HIDE DEF t
  <2> QED
    BY <2>3, <2>4, <2>5, <2>6, <1>0 DEF Newest, Last
<1> QED
  BY <1>1, <1>2

\* A restart restores points of the file, at most Capacity of them (importHistory).
LEMMA RestoredType ==
  ASSUME NEW s \in Seq(Point)
  PROVE  Restored(s) \in Seq(Point) /\ Len(Restored(s)) <= Capacity
<1> DEFINE old == {i \in DOMAIN s : TooOld(s[i])}
           t == SubSeq(s, 1 + Cardinality(old), Len(s))
<1>1. Len(s) \in Nat /\ DOMAIN s = 1..Len(s)
  BY LenProperties
<1>2. IsFiniteSet(DOMAIN s)
  BY <1>1, FS_Interval
<1>3. Cardinality(old) \in Nat
  BY <1>2, FS_Subset, FS_CardinalityType
<1>4. t \in Seq(Point)
  <2>1. 1 + Cardinality(old) \in Int /\ Len(s) \in Int
    BY <1>1, <1>3
  <2>2. \A i \in 1 + Cardinality(old) .. Len(s) : s[i] \in Point
    BY <1>1, <1>3, ElementOfSeq
  <2> HIDE DEF old
  <2> QED
    BY <2>1, <2>2, SubSeqProperties
<1>5. Retained(t) \in Seq(Point) /\ Len(Retained(t)) <= Capacity
  BY <1>4, RetainedType
<1>6. << >> \in Seq(Point) /\ Len(<< >>) <= Capacity
  BY CapacityAssumption
<1>7. Restored(s) = << >> \/ Restored(s) = Retained(t)
  BY DEF Restored
<1> QED
  BY <1>5, <1>6, <1>7

\* A tick's point becomes the newest.
LEMMA TickRecords ==
  ASSUME NEW s \in Seq(Point), NEW p \in Point
  PROVE  LET r == Retained(Append(s, p))
         IN  r \in Seq(Point) /\ Len(r) <= Capacity /\ Newest(r) = p
<1>1. /\ Append(s, p) \in Seq(Point) /\ Append(s, p) # << >>
      /\ Append(s, p)[Len(Append(s, p))] = p
  BY AppendProperties
<1>2. Newest(Append(s, p)) = p
  BY <1>1 DEF Newest, Last
<1> QED
  BY <1>1, <1>2, RetainedType

\* A snapshot of points is not a torn file.
LEMMA TornIsNoSnapshot == Torn \notin Seq(Point)
<1>1. SUFFICES ASSUME Torn \in Seq(Point) PROVE FALSE
  OBVIOUS
<1>2. Len(Torn) = 1 /\ Torn[1] = -1
  BY DEF Torn
<1>3. Torn[1] \in Point
  BY <1>1, <1>2, ElementOfSeq
<1> QED
  BY <1>2, <1>3, PointIsNat

\* A new installation, with no file and no process.
LEMMA InitEstablishes == Init => IndInv
<1> SUFFICES ASSUME Init PROVE IndInv
  OBVIOUS
<1>1. << >> \in Seq(Point) /\ Len(<< >>) = 0 /\ 0 \in Point
  BY PointIsNat
<1>2. Types
  <2>1. clock \in Point /\ mem \in Seq(Point) /\ Len(mem) <= Capacity
    BY <1>1, CapacityAssumption DEF Init
  <2>2. file \in Seq(Point) /\ durable \in [file : Seq(Point), temps : Nat]
    BY <1>1 DEF Init, NoFile, Image
  <2>3. temps \in Nat /\ boots \in 0..MaxBoots /\ strays \in 0..MaxStrays
    BY TimeAssumption DEF Init
  <2>4. cancelled \in BOOLEAN /\ failed \in BOOLEAN /\ skipped \in BOOLEAN
    BY DEF Init
  <2>5. writers \subseteq Write /\ kept \subseteq Point
    BY DEF Init
  <2> QED
    BY <2>1, <2>2, <2>3, <2>4, <2>5, Zenon DEF Init, Types
<1>3. OneWriter /\ SyncedIsStable /\ TempsCounted /\ FlushedLast
  BY DEF Init, OneWriter, SyncedIsStable, TempsCounted, FlushedLast, Image
<1>4. InTimeOrder
  <2>1. Newest(<< >>) = -1
    BY DEF Newest
  <2> QED
    BY <2>1 DEF Init, InTimeOrder, NoFile, Image
<1> QED
  BY <1>2, <1>3, <1>4 DEF IndInv

\* The end of the process, for whatever reason, leaves the disk to the next run.
LEMMA GoneKeeps ==
  ASSUME IndInv, main # "down", Gone, UNCHANGED durable,
         file' \in {file, durable.file}, temps' \in {temps, durable.temps}, kept' \subseteq kept
  PROVE  IndInv'
<1>1. << >> \in Seq(Point) /\ Len(<< >>) = 0 /\ Newest(<< >>) = -1
  BY PointIsNat DEF Newest
<1>2. Types'
  <2>1. mem' \in Seq(Point) /\ Len(mem') <= Capacity
    BY <1>1, CapacityAssumption DEF Gone
  <2>2. /\ clock' \in Point' /\ Point' = Point
        /\ file' \in Seq(Point) /\ temps' \in Nat /\ kept' \subseteq Point
    BY DEF IndInv, Types, Gone, Point
  <2> QED
    BY <2>1, <2>2 DEF IndInv, Types, Gone
<1>3. (OneWriter /\ SyncedIsStable /\ TempsCounted /\ FlushedLast)'
  BY DEF IndInv, Gone, OneWriter, SyncedIsStable, TempsCounted, FlushedLast
<1>4. InTimeOrder'
  BY DEF IndInv, Gone, InTimeOrder
<1> QED
  BY <1>2, <1>3, <1>4 DEF IndInv

\* The process around the collector.
LEMMA OutsideKeeps == ASSUME IndInv, Outside \/ Main PROVE IndInv'
<1> USE DEF IndInv
<1>1. CASE Boot
  <2>1. clock' \in Point /\ clock <= clock' /\ clock \in Nat
    BY <1>1, TimeAssumption DEF Boot, Point, Types
  <2>2. Types'
    BY <1>1, <2>1, TimeAssumption DEF Boot, Types, disk
  <2>3. (OneWriter /\ SyncedIsStable /\ TempsCounted /\ FlushedLast)'
    BY <1>1, TimeAssumption
    DEF Boot, disk, Types, OneWriter, SyncedIsStable, TempsCounted, FlushedLast
  <2>4. InTimeOrder'
    <3>1. Newest(file) \in Int /\ Newest(durable.file) \in Int
      BY NewestType DEF Types
    <3>2. ASSUME NEW n \in Int, n <= clock PROVE n <= clock'
      BY <2>1, <3>2, PointIsNat
    <3>3. Newest(file) <= clock' /\ Newest(durable.file) <= clock'
      BY <3>1, <3>2, Zenon DEF InTimeOrder
    <3>4. UNCHANGED <<mem, file, durable>> /\ writers' = {} /\ coll' = "load"
      BY <1>1 DEF Boot, disk, OneWriter
    <3> QED
      BY <3>3, <3>4 DEF InTimeOrder
  <2> QED
    BY <2>2, <2>3, <2>4
<1>2. CASE Crash \/ ExitDone \/ ExitDeadline \/ ExitServeError
  <2>1. main # "down" /\ Gone /\ UNCHANGED <<disk, kept>>
    BY <1>2 DEF Crash, ExitDone, ExitDeadline, ExitServeError
  <2> QED
    BY <2>1, GoneKeeps DEF disk
<1>3. CASE PowerLoss
  BY <1>3, GoneKeeps DEF PowerLoss
<1>4. CASE Commit
  <2>1. Types'
    BY <1>4 DEF Commit, Types, Point, Write, Image
  <2> QED
    BY <1>4, <2>1
    DEF Commit, Image, Types, OneWriter, SyncedIsStable, TempsCounted, InTimeOrder, FlushedLast
<1>5. CASE Signal \/ ServerDown
  BY <1>5
  DEF Signal, ServerDown, disk, Types, OneWriter, SyncedIsStable, TempsCounted,
      InTimeOrder, FlushedLast
<1> QED
  BY <1>1, <1>2, <1>3, <1>4, <1>5 DEF Outside, Main

\* A flush starts a write of the memory, if none is in flight (persistHistory).
LEMMA FlushStarts ==
  ASSUME IndInv, coll = "loop", Flush, UNCHANGED <<clock, mem, disk, main, boots, kept, failed, strays>>,
         coll' \in {"loop", "draining"}
  PROVE  /\ writers' \subseteq Write
         /\ OneWriter' /\ SyncedIsStable' /\ TempsCounted' /\ InTimeOrder'
<1> DEFINE new == [pc |-> "start", data |-> mem, stable |-> FALSE]
<1> USE DEF IndInv
<1>1. CASE writers # {}
  <2>1. writers' = writers
    BY <1>1 DEF Flush
  <2> QED
    BY <1>1, <2>1
    DEF Types, disk, OneWriter, SyncedIsStable, TempsCounted, InTimeOrder
<1>2. CASE writers = {}
  <2>1. writers' = {new} /\ new \in Write
    BY <1>2 DEF Flush, Types, Write
  <2>2. OneWriter' /\ SyncedIsStable' /\ TempsCounted'
    <3>1. new.pc = "start" /\ main # "down"
      BY DEF OneWriter
    <3> HIDE DEF new
    <3> QED
      BY <1>2, <2>1, <3>1 DEF disk, OneWriter, SyncedIsStable, TempsCounted
  <2>3. InTimeOrder'
    <3>1. Newest(mem) \in Int
      BY NewestType DEF Types
    <3> QED
      BY <1>2, <2>1, <3>1 DEF disk, InTimeOrder
  <2> QED
    BY <2>1, <2>2, <2>3
<1> QED
  BY <1>1, <1>2

\* The steps of the collector's goroutine (Collector.Run).
LEMMA RunKeeps == ASSUME IndInv, Run PROVE IndInv'
<1> USE DEF IndInv
<1>0. Point' = Point /\ Write' = Write
  BY DEF Point, Write
<1>1. CASE Load
  <2>1. mem' \in Seq(Point) /\ Len(mem') <= Capacity /\ kept' \subseteq Point
    <3>1. file \in Seq(Point)
      BY DEF Types
    <3>2. << >> \in Seq(Point) /\ Len(<< >>) = 0 /\ Capacity >= 0
      BY CapacityAssumption
    <3> QED
      BY <1>1, <3>1, <3>2, RestoredType DEF Load, Types
  <2>2. Types'
    BY <1>1, <2>1, <1>0 DEF Load, disk, Types
  <2>3. writers = {} /\ coll' = "first"
    BY <1>1 DEF Load, OneWriter
  <2>4. (OneWriter /\ SyncedIsStable /\ TempsCounted /\ FlushedLast)'
    BY <1>1, <2>3
    DEF Load, disk, OneWriter, SyncedIsStable, TempsCounted, FlushedLast
  <2>5. InTimeOrder'
    BY <1>1, <2>3 DEF Load, disk, InTimeOrder
  <2> QED
    BY <2>2, <2>4, <2>5
<1>2. CASE FastTick
  <2>1. clock' \in Point /\ clock < clock' /\ clock \in Nat
    BY <1>2, TimeAssumption DEF FastTick, Point, Types
  <2>2. mem' \in Seq(Point) /\ Len(mem') <= Capacity /\ Newest(mem') = clock'
    BY <1>2, <2>1, TickRecords DEF FastTick, Types
  <2>3. Types'
    BY <1>2, <2>1, <2>2, <1>0 DEF FastTick, disk, Types
  <2>4. (OneWriter /\ SyncedIsStable /\ TempsCounted /\ FlushedLast)'
    BY <1>2 DEF FastTick, disk, OneWriter, SyncedIsStable, TempsCounted, FlushedLast
  <2>5. InTimeOrder'
    <3>1. Newest(file) \in Int /\ Newest(durable.file) \in Int
      BY NewestType DEF Types
    <3>2. \A w \in writers : Newest(w.data) \in Int /\ Newest(w.data) <= clock
      <4>1. \A w \in writers : Newest(w.data) \in Int
        BY NewestType DEF Types, Write
      <4>2. Newest(mem) \in Int
        BY NewestType DEF Types
      <4>3. writers # {} => Newest(mem) <= clock
        BY DEF OneWriter, InTimeOrder
      <4> QED
        BY <4>1, <4>2, <4>3, <2>1 DEF InTimeOrder
    <3> QED
      BY <1>2, <2>1, <2>2, <3>1, <3>2 DEF FastTick, disk, Types, InTimeOrder
  <2> QED
    BY <2>3, <2>4, <2>5
<1>3. CASE SlowTick
  <2>1. /\ writers' \subseteq Write
        /\ OneWriter' /\ SyncedIsStable' /\ TempsCounted' /\ InTimeOrder'
    BY <1>3, FlushStarts DEF SlowTick
  <2>2. Types' /\ FlushedLast'
    BY <1>3, <2>1, <1>0 DEF SlowTick, disk, Types, FlushedLast
  <2> QED
    BY <2>1, <2>2
<1>4. CASE FinalFlush
  <2>1. /\ writers' \subseteq Write
        /\ OneWriter' /\ SyncedIsStable' /\ TempsCounted' /\ InTimeOrder'
    BY <1>4, FlushStarts DEF FinalFlush
  <2>2. Types'
    BY <1>4, <2>1, <1>0 DEF FinalFlush, disk, Types
  <2>3. FlushedLast'
    <3>1. CASE writers = {}
      <4> DEFINE v == [pc |-> "start", data |-> mem, stable |-> FALSE]
      <4>1. writers' = {v} /\ v.data = mem
        BY <1>4, <3>1 DEF FinalFlush, Flush
      <4> HIDE DEF v
      <4> QED
        BY <1>4, <4>1 DEF FinalFlush, FlushedLast
    <3>2. CASE writers # {}
      BY <1>4, <3>2 DEF FinalFlush, FlushedLast
    <3> QED
      BY <3>1, <3>2
  <2> QED
    BY <2>1, <2>2, <2>3
<1>5. CASE Drained
  <2>1. Types'
    BY <1>5, <1>0 DEF Drained, disk, Types
  <2>2. (OneWriter /\ SyncedIsStable /\ TempsCounted /\ InTimeOrder /\ FlushedLast)'
    BY <1>5
    DEF Drained, disk, OneWriter, SyncedIsStable, TempsCounted, InTimeOrder, FlushedLast
  <2> QED
    BY <2>1, <2>2
<1> QED
  BY <1>1, <1>2, <1>3, <1>4, <1>5 DEF Run

\* One more file that could not be removed keeps what TempsCounted says of the others.
LEMMA MoreStrays ==
  ASSUME NEW t \in Nat, NEW d \in Nat, NEW b \in Nat, NEW before \in Nat, NEW after \in Nat,
         t <= b - 1 + after, d <= b + before, before <= after
  PROVE  t <= b + after /\ d <= b + after
OBVIOUS

\* The steps of a write (writeFileAtomic).
LEMMA WriteKeeps == ASSUME IndInv, WriteFileAtomic PROVE IndInv'
<1> USE DEF IndInv
<1>0. Point' = Point /\ Write' = Write
  BY DEF Point, Write
<1>1. PICK w \in writers :
        /\ CreateTemp(w) \/ WriteTemp(w) \/ SyncTemp(w) \/ Rename(w) \/ WriteFails(w)
        /\ UNCHANGED <<clock, mem, coll, cancelled, main, boots, skipped>>
  BY DEF WriteFileAtomic
<1>2. w \in Write /\ writers = {w} /\ coll \in {"loop", "draining"} /\ main # "down"
  BY DEF Types, OneWriter
<1>3. Newest(w.data) \in Int /\ Newest(file) \in Int /\ Newest(mem) \in Int /\ clock \in Int
  <2>1. w.data \in Seq(Point)
    BY <1>2 DEF Write
  <2> QED
    BY <2>1, NewestType, TimeAssumption DEF Types, Point
<1>4. CASE CreateTemp(w) \/ WriteTemp(w) \/ SyncTemp(w)
  <2>1. PICK v \in Write :
          /\ writers' = {v} /\ v.data = w.data /\ v.pc # "start"
          /\ v.pc = "synced" => v.stable
    <3>1. CASE CreateTemp(w)
      <4> DEFINE v == [w EXCEPT !.pc = "open"]
      <4>1. writers' = {v}
        BY <1>2, <3>1 DEF CreateTemp, Goes
      <4>2. v \in Write /\ v.data = w.data /\ v.pc # "start" /\ (v.pc = "synced" => v.stable)
        BY <1>2 DEF Write
      <4> HIDE DEF v
      <4> QED
        BY <4>1, <4>2
    <3>2. CASE WriteTemp(w)
      <4> DEFINE v == [w EXCEPT !.pc = "written"]
      <4>1. writers' = {v}
        BY <1>2, <3>2 DEF WriteTemp, Goes
      <4>2. v \in Write /\ v.data = w.data /\ v.pc # "start" /\ (v.pc = "synced" => v.stable)
        BY <1>2 DEF Write
      <4> HIDE DEF v
      <4> QED
        BY <4>1, <4>2
    <3>3. CASE SyncTemp(w)
      <4> DEFINE v == [w EXCEPT !.pc = "synced", !.stable = TRUE]
      <4>1. writers' = {v}
        BY <1>2, <3>3 DEF SyncTemp, Goes
      <4>2. v \in Write /\ v.data = w.data /\ v.pc # "start" /\ (v.pc = "synced" => v.stable)
        BY <1>2 DEF Write
      <4> HIDE DEF v
      <4> QED
        BY <4>1, <4>2
    <3> QED
      BY <1>4, <3>1, <3>2, <3>3
  <2>2. /\ UNCHANGED <<file, durable, strays, failed, kept>>
        /\ temps' = IF w.pc = "start" THEN temps + 1 ELSE temps
    BY <1>4 DEF CreateTemp, WriteTemp, SyncTemp, disk
  <2>3. Types'
    BY <1>1, <1>0, <2>1, <2>2 DEF Types
  <2>4. OneWriter' /\ SyncedIsStable'
    BY <1>1, <1>2, <1>0, <2>1 DEF OneWriter, SyncedIsStable
  <2>5. TempsCounted'
    BY <1>1, <1>2, <2>1, <2>2 DEF Types, TempsCounted
  <2>6. InTimeOrder' /\ FlushedLast'
    BY <1>1, <1>2, <2>1, <2>2 DEF InTimeOrder, FlushedLast
  <2> QED
    BY <2>3, <2>4, <2>5, <2>6
<1>5. CASE Rename(w)
  <2>1. w.pc = "synced" /\ w.stable /\ w.data \in Seq(Point) /\ writers' = {}
    BY <1>2, <1>5 DEF Rename, SyncedIsStable, Write
  <2>2. file' = w.data /\ UNCHANGED <<durable, strays>>
    BY <1>5, <2>1 DEF Rename, Renamed
  <2>3. kept' \subseteq Point
    <3>1. ToSet(w.data) \subseteq Point
      BY <2>1, ElementOfSeq, LenProperties DEF ToSet
    <3> QED
      BY <1>5, <3>1 DEF Rename, Types
  <2>4. temps' \in Nat /\ temps' <= boots - 1 + strays /\ failed' = FALSE
    BY <1>5, <1>2, <2>1 DEF Rename, Types, TempsCounted
  <2>5. Types'
    BY <1>1, <1>0, <2>1, <2>2, <2>3, <2>4 DEF Types
  <2>6. OneWriter' /\ SyncedIsStable' /\ TempsCounted'
    BY <1>1, <1>2, <2>1, <2>2, <2>4 DEF Types, OneWriter, SyncedIsStable, TempsCounted
  <2>7. InTimeOrder'
    BY <1>1, <1>2, <1>3, <2>1, <2>2 DEF InTimeOrder
  <2>8. FlushedLast'
    BY <1>1, <1>2, <2>1, <2>2 DEF FlushedLast
  <2> QED
    BY <2>5, <2>6, <2>7, <2>8
<1>6. CASE WriteFails(w)
  <2>1. writers' = {} /\ failed' = TRUE /\ UNCHANGED <<file, durable, kept>>
    BY <1>2, <1>6 DEF WriteFails, disk
  <2>2. /\ temps' \in Nat /\ temps' <= boots - 1 + strays'
        /\ strays' \in 0..MaxStrays /\ strays <= strays'
    BY <1>6, <1>2, TimeAssumption DEF WriteFails, disk, Types, TempsCounted
  <2>3. Types'
    BY <1>1, <1>0, <2>1, <2>2 DEF Types
  <2>4. OneWriter' /\ SyncedIsStable'
    BY <1>1, <1>2, <2>1 DEF OneWriter, SyncedIsStable
  <2>5. TempsCounted'
    <3>1. /\ boots \in Nat /\ strays \in Nat /\ strays' \in Nat
          /\ durable.temps \in Nat /\ durable.temps <= boots + strays
      BY <2>2, TimeAssumption DEF Types, TempsCounted
    <3>2. strays' \in Nat /\ temps' \in Nat /\ temps' <= boots - 1 + strays' /\ strays <= strays'
      BY <2>2, <3>1, Zenon
    <3>3. temps' <= boots + strays' /\ durable.temps <= boots + strays'
      BY <3>1, <3>2, MoreStrays, Zenon
    <3>4. durable'.temps <= boots + strays'
      BY <2>1, <3>3, Zenon
    <3> QED
      BY <1>1, <2>1, <2>2, <3>3, <3>4 DEF TempsCounted
  <2>6. InTimeOrder' /\ FlushedLast'
    BY <1>1, <2>1 DEF InTimeOrder, FlushedLast
  <2> QED
    BY <2>3, <2>4, <2>5, <2>6
<1> QED
  BY <1>1, <1>4, <1>5, <1>6

-----------------------------------------------------------------------------

\* The invariant holds in every reachable state.
LEMMA IndInvHolds == Spec => []IndInv
<1>1. Init => IndInv
  BY InitEstablishes
<1>2. IndInv /\ [Next]_vars => IndInv'
  <2> SUFFICES ASSUME IndInv, [Next]_vars PROVE IndInv'
    OBVIOUS
  <2>1. CASE Next
    BY <2>1, OutsideKeeps, RunKeeps, WriteKeeps DEF Next
  <2>2. CASE UNCHANGED vars
    BY <2>2
    DEF vars, disk, Point, Write, IndInv, Types, OneWriter, SyncedIsStable, TempsCounted,
        InTimeOrder, FlushedLast
  <2> QED
    BY <2>1, <2>2
<1> QED
  BY <1>1, <1>2, PTL DEF Spec

\* The type invariant, with the bounds on the memory and on the writes in
\* flight (persistHistory's try-lock).
THEOREM TypeCorrect == Spec => []TypeOK
<1>1. IndInv => TypeOK
  <2> SUFFICES ASSUME IndInv PROVE TypeOK
    OBVIOUS
  <2>1. Cardinality(writers) <= 1
    <3>1. Cardinality({}) = 0 /\ \A w : Cardinality({w}) = 1
      BY FS_EmptySet, FS_Singleton
    <3>2. writers = {} \/ \E w : writers = {w}
      BY DEF IndInv, OneWriter
    <3>3. Cardinality(writers) \in {0, 1}
      BY <3>1, <3>2
    <3> QED
      BY <3>3
  <2>2. ASSUME NEW s \in Seq(Point) PROVE s \in Seq(Point \union {-1})
    <3>1. \A i \in 1..Len(s) : s[i] \in Point \union {-1}
      BY ElementOfSeq
    <3> QED
      BY <3>1, SeqDef, LenProperties
  <2> QED
    BY <2>1, <2>2 DEF IndInv, Types, TypeOK
<1> QED
  BY <1>1, IndInvHolds, PTL

\* The history file is never torn, whichever step of writeFileAtomic a crash or
\* a power failure interrupts.
THEOREM FileIsComplete == Spec => []FileComplete
<1>1. IndInv => FileComplete
  BY TornIsNoSnapshot DEF IndInv, Types, FileComplete
<1> QED
  BY <1>1, IndInvHolds, PTL

\* A late write never replaces a newer file (persistHistory).
THEOREM FileIsMonotonic == Spec => FileNeverRegresses
<1>1. IndInv /\ [Next]_vars => [main' # "down" => Newest(file') >= Newest(file)]_vars
  <2> SUFFICES ASSUME IndInv, [Next]_vars, main' # "down"
               PROVE  Newest(file') >= Newest(file)
    OBVIOUS
  <2>1. Newest(file) \in Int
    BY NewestType DEF IndInv, Types
  <2>2. CASE file' = file
    BY <2>1, <2>2
  <2>3. CASE file' # file
    <3>1. PICK w \in writers : Rename(w)
      BY <2>3
      DEF Next, Outside, Main, Run, WriteFileAtomic, vars, disk, Boot, Crash, PowerLoss, Gone,
          Commit, Signal, ServerDown, ExitDone, ExitDeadline, ExitServeError, Load, FastTick,
          SlowTick, FinalFlush, Drained, CreateTemp, WriteTemp, SyncTemp, WriteFails
    <3>2. file' = w.data /\ Newest(file) <= Newest(w.data) /\ w.data \in Seq(Point)
      BY <3>1 DEF Rename, IndInv, InTimeOrder, Types, Write
    <3>3. Newest(w.data) \in Int
      BY <3>2, NewestType
    <3> QED
      BY <2>1, <3>2, <3>3
  <2> QED
    BY <2>2, <2>3
<1> QED
  BY <1>1, IndInvHolds, PTL DEF Spec, FileNeverRegresses

\* When Run has returned, the file holds the memory, unless the final flush failed
\* or was skipped.
THEOREM ShutdownIsComplete == Spec => []CleanShutdownComplete
<1>1. IndInv => CleanShutdownComplete
  BY DEF IndInv, OneWriter, FlushedLast, CleanShutdownComplete
<1> QED
  BY <1>1, IndInvHolds, PTL

\* Temporary files do not pile up: at most one per run of the process, beside those that could
\* not be removed, whatever a power failure brings back.
THEOREM TempsAreBounded == Spec => []TempsBounded
<1>1. IndInv => TempsBounded
  <2> SUFFICES ASSUME IndInv PROVE TempsBounded
    OBVIOUS
  <2>1. temps \in Nat /\ boots \in Nat /\ strays \in Nat
    BY TimeAssumption DEF IndInv, Types
  <2>2. CASE main = "down" \/ writers # {}
    BY <2>1, <2>2 DEF IndInv, TempsCounted, TempsBounded
  <2>3. CASE ~(main = "down" \/ writers # {})
    BY <2>1, <2>3 DEF IndInv, TempsCounted, TempsBounded
  <2> QED
    BY <2>2, <2>3
<1> QED
  BY <1>1, IndInvHolds, PTL

-----------------------------------------------------------------------------
\* What a flush contained.

\* Retained points in time order, none of the future.
Ordered(s, c) ==
  /\ s \in Seq(Point) /\ Len(s) <= Capacity
  /\ \A i, j \in DOMAIN s : i < j => s[i] < s[j]
  /\ \A i \in DOMAIN s : s[i] <= c

\* At c, the points s hold p, or had to give it up.
Safe(p, s, c) ==
  \/ \E i \in DOMAIN s : s[i] = p
  \/ Window > 0 /\ p < c - Window
  \/ Len(s) = Capacity /\ p < s[1]

\* A point that was flushed is safe in the file and, once loaded, in memory; and so it stays,
\* because a snapshot on its way to the file has every such point, and memory those of the
\* snapshot.
SurvivalInv ==
  /\ Ordered(mem, clock)
  /\ Ordered(file, clock) /\ Ordered(durable.file, clock)
  /\ \A w \in writers : Ordered(w.data, clock)
  /\ \A p \in kept : Safe(p, file, clock)
  /\ coll \notin {"down", "load"} => \A p \in kept : Safe(p, mem, clock)
  /\ \A w \in writers :
       /\ \A p \in kept : Safe(p, w.data, clock)
       /\ \A i \in DOMAIN w.data : Safe(w.data[i], mem, clock)

LEMMA OrderedPoints ==
  ASSUME NEW s, NEW c, Ordered(s, c)
  PROVE  Len(s) \in Nat /\ DOMAIN s = 1..Len(s) /\ \A i \in DOMAIN s : s[i] \in Point /\ s[i] \in Nat
BY PointIsNat, ElementOfSeq, LenProperties DEF Ordered

\* Time takes nothing away but what gets too old.
LEMMA TimeKeepsSafe ==
  ASSUME NEW c \in Point, NEW t \in Point, c <= t, NEW s
  PROVE  /\ Ordered(s, c) => Ordered(s, t)
         /\ \A p \in Point : Safe(p, s, c) => Safe(p, s, t)
<1>1. c \in Nat /\ t \in Nat /\ Window \in Nat
  BY PointIsNat, TimeAssumption
<1>2. Ordered(s, c) => Ordered(s, t)
  <2> SUFFICES ASSUME Ordered(s, c) PROVE Ordered(s, t)
    OBVIOUS
  <2>1. \A i \in DOMAIN s : s[i] \in Nat
    BY OrderedPoints
  <2> QED
    BY <1>1, <2>1 DEF Ordered
<1>3. ASSUME NEW p \in Point, Safe(p, s, c) PROVE Safe(p, s, t)
  <2>1. p \in Nat
    BY PointIsNat
  <2> QED
    BY <1>1, <1>3, <2>1 DEF Safe
<1> QED
  BY <1>2, <1>3

\* A tick evicts the oldest point at most (RingBuffer.Add).
LEMMA TickKeepsSafe ==
  ASSUME NEW c \in Point, NEW t \in Point, c < t, NEW s, Ordered(s, c),
         NEW q, q = Retained(Append(s, t))
  PROVE  /\ Ordered(q, t)
         /\ \A p \in Point : Safe(p, s, c) => Safe(p, q, t)
<1> DEFINE r == Append(s, t)
           len == Len(s)
<1>1. /\ c \in Nat /\ t \in Nat /\ Window \in Nat /\ Capacity \in Nat \ {0}
      /\ len \in Nat /\ len <= Capacity /\ DOMAIN s = 1..len
      /\ r \in Seq(Point) /\ Len(r) = len + 1 /\ DOMAIN r = 1..(len + 1)
      /\ \A i \in 1..len : r[i] = s[i] /\ s[i] \in Nat /\ s[i] <= c
      /\ r[len + 1] = t
  <2>1. s \in Seq(Point) /\ Len(s) <= Capacity /\ \A i \in DOMAIN s : s[i] <= c
    BY DEF Ordered
  <2>2. \A i \in 1..len : s[i] \in Nat
    BY OrderedPoints
  <2> QED
    BY <2>1, <2>2, PointIsNat, TimeAssumption, CapacityAssumption
<1>2. \A i, j \in 1..len : i < j => s[i] < s[j]
  BY <1>1 DEF Ordered
<1>0. q = Retained(r) /\ Len(s) = len
  OBVIOUS
<1> HIDE DEF r, len
<1>3. \A i, j \in 1..(len + 1) : i < j => r[i] < r[j]
  <2> SUFFICES ASSUME NEW i \in 1..(len + 1), NEW j \in 1..(len + 1), i < j PROVE r[i] < r[j]
    OBVIOUS
  <2>1. i \in 1..len /\ r[i] = s[i]
    BY <1>1
  <2>2. CASE j = len + 1
    BY <1>1, <2>1, <2>2
  <2>3. CASE j # len + 1
    <3>1. j \in 1..len /\ r[j] = s[j]
      BY <1>1, <2>3
    <3> QED
      BY <1>2, <2>1, <3>1
  <2> QED
    BY <2>2, <2>3
<1>4. \A i \in 1..(len + 1) : r[i] <= t
  BY <1>1
<1>5. CASE len < Capacity
  <2>1. q = r
    BY <1>1, <1>5, <1>0 DEF Retained
  <2>2. Ordered(q, t)
    BY <1>1, <1>3, <1>4, <1>5, <2>1 DEF Ordered
  <2>3. ASSUME NEW p \in Point, Safe(p, s, c) PROVE Safe(p, q, t)
    <3>1. p \in Nat
      BY PointIsNat
    <3>2. CASE \E i \in DOMAIN s : s[i] = p
      <4>1. PICK i \in 1..len : s[i] = p
        BY <1>1, <3>2
      <4>2. i \in DOMAIN q /\ q[i] = p
        BY <1>1, <2>1, <4>1
      <4> QED
        BY <4>2 DEF Safe
    <3>3. CASE Window > 0 /\ p < c - Window
      BY <1>1, <3>1, <3>3 DEF Safe
    <3>4. Len(s) # Capacity
      BY <1>1, <1>5, <1>0
    <3> QED
      BY <2>3, <3>2, <3>3, <3>4 DEF Safe
  <2> QED
    BY <2>2, <2>3
<1>6. CASE len = Capacity
  <2>1. Len(q) = len /\ DOMAIN q = 1..len /\ q \in Seq(Point) /\ \A i \in 1..len : q[i] = r[i + 1]
    <3>1. Len(r) - Capacity + 1 = 2 /\ Len(r) = len + 1 /\ ~(Len(r) <= Capacity)
      BY <1>1, <1>6
    <3>2. q = SubSeq(r, Len(r) - Capacity + 1, Len(r))
      BY <1>0, <3>1 DEF Retained
    <3>3. q = SubSeq(r, 2, len + 1)
      BY <3>1, <3>2
    <3> QED
      BY <1>1, <3>3
  <2>2. \A i \in 1..len : i + 1 \in 1..(len + 1)
    BY <1>1
  <2>3. Ordered(q, t)
    <3>1. ASSUME NEW i \in DOMAIN q, NEW j \in DOMAIN q, i < j PROVE q[i] < q[j]
      <4>1. i + 1 < j + 1 /\ i + 1 \in 1..(len + 1) /\ j + 1 \in 1..(len + 1)
        BY <2>1, <2>2, <3>1
      <4>2. r[i + 1] < r[j + 1]
        BY <1>3, <4>1
      <4> QED
        BY <2>1, <4>2
    <3>2. \A i \in DOMAIN q : q[i] <= t
      BY <1>4, <2>1, <2>2
    <3> QED
      BY <1>1, <1>6, <2>1, <3>1, <3>2 DEF Ordered
  <2>4. s[1] < q[1] /\ q[1] \in Nat /\ s[1] \in Nat
    <3>1. 1 \in 1..len /\ 1 \in 1..(len + 1) /\ 2 \in 1..(len + 1)
      BY <1>1, <1>6
    <3>2. r[1] < r[2] /\ q[1] = r[1 + 1] /\ r[1] = s[1]
      BY <1>1, <1>3, <2>1, <3>1
    <3>3. r[2] \in Nat
      BY <1>1, <3>1, PointIsNat
    <3> QED
      BY <1>1, <3>1, <3>2, <3>3
  <2>5. ASSUME NEW p \in Point, Safe(p, s, c) PROVE Safe(p, q, t)
    <3>1. p \in Nat
      BY PointIsNat
    <3>2. CASE \E i \in DOMAIN s : s[i] = p
      <4>1. PICK i \in 1..len : s[i] = p
        BY <1>1, <3>2
      <4>2. CASE i = 1
        BY <1>6, <2>1, <2>4, <4>1, <4>2 DEF Safe
      <4>3. CASE i # 1
        <5>1. i - 1 \in 1..len /\ (i - 1) + 1 = i
          BY <1>1, <4>3
        <5>2. q[i - 1] = p /\ i - 1 \in DOMAIN q
          BY <1>1, <2>1, <4>1, <5>1
        <5> QED
          BY <5>2 DEF Safe
      <4> QED
        BY <4>2, <4>3
    <3>3. CASE Window > 0 /\ p < c - Window
      BY <1>1, <3>1, <3>3 DEF Safe
    <3>4. CASE Len(s) = Capacity /\ p < s[1]
      BY <1>6, <2>1, <2>4, <3>1, <3>4 DEF Safe
    <3> QED
      BY <2>5, <3>2, <3>3, <3>4 DEF Safe
  <2> QED
    BY <2>3, <2>5
<1> QED
  BY <1>1, <1>5, <1>6

\* The points that are too old are the first ones, so that dropping as many drops them.
LEMMA OldestFirst ==
  ASSUME NEW c \in Point, c = clock, NEW s, Ordered(s, c),
         NEW n, n = Cardinality({i \in DOMAIN s : TooOld(s[i])})
  PROVE  n \in 0..Len(s) /\ \A i \in DOMAIN s : TooOld(s[i]) <=> i <= n
<1> DEFINE len == Len(s)
           old == {i \in DOMAIN s : TooOld(s[i])}
           R == OpToRel(<, Nat)
           T == {i \in 1..(len + 1) : i \notin old}
<1>1. /\ len \in Nat /\ DOMAIN s = 1..len /\ c \in Nat /\ Window \in Nat
      /\ \A i \in 1..len : s[i] \in Nat
      /\ \A i, j \in 1..len : i < j => s[i] < s[j]
  <2>1. s \in Seq(Point)
    BY DEF Ordered
  <2>2. \A i \in 1..len : s[i] \in Nat
    BY OrderedPoints
  <2> QED
    BY <2>1, <2>2, PointIsNat, TimeAssumption DEF Ordered
<1>2. PICK k \in T : \A m \in T : ~(m < k)
  <2>1. IsWellFoundedOn(R, Nat)
    BY NatLessThanWellFounded
  <2>2. \A x, y \in Nat : x < y => <<x, y>> \in R
    BY DEF OpToRel
  <2>3. T \subseteq Nat /\ len + 1 \in T
    BY <1>1
  <2> HIDE DEF R, T
  <2>4. PICK k \in T : \A m \in T : ~(<<m, k>> \in R)
    BY <2>1, <2>3, WFMin
  <2> QED
    BY <2>2, <2>3, <2>4
<1>3. \A i \in 1..len : i \in old <=> i <= k - 1
  <2> SUFFICES ASSUME NEW i \in 1..len PROVE i \in old <=> i <= k - 1
    OBVIOUS
  <2>1. CASE i < k
    BY <1>1, <1>2, <2>1
  <2>2. CASE i = k
    BY <1>1, <1>2, <2>2
  <2>3. CASE i > k
    <3>1. k \in 1..len /\ ~TooOld(s[k]) /\ s[k] < s[i]
      BY <1>1, <1>2, <2>3
    <3>2. ~TooOld(s[i])
      BY <1>1, <3>1 DEF TooOld
    <3> QED
      BY <1>1, <1>2, <2>3, <3>2
  <2> QED
    BY <1>1, <1>2, <2>1, <2>2, <2>3
<1>4. k \in 1..(len + 1)
  BY <1>2
<1>5. old = 1..(k - 1)
  <2>1. old \subseteq 1..len
    BY <1>1
  <2> HIDE DEF old
  <2>2. \A i : i \in 1..(k - 1) <=> i \in 1..len /\ i <= k - 1
    BY <1>1, <1>4
  <2> QED
    BY <1>3, <2>1, <2>2
<1>6. n = k - 1
  <2>1. Cardinality(1..(k - 1)) = k - 1
    <3>1. 1 \in Int /\ k - 1 \in Int /\ (IF 1 > k - 1 THEN 0 ELSE (k - 1) - 1 + 1) = k - 1
      BY <1>1, <1>4
    <3>2. Cardinality(1..(k - 1)) = IF 1 > k - 1 THEN 0 ELSE (k - 1) - 1 + 1
      BY <3>1, FS_Interval
    <3> QED
      BY <3>1, <3>2
  <2>2. n = Cardinality(old)
    OBVIOUS
  <2> QED
    BY <1>5, <2>1, <2>2
<1>7. \A i \in DOMAIN s : TooOld(s[i]) <=> i \in old
  OBVIOUS
<1>8. Len(s) = len
  OBVIOUS
<1> HIDE DEF old, T, len
<1>9. n \in 0..len
  BY <1>1, <1>4, <1>6
<1>10. \A i \in DOMAIN s : TooOld(s[i]) <=> i <= n
  BY <1>1, <1>3, <1>6, <1>7
<1> QED
  BY <1>8, <1>9, <1>10

\* A restart drops what is too old and nothing else (importHistory).
LEMMA LoadKeepsSafe ==
  ASSUME NEW c \in Point, c = clock, NEW s, Ordered(s, c), NEW q, q = Restored(s)
  PROVE  /\ Ordered(q, c)
         /\ \A p \in Point : Safe(p, s, c) => Safe(p, q, c)
<1> DEFINE n == Cardinality({i \in DOMAIN s : TooOld(s[i])})
           len == Len(s)
<1>1. n \in 0..len /\ \A i \in DOMAIN s : TooOld(s[i]) <=> i <= n
  BY OldestFirst
<1>2. /\ s \in Seq(Point) /\ len \in Nat /\ DOMAIN s = 1..len /\ c \in Nat /\ Window \in Nat
      /\ len <= Capacity /\ Capacity \in Nat \ {0}
      /\ \A i \in 1..len : s[i] \in Nat
      /\ \A i, j \in 1..len : i < j => s[i] < s[j]
      /\ \A i \in 1..len : s[i] <= c
  <2>1. s \in Seq(Point)
    BY DEF Ordered
  <2>2. \A i \in 1..len : s[i] \in Nat
    BY OrderedPoints
  <2> QED
    BY <2>1, <2>2, PointIsNat, TimeAssumption, CapacityAssumption DEF Ordered
<1>3. q = Retained(SubSeq(s, 1 + n, len))
  BY <1>2, TornIsNoSnapshot DEF Restored
<1> HIDE DEF n, len
<1> DEFINE r == SubSeq(s, 1 + n, len)
<1>4. /\ r \in Seq(Point) /\ Len(r) = len - n /\ DOMAIN r = 1..(len - n)
      /\ \A i \in 1..(len - n) : r[i] = s[n + i] /\ n + i \in 1..len
  <2>1. 1 + n \in 1..(len + 1) /\ len - (1 + n) + 1 = len - n
        /\ \A i \in 1..(len - n) : (1 + n) + i - 1 = n + i /\ n + i \in 1..len
    BY <1>1, <1>2
  <2>2. \A i \in (1 + n)..len : s[i] \in Point
    BY <1>1, <1>2
  <2>3. /\ r \in Seq(Point)
        /\ Len(r) = IF 1 + n <= len THEN len - (1 + n) + 1 ELSE 0
        /\ \A i \in 1..(len - (1 + n) + 1) : r[i] = s[(1 + n) + i - 1]
    <3> DEFINE a == 1 + n
    <3>1. a \in Int /\ len \in Int /\ \A i \in a..len : s[i] \in Point
      BY <1>2, <2>1, <2>2
    <3> HIDE DEF a
    <3>2. /\ SubSeq(s, a, len) \in Seq(Point)
          /\ Len(SubSeq(s, a, len)) = IF a <= len THEN len - a + 1 ELSE 0
          /\ \A i \in 1..(len - a + 1) : SubSeq(s, a, len)[i] = s[a + i - 1]
      BY <3>1, SubSeqProperties
    <3> QED
      BY <3>2 DEF a
  <2> HIDE DEF r
  <2>4. Len(r) = len - n
    BY <1>1, <1>2, <2>1, <2>3
  <2> QED
    BY <2>1, <2>3, <2>4
<1>5. q = r
  BY <1>1, <1>2, <1>3, <1>4 DEF Retained
<1> HIDE DEF r
<1>6. Ordered(q, c)
  <2>1. \A i \in DOMAIN q : q[i] <= c
    BY <1>2, <1>4, <1>5
  <2>2. ASSUME NEW i \in DOMAIN q, NEW j \in DOMAIN q, i < j PROVE q[i] < q[j]
    <3>1. n + i \in 1..len /\ n + j \in 1..len /\ n + i < n + j
      BY <1>1, <1>4, <1>5, <2>2
    <3>2. s[n + i] < s[n + j]
      BY <1>2, <3>1
    <3> QED
      BY <1>4, <1>5, <3>2
  <2>3. q \in Seq(Point) /\ Len(q) <= Capacity
    BY <1>1, <1>2, <1>4, <1>5
  <2> QED
    BY <2>1, <2>2, <2>3 DEF Ordered
<1>7. ASSUME NEW p \in Point, Safe(p, s, c) PROVE Safe(p, q, c)
  <2>0. p \in Nat
    BY PointIsNat
  <2>1. CASE \E i \in DOMAIN s : s[i] = p
    <3>1. PICK i \in 1..len : s[i] = p
      BY <1>2, <2>1
    <3>2. CASE i <= n
      <4>1. TooOld(p)
        BY <1>1, <1>2, <3>1, <3>2
      <4> QED
        BY <4>1 DEF TooOld, Safe
    <3>3. CASE ~(i <= n)
      <4>1. i - n \in 1..(len - n) /\ n + (i - n) = i
        BY <1>1, <1>2, <3>3
      <4>2. i - n \in DOMAIN q /\ q[i - n] = p
        BY <1>4, <1>5, <3>1, <4>1
      <4> QED
        BY <4>2 DEF Safe
    <3> QED
      BY <3>2, <3>3
  <2>2. CASE Window > 0 /\ p < c - Window
    BY <2>2 DEF Safe
  <2>3. CASE Len(s) = Capacity /\ p < s[1]
    <3>0. len = Capacity /\ 1 \in 1..len
      BY <1>2, <2>3 DEF len
    <3>1. CASE n = 0
      <4>1. Len(q) = Capacity /\ q[1] = s[1]
        <5>1. 1 \in 1..(len - n) /\ n + 1 = 1 /\ len - n = Capacity
          BY <1>2, <3>0, <3>1
        <5> QED
          BY <1>4, <1>5, <5>1
      <4> QED
        BY <2>3, <4>1 DEF Safe
    <3>2. CASE n # 0
      <4>1. TooOld(s[1])
        BY <1>1, <1>2, <3>0, <3>2
      <4>2. Window > 0 /\ s[1] < c - Window /\ s[1] \in Nat
        BY <1>2, <3>0, <4>1 DEF TooOld
      <4> QED
        BY <1>2, <2>0, <2>3, <4>2 DEF Safe
    <3> QED
      BY <3>1, <3>2
  <2> QED
    BY <1>7, <2>1, <2>2, <2>3 DEF Safe
<1> QED
  BY <1>6, <1>7

LEMMA SurvivalInit == Init => SurvivalInv
<1> SUFFICES ASSUME Init PROVE SurvivalInv
  OBVIOUS
<1>1. Ordered(<< >>, clock)
  <2>1. << >> \in Seq(Point) /\ Len(<< >>) = 0 /\ DOMAIN << >> = {} /\ 0 <= Capacity
    BY CapacityAssumption
  <2> QED
    BY <2>1 DEF Ordered
<1> QED
  BY <1>1 DEF Init, NoFile, Image, SurvivalInv

LEMMA SurvivalKeeps ==
  ASSUME IndInv, IndInv', SurvivalInv, Next
  PROVE  SurvivalInv'
<1>0. /\ clock \in Point /\ clock' \in Point /\ kept \subseteq Point
      /\ OneWriter /\ writers \subseteq Write
  BY DEF IndInv, Types, Point
<1>1. Ordered(<< >>, clock)
  <2>1. << >> \in Seq(Point) /\ Len(<< >>) = 0 /\ DOMAIN << >> = {} /\ 0 <= Capacity
    BY CapacityAssumption
  <2>2. \A i, j \in DOMAIN << >> : FALSE
    BY <2>1
  <2> QED
    BY <2>1, <2>2 DEF Ordered
<1>2. /\ Ordered(mem, clock)
      /\ Ordered(file, clock) /\ Ordered(durable.file, clock)
      /\ \A w \in writers : Ordered(w.data, clock)
      /\ \A p \in kept : Safe(p, file, clock)
      /\ coll \notin {"down", "load"} => \A p \in kept : Safe(p, mem, clock)
      /\ \A w \in writers :
           /\ \A p \in kept : Safe(p, w.data, clock)
           /\ \A i \in DOMAIN w.data : Safe(w.data[i], mem, clock)
  BY DEF SurvivalInv
<1>3. ASSUME NEW w \in writers, NEW i \in DOMAIN w.data PROVE w.data[i] \in Point
  BY <1>2, OrderedPoints
<1>4. CASE Gone /\ file' \in {file, durable.file} /\ durable' = durable /\ kept' \subseteq kept
           /\ \A p \in kept' : Safe(p, file', clock)
  BY <1>1, <1>2, <1>4 DEF Gone, SurvivalInv
<1>5. CASE Crash \/ ExitDone \/ ExitDeadline \/ ExitServeError
  <2>1. Gone /\ UNCHANGED <<file, durable, kept>>
    BY <1>5 DEF Crash, ExitDone, ExitDeadline, ExitServeError, disk
  <2> QED
    BY <1>0, <1>2, <1>4, <2>1
<1>6. CASE PowerLoss
  <2>1. Gone /\ file' = durable.file /\ durable' = durable /\ kept' = kept \intersect ToSet(file')
    BY <1>6 DEF PowerLoss
  <2>2. \A p \in kept' : Safe(p, file', clock)
    BY <2>1 DEF ToSet, Safe
  <2> QED
    BY <1>4, <2>1, <2>2
<1>7. CASE Boot
  <2>1. /\ clock <= clock' /\ UNCHANGED <<mem, writers, file, durable, kept>> /\ coll' = "load"
    BY <1>0, <1>7, PointIsNat, TimeAssumption DEF Boot, disk
  <2>2. \A s : /\ Ordered(s, clock) => Ordered(s, clock')
               /\ \A p \in Point : Safe(p, s, clock) => Safe(p, s, clock')
    BY <1>0, <2>1, TimeKeepsSafe
  <2> QED
    BY <1>0, <1>2, <1>3, <2>1, <2>2 DEF SurvivalInv
<1>8. CASE Commit
  <2>1. UNCHANGED <<clock, mem, coll, writers, file, kept>> /\ durable'.file = file
    BY <1>8 DEF Commit, Image
  <2> QED
    BY <1>2, <2>1 DEF SurvivalInv
<1>9. CASE Signal \/ ServerDown \/ Drained
  <2>1. /\ UNCHANGED <<clock, mem, writers, file, durable, kept>>
        /\ coll' \in {"down", "load"} <=> coll \in {"down", "load"}
    BY <1>9 DEF Signal, ServerDown, Drained, disk
  <2> QED
    BY <1>2, <2>1 DEF SurvivalInv
<1>10. CASE Load
  <2>1. UNCHANGED <<clock, writers, file, durable>> /\ writers = {}
    BY <1>0, <1>10 DEF Load, disk, OneWriter
  <2>2. CASE mem' = Restored(file) /\ kept' = kept
    <3>1. Ordered(mem', clock) /\ \A p \in Point : Safe(p, file, clock) => Safe(p, mem', clock)
      BY <1>0, <1>2, <2>2, LoadKeepsSafe
    <3> QED
      BY <1>0, <1>2, <2>1, <2>2, <3>1 DEF SurvivalInv
  <2>3. CASE mem' = << >> /\ kept' = {}
    BY <1>1, <1>2, <2>1, <2>3 DEF SurvivalInv
  <2> QED
    BY <1>10, <2>2, <2>3 DEF Load
<1>11. CASE FastTick
  <2>1. /\ clock' = clock + 1 /\ mem' = Retained(Append(mem, clock')) /\ coll \notin {"down", "load"}
        /\ UNCHANGED <<writers, file, durable, kept>>
    BY <1>11 DEF FastTick, disk
  <2>2. clock < clock' /\ clock <= clock'
    BY <1>0, <2>1, PointIsNat
  <2>3. \A s : /\ Ordered(s, clock) => Ordered(s, clock')
               /\ \A p \in Point : Safe(p, s, clock) => Safe(p, s, clock')
    BY <1>0, <2>2, TimeKeepsSafe
  <2>4. Ordered(mem', clock') /\ \A p \in Point : Safe(p, mem, clock) => Safe(p, mem', clock')
    BY <1>0, <1>2, <2>1, <2>2, TickKeepsSafe
  <2> QED
    BY <1>0, <1>2, <1>3, <2>1, <2>3, <2>4 DEF SurvivalInv
<1>12. CASE SlowTick \/ FinalFlush
  <2>1. /\ UNCHANGED <<clock, mem, file, durable, kept>> /\ coll \notin {"down", "load"} /\ Flush
    BY <1>12 DEF SlowTick, FinalFlush, disk
  <2>2. \A i \in DOMAIN mem : Safe(mem[i], mem, clock)
    BY DEF Safe
  <2>3. ASSUME NEW w \in writers'
        PROVE  w \in writers \/ w.data = mem
    BY <2>1 DEF Flush
  <2> QED
    BY <1>2, <2>1, <2>2, <2>3 DEF SurvivalInv
<1>13. CASE WriteFileAtomic
  <2>1. PICK w \in writers :
          /\ CreateTemp(w) \/ WriteTemp(w) \/ SyncTemp(w) \/ Rename(w) \/ WriteFails(w)
          /\ UNCHANGED <<clock, mem, coll>>
    BY <1>13 DEF WriteFileAtomic
  <2>2. CASE Rename(w)
    <3>1. writers = {w} /\ w \in Write /\ coll \notin {"down", "load"}
      BY <1>0, <2>1 DEF OneWriter
    <3>2. w.stable
      BY <2>2 DEF Rename, IndInv, SyncedIsStable
    <3>3. /\ writers' = {} /\ file' = w.data /\ durable' = durable
          /\ kept' = kept \union ToSet(w.data)
      BY <2>2, <3>1, <3>2 DEF Rename, Renamed
    <3>4. \A p \in ToSet(w.data) : \E i \in DOMAIN w.data : w.data[i] = p
      BY DEF ToSet
    <3>5. \A p \in kept' : Safe(p, file', clock)
      BY <1>2, <3>1, <3>3, <3>4 DEF Safe
    <3>6. \A p \in kept' : Safe(p, mem, clock)
      BY <1>2, <3>1, <3>3, <3>4
    <3> QED
      BY <1>2, <2>1, <3>3, <3>5, <3>6 DEF SurvivalInv
  <2>3. CASE CreateTemp(w) \/ WriteTemp(w) \/ SyncTemp(w) \/ WriteFails(w)
    <3>1. UNCHANGED <<file, durable, kept>>
      BY <2>3 DEF CreateTemp, WriteTemp, SyncTemp, WriteFails, disk
    <3>2. \A v \in writers' : v.data = w.data \/ v \in writers
      <4>1. w \in Write
        BY <1>0
      <4>2. /\ [w EXCEPT !.pc = "open"].data = w.data
            /\ [w EXCEPT !.pc = "written"].data = w.data
            /\ [w EXCEPT !.pc = "synced", !.stable = TRUE].data = w.data
        BY <4>1 DEF Write
      <4> QED
        BY <2>3, <4>2 DEF CreateTemp, WriteTemp, SyncTemp, WriteFails, Goes
    <3> QED
      BY <1>2, <2>1, <3>1, <3>2 DEF SurvivalInv
  <2> QED
    BY <2>1, <2>2, <2>3
<1> QED
  BY <1>5, <1>6, <1>7, <1>8, <1>9, <1>10, <1>11, <1>12, <1>13 DEF Next, Outside, Main, Run

\* PersistedSurvives holds of every behaviour: whatever crashes, fails or is cut off, a point
\* some completed flush contained is lost to age or capacity only.
THEOREM FlushedPointsSurvive == Spec => []PersistedSurvives
<1>1. IndInv /\ IndInv' /\ SurvivalInv /\ [Next]_vars => SurvivalInv'
  <2> SUFFICES ASSUME IndInv, IndInv', SurvivalInv, [Next]_vars PROVE SurvivalInv'
    OBVIOUS
  <2>1. CASE UNCHANGED vars
    BY <2>1 DEF vars, disk, SurvivalInv
  <2> QED
    BY <2>1, SurvivalKeeps
<1>2. SurvivalInv => PersistedSurvives
  <2> SUFFICES ASSUME SurvivalInv, NEW p \in kept
               PROVE  /\ p \in ToSet(file) \/ Expired(p, file)
                      /\ coll \notin {"down", "load"} => p \in ToSet(mem) \/ Expired(p, mem)
    BY DEF PersistedSurvives
  <2>1. \A s : Safe(p, s, clock) => p \in ToSet(s) \/ Expired(p, s)
    BY DEF Safe, Expired, ToSet
  <2> QED
    BY <2>1 DEF SurvivalInv
<1> QED
  BY <1>1, <1>2, SurvivalInit, IndInvHolds, PTL DEF Spec
=============================================================================
