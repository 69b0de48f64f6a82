---------------------------- MODULE RingBuffer ----------------------------
(***************************************************************************)
(* The circular buffer behind every retained series                        *)
(* (internal/collector/ringbuffer.go), as operators on its value: an array *)
(* of slots from 0, the slot to write next, and how many are in use.  Each *)
(* method holds the buffer's mutex, so that it is one step.                *)
(***************************************************************************)
EXTENDS Integers, Sequences

Slots(capacity) == 0..(capacity - 1)

NewRingBuffer(capacity, zero) ==
  LET c == IF capacity < 1 THEN 1 ELSE capacity
  IN  [data |-> [i \in Slots(c) |-> zero], capacity |-> c, next |-> 0, size |-> 0]

\* Mutant: the slot after the one that was written is overwritten when it is full.
AddSkipping(rb, v) ==
  [rb EXCEPT !.data[rb.next] = v,
             !.next = (@ + IF rb.size < rb.capacity THEN 1 ELSE 2) % rb.capacity,
             !.size = IF @ < rb.capacity THEN @ + 1 ELSE @]

\* Add overwrites the oldest value of a full buffer.
Add(rb, v) ==
  [data |-> [rb.data EXCEPT ![rb.next] = v],
   capacity |-> rb.capacity,
   next |-> (rb.next + 1) % rb.capacity,
   size |-> IF rb.size < rb.capacity THEN rb.size + 1 ELSE rb.size]

\* The last n members of a sequence.
LastOf(s, n) == IF Len(s) <= n THEN s ELSE SubSeq(s, Len(s) - n + 1, Len(s))

\* Fill starts afresh with the newest of the values.
Fill(rb, values, zero) ==
  LET kept == LastOf(values, rb.capacity)
  IN  [data |-> [i \in Slots(rb.capacity) |-> IF i < Len(kept) THEN kept[i + 1] ELSE zero],
       capacity |-> rb.capacity,
       next |-> Len(kept) % rb.capacity,
       size |-> Len(kept)]

\* Snapshot copies from the oldest value to the end of the array and goes on at its
\* start; a buffer that is not full begins there.
Snapshot(rb) ==
  [i \in 1..rb.size |->
     rb.data[IF rb.size < rb.capacity THEN i - 1
             ELSE IF rb.next + i - 1 < rb.capacity THEN rb.next + i - 1
             ELSE rb.next + i - 1 - rb.capacity]]

\* Newest, of a buffer that holds something.
NewestIn(rb) == rb.data[(rb.next - 1 + rb.capacity) % rb.capacity]

\* A buffer that is not full has been written from the start.
IsRingBuffer(rb, capacity, V) ==
  /\ capacity \in Nat \ {0}
  /\ rb \in [data: [Slots(capacity) -> V], capacity: {capacity}, next: Slots(capacity), size: 0..capacity]
  /\ rb.size < capacity => rb.next = rb.size
=============================================================================
