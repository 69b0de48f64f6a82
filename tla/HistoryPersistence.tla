------------------------- MODULE HistoryPersistence -------------------------
(***************************************************************************)
(* The collector's loop, the history file and the process around them      *)
(* (internal/collector/collector.go and persist.go, cmd/pimonitor/main.go):*)
(* fast ticks record points, slow ticks hand a snapshot to a background    *)
(* writer, and a shutdown flushes once more before the process exits, with *)
(* a deadline.  The process may crash and the power may fail at any step;  *)
(* a restart loads what the file holds.                                    *)
(*                                                                         *)
(* A point is the instant of its tick.  All series are recorded together,  *)
(* so one sequence stands for all of them.                                 *)
(*                                                                         *)
(* The file system (external) journals the data directory: changes to it   *)
(* become durable in the order in which they were made, whenever it commits*)
(* its journal, and a power failure takes the directory back to the last   *)
(* commit.                                                                 *)
(***************************************************************************)
EXTENDS Integers, FiniteSets, SequencesExt

CONSTANTS Capacity,    \* points a series retains
          Window,      \* age up to which a restart restores points (0: any)
          Downtimes,   \* how long the process may stay down
          MaxTime,     \* bound: the last instant
          MaxBoots,    \* bound: how often the process may be started
          MaxStrays    \* bound: how many removals of a temporary file may fail

ASSUME CapacityAssumption == Capacity \in Nat \ {0}
ASSUME TimeAssumption ==
  /\ Window \in Nat /\ MaxTime \in Nat /\ MaxBoots \in Nat /\ MaxStrays \in Nat
  /\ Downtimes \subseteq Nat

VARIABLES clock,
          mem,        \* the retained points, oldest first
          coll,       \* where Run is
          writers,    \* the writeFile calls in flight
          file,       \* the history file as the file system shows it
          temps,      \* temporary files in the data directory
          durable,    \* the directory as it is on the disk, of which the above is the view
          cancelled,  \* a signal cancelled the context
          main,       \* where main.run is
          boots,      \* how often the process was started
          strays,     \* history: temporary files that could not be removed
          failed,     \* history: the last write of this process failed
          skipped,    \* history: the final flush found a writer in flight
          kept        \* history: the points some completed flush contained

disk == <<file, temps, durable>>
vars == <<clock, mem, coll, writers, disk, cancelled, main, boots, strays, failed,
          skipped, kept>>

NoFile == << >>
Torn == <<-1>>   \* a file whose content did not all reach the disk

\* What the data directory holds: the history file and the temporary files.
Image(f, n) == [file |-> f, temps |-> n]

Newest(s) == IF s = << >> THEN -1 ELSE Last(s)

\* Mutant: nothing is ever evicted.
RetainedAll(s) == s

\* RingBuffer.Add and RingBuffer.Fill: the newest Capacity points stay.
Retained(s) == IF Len(s) <= Capacity THEN s ELSE SubSeq(s, Len(s) - Capacity + 1, Len(s))

\* Mutant: the point on the boundary of the window is dropped, too.
TooOldEarly(p) == Window > 0 /\ p <= clock - Window

\* A point that left the window.
TooOld(p) == Window > 0 /\ p < clock - Window

\* decodeHistory and importHistory: a torn file is ignored; otherwise, points
\* being in time order, dropPrefix drops as many as are too old.
Restored(s) ==
  IF s = Torn THEN << >>
  ELSE Retained(SubSeq(s, 1 + Cardinality({i \in DOMAIN s : TooOld(s[i])}), Len(s)))

Init ==
  /\ clock = 0
  /\ mem = << >> /\ coll = "down" /\ writers = {}
  /\ file = NoFile /\ temps = 0 /\ durable = Image(NoFile, 0)
  /\ cancelled = FALSE /\ main = "down" /\ boots = 0
  /\ strays = 0 /\ failed = FALSE /\ skipped = FALSE /\ kept = {}

-----------------------------------------------------------------------------
(* The process. *)

\* The process starts, perhaps after some time: Run and the server get going.
Boot ==
  /\ main = "down" /\ boots < MaxBoots
  /\ \E d \in Downtimes : clock + d <= MaxTime /\ clock' = clock + d
  /\ main' = "serving" /\ coll' = "load" /\ boots' = boots + 1
  /\ UNCHANGED <<mem, writers, disk, cancelled, strays, failed, skipped, kept>>

\* The process is gone, with everything in its memory; a temporary file of a
\* writer stays behind.
Gone ==
  /\ main' = "down" /\ coll' = "down"
  /\ mem' = << >> /\ writers' = {}
  /\ cancelled' = FALSE /\ failed' = FALSE /\ skipped' = FALSE
  /\ UNCHANGED <<clock, boots, strays>>

Crash == main # "down" /\ Gone /\ UNCHANGED <<disk, kept>>

\* A power failure takes the directory back to what is on the disk: a rename or
\* a removal that is undone brings the temporary file back, too.
PowerLoss ==
  /\ main # "down" /\ Gone
  /\ file' = durable.file /\ temps' = durable.temps
  /\ kept' = kept \intersect ToSet(file')
  /\ UNCHANGED durable

\* The file system commits the changes made to the directory.
Commit ==
  /\ durable # Image(file, temps)
  /\ durable' = Image(file, temps)
  /\ UNCHANGED <<clock, mem, coll, writers, file, temps, cancelled, main, boots,
                 strays, failed, skipped, kept>>

\* SIGINT or SIGTERM: run starts to shut the server down.
Signal ==
  /\ main = "serving"
  /\ cancelled' = TRUE /\ main' = "shutdown"
  /\ UNCHANGED <<clock, mem, coll, writers, disk, boots, strays, failed, skipped, kept>>

\* All requests ended in time; run now waits for the collector.
ServerDown ==
  /\ main = "shutdown"
  /\ main' = "waiting"
  /\ UNCHANGED <<clock, mem, coll, writers, disk, cancelled, boots, strays, failed, skipped,
                 kept>>

\* run returns, and the process ends: the collector is done ...
ExitDone == main = "waiting" /\ coll = "done" /\ Gone /\ UNCHANGED <<disk, kept>>

\* Mutant: the deadline does not cover server.Shutdown.
ExitDeadlineLate == main = "waiting" /\ Gone /\ UNCHANGED <<disk, kept>>

\* ... or the shutdown context expires, in server.Shutdown or after it ...
ExitDeadline ==
  main \in {"shutdown", "waiting"} /\ Gone /\ UNCHANGED <<disk, kept>>

\* ... or the server failed: run returns without waiting for anything.
ExitServeError == main = "serving" /\ Gone /\ UNCHANGED <<disk, kept>>

-----------------------------------------------------------------------------
(* The collector's goroutine. *)

\* loadHistory; a file that cannot be read counts as no history.
Load ==
  /\ coll = "load"
  /\ coll' = "first"
  /\ \/ mem' = Restored(file) /\ UNCHANGED kept
     \/ mem' = << >> /\ kept' = {}
  /\ UNCHANGED <<clock, writers, disk, cancelled, main, boots, strays, failed, skipped>>

\* Mutant: a flush holds up the ticks.
FastTickInline ==
  /\ coll \in {"first", "loop"} /\ writers = {}
  /\ clock < MaxTime
  /\ coll' = "loop"
  /\ clock' = clock + 1
  /\ mem' = Retained(Append(mem, clock'))
  /\ UNCHANGED <<writers, disk, cancelled, main, boots, strays, failed, skipped,
                 kept>>

\* A fast tick, the initial one included, records one point.
FastTick ==
  /\ coll \in {"first", "loop"}
  /\ clock < MaxTime
  /\ coll' = "loop"
  /\ clock' = clock + 1
  /\ mem' = Retained(Append(mem, clock'))
  /\ UNCHANGED <<writers, disk, cancelled, main, boots, strays, failed, skipped,
                 kept>>

\* Mutant: every flush starts a write of its own.
FlushAlways ==
  writers' = writers \union {[pc |-> "start", data |-> mem, stable |-> FALSE]}

\* persistHistory: snapshot now, write in the background; skipped entirely if
\* an earlier write is still in flight.
Flush ==
  writers' = IF writers = {} THEN {[pc |-> "start", data |-> mem, stable |-> FALSE]}
             ELSE writers

\* A slow tick flushes; the loop's select may still take one, or a fast tick,
\* after the cancellation.
SlowTick ==
  /\ coll = "loop"
  /\ Flush
  /\ UNCHANGED <<clock, mem, coll, disk, cancelled, main, boots, strays, failed, skipped,
                 kept>>

\* The loop's select takes ctx.Done: the final flush.
FinalFlush ==
  /\ coll = "loop" /\ cancelled
  /\ Flush
  /\ coll' = "draining"
  /\ skipped' = (writers # {})
  /\ UNCHANGED <<clock, mem, disk, cancelled, main, boots, strays, failed, kept>>

\* Mutant: Run does not wait for the write.
DrainedAtOnce ==
  /\ coll = "draining"
  /\ coll' = "done"
  /\ UNCHANGED <<clock, mem, writers, disk, cancelled, main, boots, strays, failed, skipped,
                 kept>>

\* persistWG.Wait returns, and with it Run.
Drained ==
  /\ coll = "draining" /\ writers = {}
  /\ coll' = "done"
  /\ UNCHANGED <<clock, mem, writers, disk, cancelled, main, boots, strays, failed, skipped,
                 kept>>

-----------------------------------------------------------------------------
(* writeFileAtomic: the goroutine of one write. *)

\* The write w goes on as v.
Goes(w, v) == writers' = (writers \ {w}) \union {v}

CreateTemp(w) ==
  /\ w.pc = "start"
  /\ Goes(w, [w EXCEPT !.pc = "open"])
  /\ temps' = temps + 1
  /\ UNCHANGED <<file, durable, strays, failed, kept>>

WriteTemp(w) ==
  /\ w.pc = "open"
  /\ Goes(w, [w EXCEPT !.pc = "written"])
  /\ UNCHANGED <<disk, strays, failed, kept>>

\* Mutant: no fsync before the rename.
SyncSkipped(w) ==
  /\ w.pc = "written"
  /\ Goes(w, [w EXCEPT !.pc = "synced"])
  /\ UNCHANGED <<disk, strays, failed, kept>>

SyncTemp(w) ==
  /\ w.pc = "written"
  /\ Goes(w, [w EXCEPT !.pc = "synced", !.stable = TRUE])
  /\ UNCHANGED <<disk, strays, failed, kept>>

\* What may be on the disk once a file is renamed: its data may get there after
\* the rename, or never, unless it was synced before.
Renamed(w) == {durable} \union (IF w.stable THEN {} ELSE {Image(Torn, temps - 1)})

\* Close and rename.
Rename(w) ==
  /\ w.pc = "synced"
  /\ writers' = writers \ {w}
  /\ file' = w.data
  /\ temps' = temps - 1
  /\ durable' \in Renamed(w)
  /\ failed' = FALSE
  /\ kept' = kept \union ToSet(w.data)
  /\ UNCHANGED strays

\* Mutant: a failed write leaves its temporary file.
WriteFailsDirty(w) ==
  /\ writers' = writers \ {w}
  /\ failed' = TRUE
  /\ UNCHANGED <<disk, strays, kept>>

\* Any step may fail: the temporary file, if there is one, is removed, and a
\* removal that fails, too, is ignored.
WriteFails(w) ==
  /\ writers' = writers \ {w}
  /\ failed' = TRUE
  /\ \/ w.pc = "start" /\ UNCHANGED <<disk, strays>>
     \/ w.pc # "start" /\ temps' = temps - 1 /\ UNCHANGED <<file, durable, strays>>
     \/ /\ w.pc # "start" /\ strays < MaxStrays
        /\ strays' = strays + 1
        /\ UNCHANGED disk
  /\ UNCHANGED kept

WriteFileAtomic ==
  \E w \in writers :
    /\ CreateTemp(w) \/ WriteTemp(w) \/ SyncTemp(w) \/ Rename(w) \/ WriteFails(w)
    /\ UNCHANGED <<clock, mem, coll, cancelled, main, boots, skipped>>

-----------------------------------------------------------------------------

Outside == Boot \/ Crash \/ PowerLoss \/ Commit \/ Signal
Run == Load \/ FastTick \/ SlowTick \/ FinalFlush \/ Drained
Main == ServerDown \/ ExitDone \/ ExitDeadline \/ ExitServeError

Next == Outside \/ Main \/ Run \/ WriteFileAtomic

Spec == Init /\ [][Next]_vars

\* The shutdown context expires, and the tickers fire; nothing is assumed of
\* the disk, so that a write may hang for ever.
StuckDiskSpec == Spec /\ WF_vars(ExitDeadline) /\ WF_vars(Load) /\ WF_vars(FastTick)

-----------------------------------------------------------------------------

Point == 0..MaxTime

Write == [pc: {"start", "open", "written", "synced"}, data: Seq(Point), stable: BOOLEAN]

TypeOK ==
  /\ clock \in Point
  /\ mem \in Seq(Point) /\ Len(mem) <= Capacity
  /\ coll \in {"down", "load", "first", "loop", "draining", "done"}
  /\ writers \subseteq Write /\ Cardinality(writers) <= 1
  /\ file \in Seq(Point \union {-1}) /\ temps \in Nat
  /\ durable.file \in Seq(Point \union {-1}) /\ durable.temps \in Nat
  /\ cancelled \in BOOLEAN /\ failed \in BOOLEAN /\ skipped \in BOOLEAN
  /\ main \in {"down", "serving", "shutdown", "waiting"}
  /\ boots \in 0..MaxBoots /\ strays \in 0..MaxStrays
  /\ kept \subseteq Point

\* The history file is never torn (writeFileAtomic): whatever step a crash or a
\* power failure interrupts, the file is one complete snapshot.
FileComplete == durable.file # Torn /\ file # Torn

\* The file never goes back in time (persistHistory's try-lock): while the
\* process runs, no write replaces newer data by older.
FileNeverRegresses == [][main' # "down" => Newest(file') >= Newest(file)]_vars

\* A point is gone for good only by age or by capacity.
Expired(p, s) ==
  \/ Window > 0 /\ p < clock - Window
  \/ Len(s) = Capacity /\ p < s[1]

\* Flushed points survive (loadHistory, importHistory, writeFileAtomic): after
\* any crashes and restarts every point a completed flush contained is in the
\* file and, once loaded, in memory, unless it is too old or was evicted.
PersistedSurvives ==
  \A p \in kept :
    /\ p \in ToSet(file) \/ Expired(p, file)
    /\ coll \notin {"down", "load"} => p \in ToSet(mem) \/ Expired(p, mem)

\* A clean stop is complete (Run): when Run has returned, the file holds exactly
\* what memory holds, unless the final flush failed or was skipped.
CleanShutdownComplete == coll = "done" /\ ~skipped /\ ~failed => file = mem

\* What collector.go says of the final flush: a clean shutdown whose writes all
\* succeed loses no fast tick's point but, at most, the last one's.
ShutdownLosesLittle ==
  coll = "done" /\ ~failed => \A p \in ToSet(mem) \ ToSet(file) : p = Last(mem)

\* Temporary files do not pile up (writeFileAtomic): beside those that could not
\* be removed, each one left behind was in use when a process died, at most one
\* per run of the process, and a power failure brings no further one back.
TempsBounded ==
  temps <= strays + (IF main = "down" \/ writers # {} THEN boots ELSE boots - 1)

\* A stuck disk cannot hang the shutdown (main.run): a signalled process ends.
ShutdownEnds == cancelled ~> main = "down"

\* A stuck disk cannot stop the collection (persistHistory writes in the
\* background): ticks go on as long as the process serves.
TicksGoOn == main = "serving" ~> clock = MaxTime \/ main # "serving"
=============================================================================
