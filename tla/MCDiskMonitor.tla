--------------------------- MODULE MCDiskMonitor ---------------------------
(* Small instances of DiskMonitor.  Reading 1 is at or above every threshold. *)
EXTENDS DiskMonitor

MCNoScalars == << >>
MCValues == 0..1
MCOneValue == {0}
MCLimits == [k \in Keys |-> 1]
MCSteps == {1, 2}
============================================================================
