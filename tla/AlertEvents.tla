---------------------------- MODULE AlertEvents ----------------------------
(***************************************************************************)
(* The vocabulary shared by the alert engine, the notifier and their       *)
(* specifications: severity levels and transition events                   *)
(* (internal/alert/alert.go).  An event's Value, which no decision reads,  *)
(* is left out.                                                            *)
(***************************************************************************)
EXTENDS Integers, Sequences

Levels == {"ok", "warn", "crit"}

Severity == [ok |-> 0, warn |-> 1, crit |-> 2]

\* The higher of the two ends of a transition.
Peak(from, to) == IF Severity[from] > Severity[to] THEN from ELSE to

Kind(from, to) == IF Severity[to] < Severity[from] THEN "cleared" ELSE "fired"

\* One confirmed transition of the metric k.
Transition(k, from, to, at) ==
  [key |-> k, kind |-> Kind(from, to), from |-> from, to |-> to, at |-> at]

Transitions(keys, times) ==
  [key: keys, kind: {"fired", "cleared"}, from: Levels, to: Levels, at: times]

\* Mutant: one element too many survives.
NewestPlusOne(s, n) == IF Len(s) <= n + 1 THEN s ELSE SubSeq(s, Len(s) - n, Len(s))

\* The newest n elements of s: what is left of a list trimmed to n elements.
Newest(s, n) == IF Len(s) <= n THEN s ELSE SubSeq(s, Len(s) - n + 1, Len(s))
=============================================================================
