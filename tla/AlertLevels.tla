---------------------------- MODULE AlertLevels ----------------------------
(***************************************************************************)
(* What the alert engine promises the code around it, with the debounce    *)
(* left out: every monitored key has a level; each round moves any of them *)
(* and hands back exactly one event for each level that moved, oldest      *)
(* events being forgotten once MaxEvents are kept.                         *)
(*                                                                         *)
(* AlertEngine implements this specification (its property Levels!Spec);   *)
(* AlertPipeline drives the notifier with it.                              *)
(***************************************************************************)
EXTENDS AlertEvents, FiniteSetsExt, SequencesExt

CONSTANTS Keys,       \* one per metric, and one per mountpoint for disks
          MaxEvents,  \* how many events the engine keeps
          MaxTime     \* bound: the last instant a round may happen at

VARIABLES now,      \* instant of the last round
          level,    \* the debounced level of each key
          events,   \* the retained events, oldest first
          emitted   \* the events the last round returned to its caller

vars == <<now, level, events, emitted>>

Init ==
  /\ now = 0
  /\ level = [k \in Keys |-> "ok"]
  /\ events = << >>
  /\ emitted = << >>

Round ==
  \E t \in (now + 1)..MaxTime, next \in [Keys -> Levels] :
    /\ now' = t
    /\ level' = next
    /\ \E moved \in SetToSeqs({k \in Keys : next[k] # level[k]}) :
         emitted' = [i \in DOMAIN moved |->
                       Transition(moved[i], level[moved[i]], next[moved[i]], t)]
    /\ events' = Newest(events \o emitted', MaxEvents)

Next == Round

Spec == Init /\ [][Next]_vars
=============================================================================
