--------------------------- MODULE AlertPipeline ---------------------------
(***************************************************************************)
(* From a level change to the far end of a webhook: one fast tick of the   *)
(* collector (internal/collector/collector.go) evaluates the alert engine  *)
(* and hands the events it returns to the notifier.  The engine is taken   *)
(* by its specification AlertLevels, which AlertEngine implements.  The    *)
(* consumer behind a webhook is state-based: it shows the To level of the  *)
(* last event it received for a stream.                                    *)
(***************************************************************************)
EXTENDS Notifier

CONSTANT MaxEvents   \* how many events the engine retains

VARIABLES level,     \* the engine's level of each stream
          events,    \* the engine's retained events
          emitted    \* the events of the last round

pvars == <<vars, level, events, emitted>>

Engine == INSTANCE AlertLevels WITH now <- clock

PipelineInit == Init /\ Engine!Init

\* The alert part of a fast tick; the collector runs one at a time.
FastTick ==
  /\ Engine!Round
  /\ Notify(emitted')
  /\ UNCHANGED <<queue, wvars, cancelled, collector, log>>

NotifierStep ==
  /\ Cancel \/ Collector \/ \E w \in Webhooks : Worker(w)
  /\ UNCHANGED <<level, events, emitted>>

PipelineNext == FastTick \/ NotifierStep

PipelineSpec == PipelineInit /\ [][PipelineNext]_pvars

-----------------------------------------------------------------------------

\* The level the consumer behind w shows for k after the first n log entries.
ShownAfter(w, k, n) ==
  LET i == SelectLastInSubSeq(log[w], 1, n,
                              LAMBDA l : l.what = "received" /\ l.ev.key = k)
  IN  IF i = 0 THEN "ok" ELSE log[w][i].ev.to

Shown(w, k) == ShownAfter(w, k, Len(log[w]))

Alarms(w, l) == Severity[l] >= Severity[MinLevel[w]]

\* The newest event of k that w is to be told of, as an index of sent; 0 if none.
LastFor(w, k) ==
  SelectLastInSeq(sent, LAMBDA ev : ev.key = k /\ EventReaches(ev, MinLevel[w]))

\* What became of it: "confirmed", "limited", "overflow" or "gaveup" at its end.
Ended(w, ev, whats) ==
  \E i \in DOMAIN log[w] : log[w][i].ev = ev /\ log[w][i].what \in whats

\* A consumer is never stuck alarming (dispatch: recoveries bypass the limiter;
\* eventReaches: the filter looks at both ends): once the newest event of a
\* stream was delivered or dropped by the limiter, a stream that is below the
\* webhook's level is not shown as alarming.
NeverStuckAlarming ==
  \A w \in Webhooks, k \in Keys :
    LET i == LastFor(w, k)
    IN  (i = 0 \/ Ended(w, sent[i], {"confirmed", "limited"})) /\ ~Alarms(w, level[k])
          => ~Alarms(w, Shown(w, k))

\* When the newest event of a stream has been acknowledged, the consumer agrees
\* with the engine on whether the stream alarms, and on its level if it does:
\* whatever was lost, repeated or rate-limited before is made good.
ConsumerAgrees ==
  \A w \in Webhooks, k \in Keys :
    LET i == LastFor(w, k)
    IN  i = 0 \/ Ended(w, sent[i], {"confirmed"}) =>
          /\ Alarms(w, level[k]) <=> Alarms(w, Shown(w, k))
          /\ Alarms(w, level[k]) => Shown(w, k) = level[k]

\* What notify.go says of the limiter: it only coalesces repeated firings, that
\* is, drops a firing whose level the consumer was already told.
LimiterOnlyCoalesces ==
  \A w \in Webhooks : \A i \in DOMAIN log[w] :
    log[w][i].what = "limited" =>
      Severity[ShownAfter(w, log[w][i].ev.key, i)] >= Severity[log[w][i].ev.to]
=============================================================================
