----------------------------- MODULE Notifier -----------------------------
(***************************************************************************)
(* Webhook delivery of alert events (internal/alert/notify.go): the        *)
(* collector fans events out to one bounded queue per webhook, and one     *)
(* worker per webhook delivers them with a rate limit and bounded retries, *)
(* until the process is cancelled and Stop joins the workers.              *)
(*                                                                         *)
(* Threads: the collector (running Notify, then Stop) and the workers.  An *)
(* endpoint outside the program answers a request, or never does and the   *)
(* request times out.                                                      *)
(***************************************************************************)
EXTENDS AlertEvents, FiniteSetsExt, SequencesExt

CONSTANTS Keys,             \* the alert streams: one per (metric, resource)
          Webhooks,
          MinLevel,         \* severity filter of each webhook
          QueueSize,
          MaxRetries,
          Backoff,          \* 0: retry at once
          MinInterval,      \* rate limit (0: none)
          BadTemplates,     \* webhooks whose template fails on some events
          MaxTime           \* bound: instant of the last batch of events

ASSUME LevelAssumption == MinLevel \in [Webhooks -> {"warn", "crit"}]
ASSUME LimitAssumption ==
  /\ QueueSize \in Nat \ {0} /\ MaxRetries \in Nat
  /\ Backoff \in Nat /\ MinInterval \in Nat /\ MaxTime \in Nat
ASSUME TemplateAssumption == BadTemplates \subseteq Webhooks
ASSUME KeysAssumption == IsFiniteSet(Keys)

VARIABLES clock,      \* instant of the last batch
          sent,       \* history: every event handed to Notify, in order
          pending,    \* what the running Notify call still has to enqueue
          queue,      \* each webhook's channel
          pc,         \* where each worker is
          current,    \* the event each worker is delivering
          attempt,    \* retries made for it
          lastSent,   \* each webhook's last delivery instant per stream
          cancelled,  \* the context is done
          collector,  \* "running", "stopping" (inside Stop) or "stopped"
          log         \* history: what became of the events, per webhook

wvars == <<pc, current, attempt, lastSent>>
vars == <<clock, sent, pending, queue, wvars, cancelled, collector, log>>

Time == 1..MaxTime
NoEvent == [key |-> "none"]

\* Mutant: only the level an event leads to is looked at.
EventReachesTo(ev, min) == Severity[ev.to] >= Severity[min]

\* eventReaches: the filter looks at both ends, so that a webhook told of an
\* alert is told of its recovery.
EventReaches(ev, min) == Severity[Peak(ev.from, ev.to)] >= Severity[min]

\* What one Notify call has to do, in order: each event, for the webhooks it reaches.
Fanout(evs) ==
  [i \in DOMAIN evs |->
     [ev |-> evs[i], to |-> {w \in Webhooks : EventReaches(evs[i], MinLevel[w])}]]

\* Adds what became of ev to the history of w: "received" when the endpoint got a
\* request for it, "confirmed" when it acknowledged it in time, or the end it met.
Logged(w, ev, whats) ==
  [log EXCEPT ![w] = @ \o [i \in DOMAIN whats |-> [ev |-> ev, what |-> whats[i]]]]

-----------------------------------------------------------------------------
(* The collector. *)

Notify(evs) ==
  /\ collector = "running" /\ pending = << >>
  /\ sent' = sent \o evs
  /\ pending' = Fanout(evs)

\* Mutant: a new event overtakes.
EnqueuedFirst(q, ev) == <<ev>> \o q

Full(w) == Len(queue[w]) >= QueueSize
Enqueued(q, ev) == Append(q, ev)

\* Mutants: a full queue loses its oldest event; the send blocks.
OverflowOldest(w, ev) ==
  Full(w) /\ queue' = [queue EXCEPT ![w] = Append(Tail(@), ev)] /\ UNCHANGED log
OverflowBlocks(w, ev) == FALSE /\ UNCHANGED <<queue, log>>

\* A full queue drops the event.
Overflow(w, ev) == Full(w) /\ log' = Logged(w, ev, <<"overflow">>) /\ UNCHANGED queue

\* One non-blocking channel send, to any webhook that the event was not offered yet,
\* or on to the next event.
Offer ==
  /\ pending # << >>
  /\ LET ev == Head(pending).ev
         to == Head(pending).to
     IN  \/ \E w \in to :
              /\ pending' = IF to = {w} THEN Tail(pending)
                            ELSE [pending EXCEPT ![1] = [ev |-> ev, to |-> to \ {w}]]
              /\ \/ /\ ~Full(w)
                    /\ queue' = [queue EXCEPT ![w] = Enqueued(@, ev)]
                    /\ UNCHANGED log
                 \/ Overflow(w, ev)
         \/ to = {} /\ pending' = Tail(pending) /\ UNCHANGED <<queue, log>>
  /\ UNCHANGED <<clock, sent, wvars, cancelled, collector>>

Cancel ==
  /\ ~cancelled
  /\ cancelled' = TRUE
  /\ log' = [w \in Webhooks |-> Append(log[w], [ev |-> NoEvent, what |-> "cancelled"])]
  /\ UNCHANGED <<clock, sent, pending, queue, wvars, collector>>

\* The collector's loop notices the cancellation between two ticks, and its
\* deferred Stop waits for the workers.
BeginStop ==
  /\ collector = "running" /\ cancelled /\ pending = << >>
  /\ collector' = "stopping"
  /\ UNCHANGED <<clock, sent, pending, queue, wvars, cancelled, log>>

\* Mutant: Stop returns at once.
EndStopAtOnce ==
  /\ collector = "stopping"
  /\ collector' = "stopped"
  /\ UNCHANGED <<clock, sent, pending, queue, wvars, cancelled, log>>

EndStop ==
  /\ collector = "stopping"
  /\ \A w \in Webhooks : pc[w] = "exited"
  /\ collector' = "stopped"
  /\ UNCHANGED <<clock, sent, pending, queue, wvars, cancelled, log>>

-----------------------------------------------------------------------------
(* A worker. *)

RateLimited(w, ev) ==
  /\ MinInterval > 0
  /\ ev.key \in DOMAIN lastSent[w]
  /\ ev.at - lastSent[w][ev.key] < MinInterval

\* Mutants: every kind of event is limited; only firings start the interval.
SuppressedAny(w, ev) == RateLimited(w, ev)
RecordFired(w, ev) ==
  IF MinInterval = 0 \/ ev.kind # "fired" THEN lastSent[w]
  ELSE [k \in DOMAIN lastSent[w] \union {ev.key} |->
          IF k = ev.key THEN ev.at ELSE lastSent[w][k]]

\* Recoveries are never limited.
Suppressed(w, ev) == ev.kind # "cleared" /\ RateLimited(w, ev)

\* lastSent after a successful delivery.
RecordSent(w, ev) ==
  IF MinInterval = 0 THEN lastSent[w]
  ELSE [k \in DOMAIN lastSent[w] \union {ev.key} |->
          IF k = ev.key THEN ev.at ELSE lastSent[w][k]]

\* The worker is done with its event; whats is what came of it just now.
Finish(w, whats) ==
  /\ pc' = [pc EXCEPT ![w] = "idle"]
  /\ current' = [current EXCEPT ![w] = NoEvent]
  /\ attempt' = [attempt EXCEPT ![w] = 0]
  /\ log' = Logged(w, current[w], whats)

\* Mutant: one retry too many.
RetryOnceMore(w, whats) ==
  IF attempt[w] > MaxRetries
  THEN Finish(w, Append(whats, "gaveup"))
  ELSE /\ pc' = [pc EXCEPT ![w] = "backoff"]
       /\ log' = Logged(w, current[w], whats)
       /\ UNCHANGED <<current, attempt>>

\* A failed attempt that may be repeated: back off, or give up.
Retry(w, whats) ==
  IF attempt[w] >= MaxRetries
  THEN Finish(w, Append(whats, "gaveup"))
  ELSE /\ pc' = [pc EXCEPT ![w] = "backoff"]
       /\ log' = Logged(w, current[w], whats)
       /\ UNCHANGED <<current, attempt>>

\* The worker's select takes an event, even one already overtaken by the
\* cancellation, and dispatch filters it.
Take(w) ==
  /\ pc[w] = "idle" /\ queue[w] # << >>
  /\ queue' = [queue EXCEPT ![w] = Tail(@)]
  /\ LET ev == Head(queue[w])
         limited == Suppressed(w, ev)
     IN  \/ /\ limited
            /\ log' = Logged(w, ev, <<"limited">>)
            /\ UNCHANGED wvars
         \/ /\ ~limited /\ w \in BadTemplates
            /\ log' = Logged(w, ev, <<"gaveup">>)
            /\ UNCHANGED wvars
         \/ /\ ~limited
            /\ pc' = [pc EXCEPT ![w] = "ready"]
            /\ current' = [current EXCEPT ![w] = ev]
            /\ UNCHANGED <<attempt, lastSent, log>>
  /\ UNCHANGED <<clock, sent, pending, cancelled, collector>>

\* Mutant: the context is only looked at when an event arrives.
ExitOnEvent(w) ==
  /\ pc[w] = "idle" /\ cancelled /\ queue[w] # << >>
  /\ pc' = [pc EXCEPT ![w] = "exited"]
  /\ UNCHANGED <<clock, sent, pending, queue, current, attempt, lastSent,
                 cancelled, collector, log>>

\* The worker's select takes ctx.Done: whatever is queued is dropped.
Exit(w) ==
  /\ pc[w] = "idle" /\ cancelled
  /\ pc' = [pc EXCEPT ![w] = "exited"]
  /\ UNCHANGED <<clock, sent, pending, queue, current, attempt, lastSent,
                 cancelled, collector, log>>

\* Mutants: a request ignores the context; all webhooks share one connection.
PostRegardless(w) ==
  /\ pc[w] = "ready"
  /\ pc' = [pc EXCEPT ![w] = "inflight"]
  /\ UNCHANGED <<clock, sent, pending, queue, current, attempt, lastSent,
                 cancelled, collector, log>>
PostAlone(w) ==
  (\A v \in Webhooks : pc[v] # "inflight") /\ PostRegardless(w)

\* An attempt starts; a cancelled context fails it before anything is sent.
Post(w) ==
  /\ pc[w] = "ready"
  /\ \/ /\ ~cancelled
        /\ pc' = [pc EXCEPT ![w] = "inflight"]
        /\ UNCHANGED <<current, attempt, log>>
     \/ cancelled /\ Retry(w, << >>)
  /\ UNCHANGED <<clock, sent, pending, queue, lastSent, cancelled, collector>>

\* How a request ends: acknowledged; refused for good (a permanent 4xx); or
\* without a usable answer (transport error, timeout, 408, 429, 5xx,
\* cancellation), in which case the endpoint may have acted on it or not.
Accepted(w) ==
  /\ pc[w] = "inflight"
  /\ Finish(w, <<"received", "confirmed">>)
  /\ lastSent' = [lastSent EXCEPT ![w] = RecordSent(w, current[w])]
  /\ UNCHANGED <<clock, sent, pending, queue, cancelled, collector>>

Rejected(w) ==
  /\ pc[w] = "inflight"
  /\ Finish(w, <<"gaveup">>)
  /\ UNCHANGED <<clock, sent, pending, queue, lastSent, cancelled, collector>>

Failed(w) ==
  /\ pc[w] = "inflight"
  /\ \E whats \in { << >>, <<"received">> } : Retry(w, whats)
  /\ UNCHANGED <<clock, sent, pending, queue, lastSent, cancelled, collector>>

\* The backoff timer fires, possibly in the instant of the cancellation.
Wake(w) ==
  /\ pc[w] = "backoff"
  /\ pc' = [pc EXCEPT ![w] = "ready"]
  /\ attempt' = [attempt EXCEPT ![w] = @ + 1]
  /\ UNCHANGED <<clock, sent, pending, queue, current, lastSent, cancelled, collector, log>>

\* The cancellation interrupts a backoff (sleepCtx; not a zero one).
Abort(w) ==
  /\ pc[w] = "backoff" /\ cancelled /\ Backoff > 0
  /\ Finish(w, <<"gaveup">>)
  /\ UNCHANGED <<clock, sent, pending, queue, lastSent, cancelled, collector>>

Respond(w) == Accepted(w) \/ Rejected(w) \/ Failed(w)

Worker(w) == Take(w) \/ Exit(w) \/ Post(w) \/ Respond(w) \/ Wake(w) \/ Abort(w)

-----------------------------------------------------------------------------

Init ==
  /\ clock = 0
  /\ sent = << >> /\ pending = << >>
  /\ queue = [w \in Webhooks |-> << >>]
  /\ pc = [w \in Webhooks |-> "idle"]
  /\ current = [w \in Webhooks |-> NoEvent]
  /\ attempt = [w \in Webhooks |-> 0]
  /\ lastSent = [w \in Webhooks |-> << >>]
  /\ cancelled = FALSE /\ collector = "running"
  /\ log = [w \in Webhooks |-> << >>]

\* The level the events sent so far leave k at.
SentLevel(k) ==
  LET i == SelectLastInSeq(sent, LAMBDA ev : ev.key = k)
  IN  IF i = 0 THEN "ok" ELSE sent[i].to

\* The engine's side of a tick: any streams change level, in any order.
Emit ==
  \E t \in (clock + 1)..MaxTime, next \in [Keys -> Levels] :
    LET moved == {k \in Keys : next[k] # SentLevel(k)}
    IN  /\ moved # {}
        /\ clock' = t
        /\ \E order \in SetToSeqs(moved) :
             Notify([i \in DOMAIN order |->
                       Transition(order[i], SentLevel(order[i]), next[order[i]], t)])
        /\ UNCHANGED <<queue, wvars, cancelled, collector, log>>

Collector == Offer \/ BeginStop \/ EndStop

Next == Emit \/ Cancel \/ Collector \/ \E w \in Webhooks : Worker(w)

Spec == Init /\ [][Next]_vars

-----------------------------------------------------------------------------

Indices(s, Test(_)) == {i \in DOMAIN s : Test(s[i])}

\* In how many places the event ev is, on its way to w or at its end.
Copies(w, ev) ==
  Cardinality(Indices(pending, LAMBDA p : p.ev = ev /\ w \in p.to))
  + Cardinality(Indices(queue[w], LAMBDA e : e = ev))
  + (IF current[w] = ev THEN 1 ELSE 0)
  + Cardinality(Indices(log[w], LAMBDA l : l.ev = ev /\ l.what # "received"))

\* No event vanishes or is queued twice (Notify, dispatch, deliver): an event a
\* webhook's filter lets through is at every moment in exactly one place, or
\* has met exactly one end.
Accounted ==
  \A w \in Webhooks, i \in DOMAIN sent :
    EventReaches(sent[i], MinLevel[w]) => Copies(w, sent[i]) = 1

\* Each endpoint sees events in the order they happened, through retries,
\* drops and the rate limit (one queue and one worker per webhook): no older
\* event arrives after a newer one.
InOrder ==
  \A w \in Webhooks :
    LET got == Indices(log[w], LAMBDA l : l.what = "received")
        pos(ev) == SelectInSeq(sent, LAMBDA e : e = ev)
    IN  \A i, j \in got : i < j => pos(log[w][i].ev) <= pos(log[w][j].ev)

\* The rate limiter is exact (dispatch, rateLimited, recordSent): it drops a
\* firing if and only if the same stream had an acknowledged delivery to the
\* same webhook less than MinInterval before it; a recovery is never dropped,
\* and neither a failed delivery nor another stream counts.
LimiterExact ==
  \A w \in Webhooks : \A i \in DOMAIN log[w] :
    LET l == log[w][i]
        recent == \E j \in 1..(i - 1) :
                    /\ log[w][j].what = "confirmed" /\ log[w][j].ev.key = l.ev.key
                    /\ log[w][j].ev # l.ev /\ l.ev.at - log[w][j].ev.at < MinInterval
    IN  /\ l.what = "limited" => l.ev.kind = "fired" /\ recent
        /\ l.what = "received" /\ l.ev.kind = "fired" => ~recent

\* Duplicates are bounded (deliver): an endpoint is sent an event at most
\* MaxRetries + 1 times, and never again once it acknowledged it.
DuplicatesBounded ==
  \A w \in Webhooks : \A i \in DOMAIN log[w] :
    LET same == Indices(log[w], LAMBDA l : l.ev = log[w][i].ev)
    IN  /\ Cardinality({j \in same : log[w][j].what = "received"}) <= MaxRetries + 1
        /\ log[w][i].what = "confirmed" => \A j \in same : j <= i

\* Shutdown is quiet (Start, post, sleepCtx): once the context is done an
\* endpoint gets at most the one request that was in flight; neither the queue
\* nor the retries go on, though workers may still take queued events.
QuietAfterCancel ==
  \A w \in Webhooks : \A i \in DOMAIN log[w] :
    log[w][i].what = "cancelled" =>
      Cardinality({j \in DOMAIN log[w] : j > i /\ log[w][j].what = "received"}) <= 1

\* When Stop has returned no delivery is in flight any more (Stop joins every
\* worker): nothing reaches any endpoint.
NothingAfterStop == [][collector = "stopped" => log' = log]_vars

\* Stop returns (Stop's wg.Wait): a cancelled notifier joins all its workers,
\* even one that is waiting for an endpoint that never answers.
StopReturns == cancelled ~> collector = "stopped"
=============================================================================
