------------------------- MODULE AlertPipeline_proofs -------------------------
(***************************************************************************)
(* Proofs about Notifier, and about AlertPipeline, the engine that feeds   *)
(* it, for any webhooks, streams, queues, retries and endpoints.           *)
(*                                                                         *)
(* Of the notifier, NotifierInv.  LineInv: for each webhook, its history,  *)
(* the event its worker has, its queue and what Notify has still to hand   *)
(* out are one line, in the order the events happened, with every event    *)
(* that reaches the webhook in exactly one place of it.  RetryInv: the     *)
(* attempts made are those that the endpoint may have received.            *)
(* LimiterInv: lastSent is the latest acknowledged delivery that the       *)
(* history tells of.  From it Accounted, InOrder, DuplicatesBounded and    *)
(* LimiterExact follow.                                                    *)
(*                                                                         *)
(* After the cancellation no request starts any more, so that an endpoint  *)
(* gets nothing but what was in flight (QuietInv); and when Stop returns   *)
(* no worker is left, nor anything to hand out (StopInv).                  *)
(*                                                                         *)
(* Of the pipeline, PipelineInv adds that each event starts where the one  *)
(* before it of its stream ended (ChainInv), and the last one ends at the  *)
(* engine's level (LevelInv): a consumer that got the last event agrees    *)
(* with the engine.                                                        *)
(***************************************************************************)
EXTENDS AlertPipeline, FiniteSetTheorems, SequenceTheorems, WellFoundedInduction, TLAPS

\* The values that pc has.
WorkerStates == {"idle", "ready", "inflight", "backoff", "exited"}

IsSequence(s) == \E S : s \in Seq(S)

\* What one step writes to a history, all of one event.
Entries(ev, whats) == [i \in DOMAIN whats |-> [ev |-> ev, what |-> whats[i]]]

Extended(s, ev, whats) == s \o Entries(ev, whats)

\* What can become of one event in one step; and what without a request.
Ends ==
  {<< >>, <<"limited">>, <<"overflow">>, <<"gaveup">>,
   <<"received">>, <<"received", "gaveup">>, <<"received", "confirmed">>}

Silent == {<< >>, <<"limited">>, <<"overflow">>, <<"gaveup">>}

-----------------------------------------------------------------------------
\* Where the events are.

Event == Transitions(Keys, Nat)

\* The events that a sequence holds, and the place of one.
Known(s) == {s[i] : i \in DOMAIN s}

PosIn(s, e) == CHOOSE i \in DOMAIN s : s[i] = e

Distinct(s) == \A i, j \in DOMAIN s : s[i] = s[j] => i = j

\* The events that an endpoint received, and those that met an end, by a history.
Received(l) == {l[i].ev : i \in {j \in DOMAIN l : l[j].what = "received"}}

HasEnded(l, i) == l[i].what \notin {"received", "cancelled"}
Over(l) == {l[i].ev : i \in {j \in DOMAIN l : HasEnded(l, j)}}

\* The events that are still to be handed to w.
Waiting(p, w) == {p[i].ev : i \in {j \in DOMAIN p : w \in p[j].to}}

\* w wants events of this level.
Reached(w, e) == EventReaches(e, MinLevel[w])

\* What each event met, in the order of the events.
LogInv(s, w, l) ==
  /\ IsSequence(l)
  /\ \A i \in DOMAIN l : l[i].what # "cancelled" => l[i].ev \in Known(s) /\ Reached(w, l[i].ev)
  /\ \A i, j \in DOMAIN l : i < j /\ l[i].what = "received" /\ l[j].what = "received" =>
       PosIn(s, l[i].ev) <= PosIn(s, l[j].ev)
  /\ \A i, j \in DOMAIN l : HasEnded(l, i) /\ HasEnded(l, j) /\ l[i].ev = l[j].ev => i = j
  /\ \A i, j \in DOMAIN l : HasEnded(l, i) /\ l[j].what = "received" /\ l[i].ev = l[j].ev => j < i
  /\ \A i \in DOMAIN l : l[i].what = "confirmed" => l[i].ev \in Received(l)
  /\ \A i \in DOMAIN l : l[i].what = "cancelled" => l[i].ev = NoEvent

\* The line of w: the history, what is being delivered, the queue and what is still to
\* be enqueued, in the order of the events.
Line(s, w, wt, q, c, l) ==
  /\ LogInv(s, w, l)
  /\ wt \subseteq Known(s) /\ q \in Seq(Known(s)) /\ c \in Known(s) \union {NoEvent}
  /\ \A e \in wt \union Known(q) : Reached(w, e)
  /\ c # NoEvent => Reached(w, c)
  /\ \A i, j \in DOMAIN q : i < j => PosIn(s, q[i]) < PosIn(s, q[j])
  /\ \A e \in Known(q), f \in wt : PosIn(s, e) < PosIn(s, f)
  /\ c # NoEvent => \A f \in Known(q) \union wt : PosIn(s, c) < PosIn(s, f)
  /\ \A e \in Received(l) : /\ \A f \in Known(q) \union wt : PosIn(s, e) < PosIn(s, f)
                            /\ c # NoEvent => PosIn(s, e) <= PosIn(s, c)
  /\ Over(l) \intersect (wt \union Known(q) \union {c}) = {}
  /\ \A e \in Known(s) : Reached(w, e) => e \in wt \union Known(q) \union {c} \union Over(l)

\* The events of Notify calls.
SentInv ==
  /\ clock \in Nat /\ sent \in Seq(Event)
  /\ \A i \in DOMAIN sent : sent[i].at <= clock
  /\ \A i, j \in DOMAIN sent : i < j => sent[i].at <= sent[j].at
  /\ \A i, j \in DOMAIN sent : sent[i].key = sent[j].key /\ sent[i].at = sent[j].at => i = j

\* What the running Notify call still has to hand out, in order.
HandingOut(s, p) ==
  /\ p \in Seq([ev: Known(s), to: SUBSET Webhooks])
  /\ \A i, j \in DOMAIN p : i < j => PosIn(s, p[i].ev) < PosIn(s, p[j].ev)

\* Every webhook has its line, and its worker an event while it delivers.
LineInv ==
  /\ SentInv /\ HandingOut(sent, pending)
  /\ queue = [w \in Webhooks |-> queue[w]] /\ log = [w \in Webhooks |-> log[w]]
  /\ current = [w \in Webhooks |-> current[w]]
  /\ pc \in [Webhooks -> WorkerStates]
  /\ \A w \in Webhooks : /\ Line(sent, w, Waiting(pending, w), queue[w], current[w], log[w])
                         /\ pc[w] \in {"ready", "inflight", "backoff"} <=> current[w] # NoEvent

\* The requests made of the event in hand; how often an endpoint received an event.
Made(w) == IF pc[w] = "backoff" THEN attempt[w] + 1 ELSE attempt[w]
Count(l, e) == Cardinality({i \in DOMAIN l : l[i].ev = e /\ l[i].what = "received"})

\* Nothing is received more often than it was tried.
Retried(w) ==
  /\ attempt[w] \in 0..MaxRetries
  /\ pc[w] = "backoff" => attempt[w] < MaxRetries
  /\ pc[w] \in {"idle", "exited"} => attempt[w] = 0
  /\ \A e \in Event : Count(log[w], e) <= IF e = current[w] THEN Made(w) ELSE MaxRetries + 1
RetryInv == \A w \in Webhooks : Retried(w)

\* lastSent is what the history says: the latest acknowledged delivery of each stream.
Limited(w) ==
  /\ \A k \in DOMAIN lastSent[w] :
       \E j \in DOMAIN log[w] : /\ log[w][j].what = "confirmed" /\ log[w][j].ev.key = k
                                /\ log[w][j].ev.at = lastSent[w][k]
  /\ MinInterval > 0 => \A j \in DOMAIN log[w] : log[w][j].what = "confirmed" =>
       /\ log[w][j].ev.key \in DOMAIN lastSent[w]
       /\ log[w][j].ev.at <= lastSent[w][log[w][j].ev.key]
  /\ current[w] # NoEvent /\ current[w].kind = "fired" => ~RateLimited(w, current[w])
LimiterInv == \A w \in Webhooks : Limited(w)

\* The next event of the same stream.
Follows(s, i, j) ==
  i < j /\ s[i].key = s[j].key /\ \A m \in DOMAIN s : i < m /\ m < j => s[m].key # s[i].key

\* Each event starts where the one before it ended.
ChainInv ==
  /\ \A i \in DOMAIN sent : sent[i].kind = Kind(sent[i].from, sent[i].to) /\ sent[i].from # sent[i].to
  /\ \A i, j \in DOMAIN sent : Follows(sent, i, j) => sent[j].from = sent[i].to

\* The engine's levels are those that the events tell of.
LevelInv == level = [k \in Keys |-> SentLevel(k)]

-----------------------------------------------------------------------------
\* Sequences.

\* A sequence is a function on 1..Len, and a sequence of what it holds.
LEMMA SeqFacts ==
  ASSUME NEW S, NEW s \in Seq(S)
  PROVE  /\ Len(s) \in Nat /\ DOMAIN s = 1..Len(s) /\ \A i \in DOMAIN s : s[i] \in S
         /\ Known(s) \subseteq S /\ s \in Seq(Known(s))
BY DEF Known

\* The head of a sequence, and what follows it.
LEMMA TailFacts ==
  ASSUME NEW S, NEW s \in Seq(S), s # << >>
  PROVE  /\ Tail(s) \in Seq(S) /\ DOMAIN Tail(s) = 1..(Len(s) - 1) /\ Len(s) \in Nat \ {0}
         /\ \A i \in DOMAIN Tail(s) : Tail(s)[i] = s[i + 1]
         /\ Head(s) = s[1] /\ 1 \in DOMAIN s /\ DOMAIN s = 1..Len(s)
         /\ Known(s) = Known(Tail(s)) \union {Head(s)}
<1>1. /\ Tail(s) \in Seq(S) /\ DOMAIN Tail(s) = 1..(Len(s) - 1) /\ Len(s) \in Nat \ {0}
      /\ \A i \in DOMAIN Tail(s) : Tail(s)[i] = s[i + 1]
      /\ Head(s) = s[1] /\ 1 \in DOMAIN s /\ DOMAIN s = 1..Len(s)
  BY HeadTailProperties, EmptySeq
<1>2. \A i \in DOMAIN s : i = 1 \/ (i - 1 \in DOMAIN Tail(s) /\ s[i] = Tail(s)[i - 1])
  BY <1>1
<1> DEFINE t == Tail(s)
           h == Head(s)
<1>3. /\ \A i \in DOMAIN t : t[i] = s[i + 1] /\ i + 1 \in DOMAIN s
      /\ h = s[1] /\ 1 \in DOMAIN s
      /\ \A i \in DOMAIN s : i = 1 \/ (i - 1 \in DOMAIN t /\ s[i] = t[i - 1])
  BY <1>1, <1>2
<1> HIDE DEF t, h
<1>4. Known(s) = Known(t) \union {h}
  BY <1>3 DEF Known
<1> QED
  BY <1>1, <1>4 DEF t, h

\* What Append adds.
LEMMA AppendFacts ==
  ASSUME NEW S, NEW s \in Seq(S), NEW e \in S
  PROVE  /\ Append(s, e) \in Seq(S) /\ Len(s) \in Nat /\ DOMAIN s = 1..Len(s)
         /\ DOMAIN Append(s, e) = 1..(Len(s) + 1) /\ Append(s, e)[Len(s) + 1] = e
         /\ \A i \in DOMAIN s : Append(s, e)[i] = s[i]
         /\ Known(Append(s, e)) = Known(s) \union {e}
<1> DEFINE t == Append(s, e)
<1>1. /\ t \in Seq(S) /\ Len(s) \in Nat /\ DOMAIN s = 1..Len(s)
      /\ DOMAIN t = 1..(Len(s) + 1) /\ t[Len(s) + 1] = e
      /\ \A i \in DOMAIN s : t[i] = s[i]
  BY AppendProperties
<1> HIDE DEF t
<1>2. Known(t) = Known(s) \union {e}
  <2>1. \A i \in DOMAIN t : i \in DOMAIN s \/ i = Len(s) + 1
    BY <1>1
  <2>2. DOMAIN s \subseteq DOMAIN t /\ Len(s) + 1 \in DOMAIN t
    BY <1>1
  <2> QED
    BY <1>1, <2>1, <2>2 DEF Known
<1> QED
  BY <1>1, <1>2 DEF t

\* The place of an event among distinct ones.
LEMMA PosFacts ==
  ASSUME NEW s, Distinct(s)
  PROVE  /\ \A i \in DOMAIN s : PosIn(s, s[i]) = i
         /\ \A e \in Known(s) : PosIn(s, e) \in DOMAIN s /\ s[PosIn(s, e)] = e
<1>1. ASSUME NEW i \in DOMAIN s PROVE PosIn(s, s[i]) = i
  BY DEF PosIn, Distinct
<1> QED
  BY <1>1 DEF Known

\* The fields of an event; NoEvent is none.
LEMMA EventsAreEvents ==
  ASSUME NEW e \in Event
  PROVE  e # NoEvent /\ e.key \in Keys /\ e.at \in Nat /\ e.kind \in {"fired", "cleared"}
         /\ e.from \in Levels /\ e.to \in Levels
BY DEF Event, NoEvent, Transitions

\* What is written to a history comes after what it held.
LEMMA Grown ==
  ASSUME NEW s, IsSequence(s), NEW ev, NEW whats \in Ends, NEW t, t = Extended(s, ev, whats)
  PROVE  /\ IsSequence(t) /\ Len(s) \in Nat /\ DOMAIN s = 1..Len(s)
         /\ DOMAIN t = 1..(Len(s) + Len(whats)) /\ Len(whats) \in Nat
         /\ \A i \in DOMAIN s : t[i] = s[i]
         /\ \A i \in 1..Len(whats) : t[Len(s) + i].ev = ev /\ t[Len(s) + i].what = whats[i]
<1>1. PICK S : s \in Seq(S)
  BY DEF IsSequence
<1>2. DOMAIN whats = 1..Len(whats) /\ Len(whats) \in Nat
  BY DEF Ends
<1> DEFINE e == Entries(ev, whats)
           U == S \union {e[i] : i \in DOMAIN whats}
<1>3. e \in [1..Len(whats) -> U] /\ \A i \in 1..Len(whats) : e[i].ev = ev /\ e[i].what = whats[i]
  BY <1>2 DEF Entries
<1> HIDE DEF e
<1>4. s \in Seq(U)
  BY <1>1
<1>5. e \in Seq(U) /\ Len(e) = Len(whats)
  BY <1>2, <1>3
<1> HIDE DEF U
<1>6. /\ s \o e \in Seq(U) /\ Len(s \o e) = Len(s) + Len(e)
      /\ \A i \in 1..Len(s) : (s \o e)[i] = s[i]
      /\ \A i \in 1..Len(e) : (s \o e)[Len(s) + i] = e[i]
  <2>1. /\ s \o e \in Seq(U) /\ Len(s \o e) = Len(s) + Len(e)
        /\ \A i \in 1..Len(s) + Len(e) :
             (s \o e)[i] = IF i <= Len(s) THEN s[i] ELSE e[i - Len(s)]
    BY <1>4, <1>5, ConcatProperties
  <2>2. Len(s) \in Nat /\ Len(e) \in Nat
    BY <1>4, <1>5
  <2>3. ASSUME NEW i \in 1..Len(s) PROVE (s \o e)[i] = s[i]
    <3>1. i \in 1..Len(s) + Len(e) /\ i <= Len(s)
      BY <2>2
    <3> QED
      BY <2>1, <3>1
  <2>4. ASSUME NEW i \in 1..Len(e) PROVE (s \o e)[Len(s) + i] = e[i]
    <3>1. Len(s) + i \in 1..Len(s) + Len(e) /\ ~(Len(s) + i <= Len(s)) /\ (Len(s) + i) - Len(s) = i
      BY <2>2
    <3> QED
      BY <2>1, <3>1
  <2> QED
    BY <2>1, <2>3, <2>4
<1>7. Len(s) \in Nat /\ DOMAIN s = 1..Len(s)
  BY <1>4
<1> QED
  BY <1>2, <1>3, <1>5, <1>6, <1>7 DEF IsSequence, Extended, e

\* What ends an event.
Final == Ends \ {<< >>, <<"received">>}

\* What an event meets in a step: received first, if at all, and then one end, or none.
LEMMA EndsFacts ==
  ASSUME NEW whats \in Ends
  PROVE  /\ Len(whats) \in 0..2
         /\ \A i \in 1..Len(whats) : /\ whats[i] # "cancelled"
                                     /\ whats[i] = "received" => i = 1 /\ whats \notin Silent
                                     /\ whats[i] # "received" => whats \in Final /\ i = Len(whats)
                                     /\ whats[i] = "confirmed" => whats[1] = "received"
         /\ whats \notin Silent => 1 \in 1..Len(whats) /\ whats[1] = "received"
         /\ whats \in Final => Len(whats) \in 1..Len(whats) /\ whats[Len(whats)] # "received"
<1>1. CASE whats = << >>
  <2>1. Len(whats) = 0 /\ whats \in Silent /\ whats \notin Final
    BY <1>1 DEF Silent, Final
  <2> QED
    BY <2>1
<1>2. CASE whats \in {<<"limited">>, <<"overflow">>, <<"gaveup">>}
  <2>1. /\ Len(whats) = 1 /\ whats \in Silent /\ whats[1] \notin {"received", "cancelled", "confirmed"}
    BY <1>2 DEF Silent
  <2>2. whats # << >> /\ whats # <<"received">>
    BY <2>1
  <2> QED
    BY <2>1, <2>2 DEF Final
<1>3. CASE whats = <<"received">>
  <2>1. Len(whats) = 1 /\ whats[1] = "received"
    BY <1>3
  <2>2. whats \notin Silent
    BY <2>1 DEF Silent
  <2>3. whats \notin Final
    BY <1>3 DEF Final
  <2> QED
    BY <2>1, <2>2, <2>3
<1>4. CASE whats \in {<<"received", "gaveup">>, <<"received", "confirmed">>}
  <2>1. Len(whats) = 2 /\ whats[1] = "received" /\ whats[2] \notin {"received", "cancelled"}
    BY <1>4
  <2>2. whats \notin Silent
    BY <2>1 DEF Silent
  <2>3. whats # << >> /\ whats # <<"received">>
    BY <2>1
  <2> QED
    BY <2>1, <2>2, <2>3 DEF Final
<1> QED
  BY <1>1, <1>2, <1>3, <1>4 DEF Ends

\* What becomes of one event, written to the history of a webhook.
LEMMA LogGrows ==
  ASSUME NEW s, NEW w, NEW l, LogInv(s, w, l), NEW e \in Known(s), Reached(w, e),
         e \notin Over(l), NEW whats \in Ends,
         whats \notin Silent => \A f \in Received(l) : PosIn(s, f) <= PosIn(s, e),
         PosIn(s, e) \in Nat
  PROVE  LET t == Extended(l, e, whats)
         IN  /\ LogInv(s, w, t)
             /\ Over(t) = Over(l) \union (IF whats \in Final THEN {e} ELSE {})
             /\ Received(t) = Received(l) \union (IF whats \in Silent THEN {} ELSE {e})
<1> DEFINE t == Extended(l, e, whats)
           n == Len(l)
           m == Len(whats)
<1>0. t = Extended(l, e, whats) /\ IsSequence(l)
  BY DEF LogInv
<1>1. /\ n \in Nat /\ DOMAIN l = 1..n /\ m \in 0..2
      /\ DOMAIN t = 1..(n + m) /\ IsSequence(t)
      /\ \A i \in DOMAIN l : t[i] = l[i]
      /\ \A i \in 1..m : t[n + i].ev = e /\ t[n + i].what = whats[i]
  BY <1>0, Grown, EndsFacts
<1> HIDE DEF t, n, m
\* An entry is an old one, or one of the new.
<1>2. \A i \in DOMAIN t : i \in DOMAIN l \/ (i \notin DOMAIN l /\ i - n \in 1..m /\ i = n + (i - n))
  BY <1>1
<1>3. ASSUME NEW i \in DOMAIN t, i \notin DOMAIN l
      PROVE  /\ t[i].ev = e /\ t[i].what # "cancelled"
             /\ t[i].what = "received" => i = n + 1 /\ whats \notin Silent
             /\ t[i].what # "received" => whats \in Final /\ i = n + m
             /\ t[i].what = "confirmed" => n + 1 \in DOMAIN t /\ t[n + 1].what = "received" /\ t[n + 1].ev = e
  <2>1. i - n \in 1..m /\ i = n + (i - n)
    BY <1>2, <1>3
  <2> DEFINE k == i - n
  <2>2. k \in 1..m /\ i = n + k
    BY <2>1
  <2> HIDE DEF k
  <2>3. t[i].ev = e /\ t[i].what = whats[k] /\ 1 \in 1..m /\ n + 1 \in DOMAIN t
    BY <1>1, <2>2
  <2>4. /\ whats[k] # "cancelled"
        /\ whats[k] = "received" => k = 1 /\ whats \notin Silent
        /\ whats[k] # "received" => whats \in Final /\ k = m
        /\ whats[k] = "confirmed" => whats[1] = "received"
    BY <2>2, EndsFacts DEF m
  <2> QED
    BY <1>1, <2>2, <2>3, <2>4
<1>4. whats \notin Silent => n + 1 \in DOMAIN t /\ t[n + 1].what = "received" /\ t[n + 1].ev = e
  BY <1>1, EndsFacts DEF m
<1>5. whats \in Final => n + m \in DOMAIN t /\ HasEnded(t, n + m) /\ t[n + m].ev = e
  <2>1. whats \in Final => m \in 1..m /\ whats[m] # "received" /\ whats[m] # "cancelled"
    BY EndsFacts DEF m
  <2> QED
    BY <1>1, <2>1 DEF HasEnded
<1>6. Received(t) = Received(l) \union (IF whats \in Silent THEN {} ELSE {e})
  <2>1. Received(t) \subseteq Received(l) \union (IF whats \in Silent THEN {} ELSE {e})
    BY <1>1, <1>3 DEF Received
  <2>2. DOMAIN l \subseteq DOMAIN t
    BY <1>1
  <2>3. Received(l) \subseteq Received(t)
    BY <1>1, <2>2 DEF Received
  <2>4. whats \notin Silent => e \in Received(t)
    BY <1>4 DEF Received
  <2> QED
    BY <2>1, <2>3, <2>4
<1>7. Over(t) = Over(l) \union (IF whats \in Final THEN {e} ELSE {})
  <2>1. Over(t) \subseteq Over(l) \union (IF whats \in Final THEN {e} ELSE {})
    BY <1>1, <1>3 DEF Over, HasEnded
  <2>2. DOMAIN l \subseteq DOMAIN t
    BY <1>1
  <2>3. Over(l) \subseteq Over(t)
    BY <1>1, <2>2 DEF Over, HasEnded
  <2>4. whats \in Final => e \in Over(t)
    BY <1>5 DEF Over
  <2> QED
    BY <2>1, <2>3, <2>4
<1>8. LogInv(s, w, t)
  <2>1. \A i \in DOMAIN t : t[i].what # "cancelled" => t[i].ev \in Known(s) /\ Reached(w, t[i].ev)
    BY <1>1, <1>3 DEF LogInv
  <2>2. ASSUME NEW i \in DOMAIN t, NEW j \in DOMAIN t, i < j,
               t[i].what = "received", t[j].what = "received"
        PROVE  PosIn(s, t[i].ev) <= PosIn(s, t[j].ev)
    <3>1. CASE j \in DOMAIN l
      <4>1. i \in DOMAIN l
        BY <1>1, <2>2, <3>1
      <4> QED
        BY <1>1, <2>2, <3>1, <4>1 DEF LogInv
    <3>2. CASE j \notin DOMAIN l
      <4>1. j = n + 1 /\ t[j].ev = e /\ whats \notin Silent
        BY <1>3, <2>2, <3>2
      <4>2. i \in DOMAIN l
        BY <1>1, <2>2, <4>1
      <4>3. t[i].ev \in Received(l)
        BY <1>1, <2>2, <4>2 DEF Received
      <4> QED
        BY <4>1, <4>3
    <3> QED
      BY <3>1, <3>2
  <2>3. ASSUME NEW i \in DOMAIN t, NEW j \in DOMAIN t, HasEnded(t, i), HasEnded(t, j), t[i].ev = t[j].ev
        PROVE  i = j
    <3>1. ASSUME NEW a \in DOMAIN t, NEW b \in DOMAIN t, HasEnded(t, a), HasEnded(t, b), t[a].ev = t[b].ev,
                 a \notin DOMAIN l
          PROVE  a = b
      <4>1. t[a].ev = e /\ a = n + m
        BY <1>3, <3>1 DEF HasEnded
      <4>2. ASSUME b \in DOMAIN l PROVE FALSE
        <5>1. t[b] = l[b] /\ l[b].ev = e
          BY <1>1, <3>1, <4>1, <4>2
        <5>2. HasEnded(l, b)
          BY <3>1, <5>1 DEF HasEnded
        <5>3. e \in Over(l)
          BY <4>2, <5>1, <5>2 DEF Over
        <5> QED
          BY <5>3
      <4> QED
        BY <1>3, <3>1, <4>1, <4>2 DEF HasEnded
    <3>2. CASE i \in DOMAIN l /\ j \in DOMAIN l
      BY <1>1, <2>3, <3>2 DEF LogInv, HasEnded
    <3> QED
      BY <2>3, <3>1, <3>2
  <2>4. ASSUME NEW i \in DOMAIN t, NEW j \in DOMAIN t, HasEnded(t, i), t[j].what = "received", t[i].ev = t[j].ev
        PROVE  j < i
    <3>1. CASE i \in DOMAIN l
      <4>1. t[i].ev \in Over(l)
        BY <1>1, <2>4, <3>1 DEF Over, HasEnded
      <4>2. j \in DOMAIN l
        BY <1>3, <2>4, <4>1
      <4> QED
        BY <1>1, <2>4, <3>1, <4>2 DEF LogInv, HasEnded
    <3>2. CASE i \notin DOMAIN l
      <4>1. i = n + m /\ i \in (n + 1)..(n + m) /\ i # j
        BY <1>1, <1>3, <2>4, <3>2 DEF HasEnded
      <4> QED
        BY <1>1, <4>1
    <3> QED
      BY <3>1, <3>2
  <2>5. \A i \in DOMAIN t : t[i].what = "confirmed" => t[i].ev \in Received(t)
    <3>1. \A i \in DOMAIN l : t[i].what = "confirmed" => t[i].ev \in Received(t)
      BY <1>1, <1>6 DEF LogInv
    <3>2. \A i \in DOMAIN t : i \notin DOMAIN l /\ t[i].what = "confirmed" => t[i].ev \in Received(t)
      BY <1>3 DEF Received
    <3> QED
      BY <3>1, <3>2
  <2>6. \A i \in DOMAIN t : t[i].what = "cancelled" => t[i].ev = NoEvent
    BY <1>1, <1>3 DEF LogInv
  <2> QED
    BY <1>1, <2>1, <2>2, <2>3, <2>4, <2>5, <2>6 DEF LogInv
<1> QED
  BY <1>6, <1>7, <1>8 DEF t

-----------------------------------------------------------------------------
\* The line of a webhook.

\* What Notify was given: no event twice.
Story(s) == s \in Seq(Event) /\ Distinct(s)

\* The place of an event in the story is one of its indices.
LEMMA KnownFacts ==
  ASSUME NEW s, Story(s), NEW e \in Known(s)
  PROVE  e \in Event /\ e # NoEvent /\ PosIn(s, e) \in Nat \ {0} /\ PosIn(s, e) \in DOMAIN s
         /\ s[PosIn(s, e)] = e
<1>1. e \in Event /\ DOMAIN s = 1..Len(s) /\ Len(s) \in Nat
  BY SeqFacts DEF Story
<1>2. PosIn(s, e) \in DOMAIN s /\ s[PosIn(s, e)] = e
  BY PosFacts DEF Story
<1> QED
  BY <1>1, <1>2, EventsAreEvents

\* Two events at one place are one.
LEMMA PosIsOne ==
  ASSUME NEW s, Story(s), NEW e \in Known(s), NEW f \in Known(s), PosIn(s, e) = PosIn(s, f)
  PROVE  e = f
BY KnownFacts

\* The next event is put into the queue.
LEMMA LineEnqueue ==
  ASSUME NEW s, Story(s), NEW w, NEW wt, NEW q, NEW c, NEW l, Line(s, w, wt, q, c, l),
         NEW e \in wt, \A f \in wt \ {e} : PosIn(s, e) < PosIn(s, f)
  PROVE  Line(s, w, wt \ {e}, Append(q, e), c, l)
<1> DEFINE t == Append(q, e)
           n == Len(q)
<1>1. e \in Known(s) /\ q \in Seq(Known(s))
  BY DEF Line
<1>2. /\ t \in Seq(Known(s)) /\ n \in Nat /\ DOMAIN q = 1..n
      /\ DOMAIN t = 1..(n + 1) /\ t[n + 1] = e
      /\ \A i \in DOMAIN q : t[i] = q[i]
      /\ Known(t) = Known(q) \union {e}
  BY <1>1, AppendFacts
<1> HIDE DEF t, n
<1>3. \A i, j \in DOMAIN t : i < j => PosIn(s, t[i]) < PosIn(s, t[j])
  <2> SUFFICES ASSUME NEW i \in DOMAIN t, NEW j \in DOMAIN t, i < j
               PROVE  PosIn(s, t[i]) < PosIn(s, t[j])
    OBVIOUS
  <2>1. i \in DOMAIN q /\ (j \in DOMAIN q \/ j = n + 1)
    BY <1>2
  <2>2. q[i] \in Known(q)
    BY <2>1 DEF Known
  <2> QED
    BY <1>2, <2>1, <2>2 DEF Line
<1>4. \A a \in Known(t), f \in wt \ {e} : PosIn(s, a) < PosIn(s, f)
  BY <1>2 DEF Line
<1>5. Known(t) \union (wt \ {e}) = Known(q) \union wt
  BY <1>2
<1> QED
  BY <1>2, <1>3, <1>4, <1>5 DEF Line, t

\* An event that is dropped: from what is waiting, or from the head of the queue.
LEMMA LineOverflow ==
  ASSUME NEW s, Story(s), NEW w, NEW wt, NEW q, NEW c, NEW l, Line(s, w, wt, q, c, l),
         NEW e \in wt, NEW whats \in Ends, whats \in Silent, whats \in Final
  PROVE  Line(s, w, wt \ {e}, q, c, Extended(l, e, whats))
<1> DEFINE t == Extended(l, e, whats)
<1>1. e \in Known(s) /\ Reached(w, e) /\ e \notin Over(l) /\ LogInv(s, w, l) /\ PosIn(s, e) \in Nat
  BY KnownFacts DEF Line
<1>10. t = Extended(l, e, whats)
  OBVIOUS
<1> HIDE DEF t
<1>2. LogInv(s, w, t) /\ Over(t) = Over(l) \union {e} /\ Received(t) = Received(l)
  <2>1. /\ LogInv(s, w, t)
        /\ Over(t) = Over(l) \union (IF whats \in Final THEN {e} ELSE {})
        /\ Received(t) = Received(l) \union (IF whats \in Silent THEN {} ELSE {e})
    BY <1>1, <1>10, LogGrows
  <2> QED
    BY <2>1
<1>3. e # c /\ e \notin Known(q)
  <2>1. c # NoEvent => PosIn(s, c) < PosIn(s, e)
    BY DEF Line
  <2>2. e \in Known(q) => PosIn(s, e) < PosIn(s, e)
    BY DEF Line
  <2> QED
    BY <1>1, <2>1, <2>2, KnownFacts
<1> QED
  BY <1>2, <1>3 DEF Line, t

\* The head of a queue, and what is left.
LEMMA LineHead ==
  ASSUME NEW s, Story(s), NEW w, NEW wt, NEW q, NEW c, NEW l, Line(s, w, wt, q, c, l), q # << >>
  PROVE  /\ Head(q) \in Known(s) /\ Head(q) \in Known(q) /\ Tail(q) \in Seq(Known(s))
         /\ Known(q) = Known(Tail(q)) \union {Head(q)}
         /\ \A f \in Known(Tail(q)) \union wt : PosIn(s, Head(q)) < PosIn(s, f)
         /\ \A i, j \in DOMAIN Tail(q) : i < j => PosIn(s, Tail(q)[i]) < PosIn(s, Tail(q)[j])
         /\ Head(q) \notin Known(Tail(q)) \union wt
<1> DEFINE t == Tail(q)
           h == Head(q)
           n == Len(q)
<1>1. q \in Seq(Known(s))
  BY DEF Line
<1>2. /\ t \in Seq(Known(s)) /\ DOMAIN t = 1..(n - 1) /\ n \in Nat \ {0}
      /\ \A i \in DOMAIN t : t[i] = q[i + 1]
      /\ h = q[1] /\ 1 \in DOMAIN q /\ DOMAIN q = 1..n
      /\ Known(q) = Known(t) \union {h}
  BY <1>1, TailFacts
<1> HIDE DEF t, h, n
<1>3. h \in Known(s) /\ h \in Known(q)
  BY <1>1, <1>2, SeqFacts
<1>4. \A i, j \in DOMAIN t : i < j => PosIn(s, t[i]) < PosIn(s, t[j])
  <2> SUFFICES ASSUME NEW i \in DOMAIN t, NEW j \in DOMAIN t, i < j
               PROVE  PosIn(s, t[i]) < PosIn(s, t[j])
    OBVIOUS
  <2>1. i + 1 \in DOMAIN q /\ j + 1 \in DOMAIN q /\ i + 1 < j + 1
    BY <1>2
  <2> QED
    BY <1>2, <2>1 DEF Line
<1>5. \A f \in Known(t) : PosIn(s, h) < PosIn(s, f)
  <2> SUFFICES ASSUME NEW i \in DOMAIN t PROVE PosIn(s, h) < PosIn(s, t[i])
    BY DEF Known
  <2>1. i + 1 \in DOMAIN q /\ 1 < i + 1
    BY <1>2
  <2> QED
    BY <1>2, <2>1 DEF Line
<1>6. \A f \in wt : PosIn(s, h) < PosIn(s, f)
  BY <1>3 DEF Line
<1>7. h \notin Known(t) \union wt
  BY <1>3, <1>5, <1>6, KnownFacts
<1> QED
  BY <1>2, <1>3, <1>4, <1>5, <1>6, <1>7 DEF t, h

\* The head of the queue ends at once: it comes too soon, or has nowhere to go.
LEMMA LineDrop ==
  ASSUME NEW s, Story(s), NEW w, NEW wt, NEW q, NEW l, Line(s, w, wt, q, NoEvent, l),
         q # << >>, NEW whats \in Ends, whats \in Silent, whats \in Final
  PROVE  Line(s, w, wt, Tail(q), NoEvent, Extended(l, Head(q), whats))
<1> DEFINE h == Head(q)
           r == Tail(q)
           t == Extended(l, h, whats)
<1>1. /\ h \in Known(s) /\ h \in Known(q) /\ r \in Seq(Known(s))
      /\ Known(q) = Known(r) \union {h}
      /\ \A i, j \in DOMAIN r : i < j => PosIn(s, r[i]) < PosIn(s, r[j])
      /\ h \notin Known(r) \union wt
  BY LineHead
<1>10. t = Extended(l, h, whats)
  OBVIOUS
<1> HIDE DEF h, r, t
<1>2. Reached(w, h) /\ h \notin Over(l) /\ LogInv(s, w, l) /\ PosIn(s, h) \in Nat /\ h # NoEvent
  BY <1>1, KnownFacts DEF Line
<1>3. LogInv(s, w, t) /\ Over(t) = Over(l) \union {h} /\ Received(t) = Received(l)
  <2>1. /\ LogInv(s, w, t)
        /\ Over(t) = Over(l) \union (IF whats \in Final THEN {h} ELSE {})
        /\ Received(t) = Received(l) \union (IF whats \in Silent THEN {} ELSE {h})
    BY <1>1, <1>2, <1>10, LogGrows
  <2> QED
    BY <2>1
<1> QED
  BY <1>1, <1>2, <1>3 DEF Line, t, r, h

\* The worker takes the head of the queue.
LEMMA LineTake ==
  ASSUME NEW s, Story(s), NEW w, NEW wt, NEW q, NEW l, Line(s, w, wt, q, NoEvent, l), q # << >>
  PROVE  Line(s, w, wt, Tail(q), Head(q), l) /\ Head(q) # NoEvent /\ Head(q) \notin Received(l)
<1> DEFINE h == Head(q)
           r == Tail(q)
<1>1. /\ h \in Known(s) /\ h \in Known(q) /\ r \in Seq(Known(s))
      /\ Known(q) = Known(r) \union {h}
      /\ \A f \in Known(r) \union wt : PosIn(s, h) < PosIn(s, f)
      /\ \A i, j \in DOMAIN r : i < j => PosIn(s, r[i]) < PosIn(s, r[j])
      /\ h \notin Known(r) \union wt
  BY LineHead
<1> HIDE DEF h, r
<1>2. Reached(w, h) /\ h \notin Over(l) /\ PosIn(s, h) \in Nat /\ h # NoEvent
  BY <1>1, KnownFacts DEF Line
<1>3. \A e \in Received(l) : PosIn(s, e) < PosIn(s, h) /\ e \in Known(s)
  BY <1>1 DEF Line, LogInv, Received
<1>4. \A e \in Received(l) : PosIn(s, e) <= PosIn(s, h)
  BY <1>2, <1>3, KnownFacts
<1>5. h \notin Received(l)
  BY <1>2, <1>3
<1>6. /\ Over(l) \intersect (wt \union Known(r) \union {h}) = {}
      /\ \A e \in Known(s) : Reached(w, e) => e \in wt \union Known(r) \union {h} \union Over(l)
  <2>1. NoEvent \notin Known(s)
    BY KnownFacts
  <2> QED
    BY <1>1, <2>1 DEF Line
<1>7. Line(s, w, wt, r, h, l)
  BY <1>1, <1>2, <1>4, <1>6 DEF Line
<1> QED
  BY <1>2, <1>5, <1>7 DEF h, r

\* What becomes of the event being delivered.
LEMMA LineTries ==
  ASSUME NEW s, Story(s), NEW w, NEW wt, NEW q, NEW c, NEW l, Line(s, w, wt, q, c, l),
         c # NoEvent, NEW whats \in Ends
  PROVE  Line(s, w, wt, q, IF whats \in Final THEN NoEvent ELSE c, Extended(l, c, whats))
<1> DEFINE t == Extended(l, c, whats)
<1>1. c \in Known(s) /\ Reached(w, c) /\ c \notin Over(l) /\ LogInv(s, w, l) /\ PosIn(s, c) \in Nat
  BY KnownFacts DEF Line
<1>2. \A f \in Received(l) : PosIn(s, f) <= PosIn(s, c)
  BY DEF Line
<1>3. /\ LogInv(s, w, t)
      /\ Over(t) = Over(l) \union (IF whats \in Final THEN {c} ELSE {})
      /\ Received(t) = Received(l) \union (IF whats \in Silent THEN {} ELSE {c})
  BY <1>1, <1>2, LogGrows
<1> HIDE DEF t
<1>4. c \notin Known(q) \union wt
  BY <1>1 DEF Line
<1>5. \A e \in Received(t) : \A f \in Known(q) \union wt : PosIn(s, e) < PosIn(s, f)
  BY <1>3 DEF Line
<1>6. NoEvent \notin Known(s) /\ Known(q) \subseteq Known(s)
  BY KnownFacts, SeqFacts DEF Line
<1>7. ASSUME whats \in Final PROVE Line(s, w, wt, q, NoEvent, t)
  <2>1. Over(l) \subseteq Known(s)
    BY DEF Line, LogInv, Over, HasEnded
  <2>2. Over(t) \intersect (wt \union Known(q) \union {NoEvent}) = {}
    BY <1>1, <1>3, <1>4, <1>6, <1>7, <2>1 DEF Line
  <2>3. \A e \in Known(s) : Reached(w, e) => e \in wt \union Known(q) \union {NoEvent} \union Over(t)
    BY <1>3, <1>7 DEF Line
  <2> QED
    BY <1>3, <1>5, <2>2, <2>3 DEF Line
<1>8. ASSUME whats \notin Final PROVE Line(s, w, wt, q, c, t)
  <2>1. \A e \in Received(t) : PosIn(s, e) <= PosIn(s, c)
    BY <1>1, <1>2, <1>3
  <2> QED
    BY <1>1, <1>3, <1>5, <1>8, <2>1 DEF Line
<1> QED
  BY <1>7, <1>8 DEF t

\* The cancellation is of no event.
LEMMA LineCancel ==
  ASSUME NEW s, NEW w, NEW wt, NEW q, NEW c, NEW l, Line(s, w, wt, q, c, l),
         NEW mark, mark.what = "cancelled", mark.ev = NoEvent
  PROVE  Line(s, w, wt, q, c, Append(l, mark))
<1> DEFINE t == Append(l, mark)
           n == Len(l)
<1>1. PICK S : l \in Seq(S)
  BY DEF Line, LogInv, IsSequence
<1>2. l \in Seq(S \union {mark})
  BY <1>1
<1>3. /\ t \in Seq(S \union {mark}) /\ n \in Nat /\ DOMAIN l = 1..n
      /\ DOMAIN t = 1..(n + 1) /\ t[n + 1] = mark
      /\ \A i \in DOMAIN l : t[i] = l[i]
  BY <1>2, AppendFacts
<1> HIDE DEF t, n
<1>4. \A i \in DOMAIN t : i \in DOMAIN l \/ (t[i].what = "cancelled" /\ t[i].ev = NoEvent)
  BY <1>3
<1>5. DOMAIN l \subseteq DOMAIN t
  BY <1>3
<1>6. Over(t) = Over(l) /\ Received(t) = Received(l)
  BY <1>3, <1>4, <1>5 DEF Over, Received, HasEnded
<1>7. LogInv(s, w, t)
  <2>1. LogInv(s, w, l)
    BY DEF Line
  <2> QED
    BY <1>3, <1>4, <1>6, <2>1 DEF LogInv, HasEnded, IsSequence
<1> QED
  BY <1>6, <1>7 DEF Line, t

\* A batch of new events, with nothing of the one before it left.
LEMMA Extend ==
  ASSUME NEW s \in Seq(Event), NEW evs \in Seq(Event)
  PROVE  /\ s \o evs \in Seq(Event) /\ DOMAIN (s \o evs) = 1..(Len(s) + Len(evs))
         /\ DOMAIN s = 1..Len(s) /\ DOMAIN evs = 1..Len(evs) /\ Len(s) \in Nat /\ Len(evs) \in Nat
         /\ \A i \in DOMAIN s : i \in DOMAIN (s \o evs) /\ (s \o evs)[i] = s[i]
         /\ \A i \in DOMAIN evs : Len(s) + i \in DOMAIN (s \o evs) /\ (s \o evs)[Len(s) + i] = evs[i]
         /\ \A i \in DOMAIN (s \o evs) : i \notin DOMAIN s => i - Len(s) \in DOMAIN evs /\ i = Len(s) + (i - Len(s))
         /\ Known(s \o evs) = Known(s) \union Known(evs)
<1> DEFINE t == s \o evs
           m == Len(s)
           n == Len(evs)
<1>1. /\ t \in Seq(Event) /\ Len(t) = m + n
      /\ \A i \in 1..m + n : t[i] = IF i <= m THEN s[i] ELSE evs[i - m]
  BY ConcatProperties
<1>2. m \in Nat /\ n \in Nat /\ DOMAIN s = 1..m /\ DOMAIN evs = 1..n /\ DOMAIN t = 1..(m + n)
  BY <1>1
<1> HIDE DEF t, m, n
<1>3. \A i \in DOMAIN s : i \in DOMAIN t /\ t[i] = s[i]
  BY <1>1, <1>2
<1>4. ASSUME NEW i \in DOMAIN evs PROVE m + i \in DOMAIN t /\ t[m + i] = evs[i]
  <2>1. m + i \in 1..m + n /\ ~(m + i <= m) /\ (m + i) - m = i
    BY <1>2
  <2> QED
    BY <1>1, <1>2, <2>1
<1>5. \A i \in DOMAIN t : i \notin DOMAIN s => i - m \in DOMAIN evs /\ i = m + (i - m)
  BY <1>2
<1>6. Known(t) = Known(s) \union Known(evs)
  <2>1. Known(t) \subseteq Known(s) \union Known(evs)
    BY <1>3, <1>4, <1>5 DEF Known
  <2>2. Known(s) \subseteq Known(t) /\ Known(evs) \subseteq Known(t)
    BY <1>3, <1>4 DEF Known
  <2> QED
    BY <2>1, <2>2
<1> QED
  BY <1>1, <1>2, <1>3, <1>4, <1>5, <1>6 DEF t, m, n

\* What is added to the story has later places, and moves none.
LEMMA ExtendPos ==
  ASSUME NEW s, Story(s), NEW evs \in Seq(Event), Distinct(s \o evs)
  PROVE  /\ \A e \in Known(s) : PosIn(s \o evs, e) = PosIn(s, e) /\ PosIn(s, e) <= Len(s)
         /\ \A i \in DOMAIN evs : PosIn(s \o evs, evs[i]) = Len(s) + i
         /\ Known(s) \intersect Known(evs) = {}
<1> DEFINE t == s \o evs
<1>1. /\ DOMAIN s = 1..Len(s) /\ DOMAIN evs = 1..Len(evs) /\ Len(s) \in Nat /\ Len(evs) \in Nat
      /\ \A i \in DOMAIN s : i \in DOMAIN t /\ t[i] = s[i]
      /\ \A i \in DOMAIN evs : Len(s) + i \in DOMAIN t /\ t[Len(s) + i] = evs[i]
  BY Extend DEF Story
<1>2. \A i \in DOMAIN t : PosIn(t, t[i]) = i
  BY PosFacts
<1> HIDE DEF t
<1>3. \A i \in DOMAIN evs : PosIn(t, evs[i]) = Len(s) + i
  BY <1>1, <1>2
<1>4. ASSUME NEW e \in Known(s) PROVE PosIn(t, e) = PosIn(s, e) /\ PosIn(s, e) <= Len(s)
  <2>1. PosIn(s, e) \in DOMAIN s /\ s[PosIn(s, e)] = e
    BY KnownFacts
  <2>2. t[PosIn(s, e)] = e /\ PosIn(s, e) \in DOMAIN t
    BY <1>1, <2>1
  <2> QED
    BY <1>1, <1>2, <2>1, <2>2
<1>5. ASSUME NEW e, e \in Known(s), e \in Known(evs) PROVE FALSE
  <2>1. PICK i \in DOMAIN evs : e = evs[i]
    BY <1>5 DEF Known
  <2>2. PosIn(t, e) = Len(s) + i /\ PosIn(t, e) <= Len(s)
    BY <1>3, <1>4, <1>5, <2>1
  <2> QED
    BY <1>1, <2>2
<1> QED
  BY <1>3, <1>4, <1>5 DEF t

\* New events are put at the end of the line.
LEMMA LineEmit ==
  ASSUME NEW s, Story(s), NEW evs \in Seq(Event), Distinct(s \o evs),
         NEW w, NEW q, NEW c, NEW l, Line(s, w, {}, q, c, l)
  PROVE  Line(s \o evs, w, {e \in Known(evs) : Reached(w, e)}, q, c, l)
<1> DEFINE t == s \o evs
           wt == {e \in Known(evs) : Reached(w, e)}
<1>1. /\ \A e \in Known(s) : PosIn(t, e) = PosIn(s, e)
      /\ Known(s) \intersect Known(evs) = {}
      /\ Known(t) = Known(s) \union Known(evs)
  BY ExtendPos, Extend DEF Story
<1>2. ASSUME NEW e \in Known(s), NEW f \in wt PROVE PosIn(t, e) < PosIn(t, f)
  <2>1. PICK i \in DOMAIN evs : f = evs[i]
    BY DEF Known
  <2>2. PosIn(t, e) <= Len(s) /\ PosIn(t, e) \in Nat /\ PosIn(t, f) = Len(s) + i
    BY <2>1, ExtendPos, KnownFacts
  <2>3. i \in Nat \ {0} /\ Len(s) \in Nat
    BY SeqFacts DEF Story
  <2> QED
    BY <2>2, <2>3
<1> HIDE DEF t
<1>3. LogInv(t, w, l)
  <2>1. \A i \in DOMAIN l : l[i].what # "cancelled" => l[i].ev \in Known(s)
    BY DEF Line, LogInv
  <2>2. \A i \in DOMAIN l : l[i].what = "received" => PosIn(t, l[i].ev) = PosIn(s, l[i].ev)
    BY <1>1, <2>1
  <2> QED
    BY <1>1, <2>1, <2>2 DEF Line, LogInv
<1>4. Known(q) \subseteq Known(s) /\ q \in Seq(Known(s)) /\ (c # NoEvent => c \in Known(s))
  BY SeqFacts DEF Line
<1>5. Received(l) \subseteq Known(s) /\ Over(l) \subseteq Known(s)
  BY DEF Line, LogInv, Received, Over, HasEnded
<1>6. q \in Seq(Known(t)) /\ c \in Known(t) \union {NoEvent} /\ wt \subseteq Known(t)
  BY <1>1, <1>4 DEF Line
<1>7. /\ \A i, j \in DOMAIN q : i < j => PosIn(t, q[i]) < PosIn(t, q[j])
      /\ \A e \in Known(q), f \in wt : PosIn(t, e) < PosIn(t, f)
      /\ c # NoEvent => \A f \in Known(q) \union wt : PosIn(t, c) < PosIn(t, f)
  <2>1. \A i \in DOMAIN q : q[i] \in Known(s)
    BY <1>4, SeqFacts
  <2> QED
    BY <1>1, <1>2, <1>4, <2>1 DEF Line
<1>8. \A e \in Received(l) : /\ \A f \in Known(q) \union wt : PosIn(t, e) < PosIn(t, f)
                             /\ c # NoEvent => PosIn(t, e) <= PosIn(t, c)
  BY <1>1, <1>2, <1>4, <1>5 DEF Line
<1>9. Over(l) \intersect (wt \union Known(q) \union {c}) = {}
  <2>1. wt \intersect Over(l) = {}
    BY <1>1, <1>5
  <2> QED
    BY <2>1 DEF Line
<1>10. \A e \in Known(t) : Reached(w, e) => e \in wt \union Known(q) \union {c} \union Over(l)
  BY <1>1 DEF Line
<1>11. \A e \in wt \union Known(q) : Reached(w, e)
  BY DEF Line
<1>12. c # NoEvent => Reached(w, c)
  BY DEF Line
<1> HIDE DEF wt
<1> QED
  BY <1>3, <1>6, <1>7, <1>8, <1>9, <1>10, <1>11, <1>12 DEF Line, t, wt

-----------------------------------------------------------------------------
\* Searches: the first and the last index of a kind.

\* A nonempty set of naturals has a least element.
LEMMA LeastNat ==
  ASSUME NEW T, T \subseteq Nat, T # {}
  PROVE  \E n \in T : \A m \in T : n <= m
<1> DEFINE R == OpToRel(<, Nat)
<1>1. IsWellFoundedOn(R, Nat)
  BY NatLessThanWellFounded
<1>2. \A x, y \in Nat : x < y => <<x, y>> \in R
  BY DEF OpToRel
<1> HIDE DEF R
<1>3. PICK n \in T : \A m \in T : ~(<<m, n>> \in R)
  BY <1>1, WFMin
<1>4. \A m \in T : ~(m < n)
  BY <1>2, <1>3
<1> QED
  BY <1>4

\* Max of a bounded set of naturals is its largest element.
LEMMA MaxFacts ==
  ASSUME NEW n \in Nat, NEW S, S \subseteq 1..n, S # {}
  PROVE  Max(S) \in S /\ \A i \in S : i <= Max(S)
<1> DEFINE T == {n - i : i \in S}
<1>1. PICK d \in T : \A e \in T : d <= e
  <2>1. T \subseteq Nat /\ T # {}
    <3>1. \A i \in S : n - i \in Nat
      OBVIOUS
    <3> QED
      BY <3>1
  <2> HIDE DEF T
  <2> QED
    BY <2>1, LeastNat
<1>2. PICK i \in S : d = n - i
  BY <1>1
<1>3. \A j \in S : i >= j
  <2> SUFFICES ASSUME NEW j \in S PROVE i >= j
    OBVIOUS
  <2>1. n - j \in T
    OBVIOUS
  <2> HIDE DEF T
  <2>2. n - i <= n - j /\ i \in Int /\ j \in Int
    BY <1>1, <1>2, <2>1
  <2> QED
    BY <2>2
<1> HIDE DEF T
<1>4. Max(S) \in S /\ \A j \in S : Max(S) >= j
  BY <1>3 DEF Max
<1> QED
  BY <1>4

\* The level that the events of s leave k at.
LevelAfter(s, k) ==
  LET i == SelectLastInSeq(s, LAMBDA ev : ev.key = k)
  IN  IF i = 0 THEN "ok" ELSE s[i].to

\* The level after a story is the one its last event of the stream ends at.
LEMMA LevelAfterFacts ==
  ASSUME NEW s \in Seq(Event), NEW k
  PROVE  \/ LevelAfter(s, k) = "ok" /\ \A i \in DOMAIN s : s[i].key # k
         \/ \E i \in DOMAIN s : /\ s[i].key = k /\ LevelAfter(s, k) = s[i].to
                                   /\ \A j \in DOMAIN s : s[j].key = k => j <= i
<1> DEFINE I == {i \in 1..Len(s) : s[i].key = k}
<1>1. LevelAfter(s, k) = IF I = {} THEN "ok" ELSE s[Max(I)].to
  <2>1. SelectLastInSeq(s, LAMBDA ev : ev.key = k) = IF I # {} THEN Max(I) ELSE 0
    BY DEF SelectLastInSeq
  <2>2. CASE I = {}
    BY <2>1, <2>2 DEF LevelAfter
  <2>3. CASE I # {}
    <3>0. Len(s) \in Nat /\ I \subseteq 1..Len(s)
      OBVIOUS
    <3> HIDE DEF I
    <3>1. Max(I) \in I
      BY <2>3, <3>0, MaxFacts
    <3>2. Max(I) # 0
      BY <3>0, <3>1
    <3> QED
      BY <2>1, <2>3, <3>2 DEF LevelAfter
  <2> QED
    BY <2>2, <2>3
<1>2. DOMAIN s = 1..Len(s) /\ Len(s) \in Nat
  OBVIOUS
<1>3. CASE I = {}
  BY <1>1, <1>2, <1>3
<1>4. CASE I # {}
  <2> DEFINE m == Max(I)
  <2>1. m \in I /\ \A i \in I : i <= m
    BY <1>2, <1>4, MaxFacts
  <2>2. LevelAfter(s, k) = s[m].to
    BY <1>1, <1>4
  <2> HIDE DEF m
  <2>3. m \in DOMAIN s /\ s[m].key = k /\ \A j \in DOMAIN s : s[j].key = k => j <= m
    BY <1>2, <2>1
  <2> QED
    BY <2>2, <2>3
<1> QED
  BY <1>3, <1>4

\* SentLevel of the model is LevelAfter of what was sent.
LEMMA SentLevelFacts ==
  ASSUME sent \in Seq(Event), NEW k
  PROVE  /\ SentLevel(k) = LevelAfter(sent, k)
         /\ \/ SentLevel(k) = "ok" /\ \A i \in DOMAIN sent : sent[i].key # k
            \/ \E i \in DOMAIN sent : /\ sent[i].key = k /\ SentLevel(k) = sent[i].to
                                      /\ \A j \in DOMAIN sent : sent[j].key = k => j <= i
<1>1. SentLevel(k) = LevelAfter(sent, k)
  BY DEF SentLevel, LevelAfter
<1> QED
  BY <1>1, LevelAfterFacts

\* What the last event of a stream says, the level is.
LEMMA LevelAfterLast ==
  ASSUME NEW s \in Seq(Event), NEW m \in DOMAIN s, \A j \in DOMAIN s : s[j].key = s[m].key => j <= m
  PROVE  LevelAfter(s, s[m].key) = s[m].to
<1>1. PICK i \in DOMAIN s : /\ s[i].key = s[m].key /\ LevelAfter(s, s[m].key) = s[i].to
                            /\ \A j \in DOMAIN s : s[j].key = s[m].key => j <= i
  BY LevelAfterFacts
<1>2. i = m
  BY <1>1, SeqFacts
<1> QED
  BY <1>1, <1>2

-----------------------------------------------------------------------------
\* The events of one Notify call.

\* What the engine hands over at instant t.
Batch(evs, t) ==
  /\ evs \in Seq(Event)
  /\ \A i \in DOMAIN evs :
       /\ evs[i] = Transition(evs[i].key, SentLevel(evs[i].key), evs[i].to, t)
       /\ evs[i].at = t /\ evs[i].from = SentLevel(evs[i].key) /\ evs[i].from # evs[i].to
  /\ \A i, j \in DOMAIN evs : evs[i].key = evs[j].key => i = j

\* A level told by events is a level.
LEMMA SentLevelType == ASSUME sent \in Seq(Event), NEW k PROVE SentLevel(k) \in Levels
<1>1. \A i \in DOMAIN sent : sent[i].to \in Levels
  BY SeqFacts, EventsAreEvents
<1> QED
  BY <1>1, SentLevelFacts DEF Levels

\* What SetToSeqs lists: each element once, in some order.
LEMMA OrderFacts ==
  ASSUME NEW S, IsFiniteSet(S), NEW order \in SetToSeqs(S)
  PROVE  /\ Cardinality(S) \in Nat /\ DOMAIN order = 1..Cardinality(S)
         /\ \A i \in DOMAIN order : order[i] \in S
         /\ \A i, j \in DOMAIN order : order[i] = order[j] => i = j
BY FS_CardinalityType DEF SetToSeqs

\* The events of one tick differ in their streams, and have its time.
LEMMA TransitionFacts ==
  ASSUME NEW k \in Keys, NEW from \in Levels, NEW to \in Levels, NEW t \in Nat
  PROVE  LET e == Transition(k, from, to, t)
         IN  /\ e \in Event /\ e.key = k /\ e.from = from /\ e.to = to /\ e.at = t
             /\ e.kind = Kind(from, to)
BY DEF Transition, Event, Transitions, Kind

\* A round's events are a batch, one for each key that moved.
LEMMA BatchFacts ==
  ASSUME sent \in Seq(Event), NEW t \in Nat, NEW next \in [Keys -> Levels],
         NEW order \in SetToSeqs({k \in Keys : next[k] # SentLevel(k)})
  PROVE  Batch([i \in DOMAIN order |->
                  Transition(order[i], SentLevel(order[i]), next[order[i]], t)], t)
<1> DEFINE moved == {k \in Keys : next[k] # SentLevel(k)}
           evs == [i \in DOMAIN order |->
                     Transition(order[i], SentLevel(order[i]), next[order[i]], t)]
<1>1. IsFiniteSet(moved)
  BY KeysAssumption, FS_Subset
<1>2. /\ Cardinality(moved) \in Nat /\ DOMAIN order = 1..Cardinality(moved)
      /\ \A i \in DOMAIN order : order[i] \in moved
      /\ \A i, j \in DOMAIN order : order[i] = order[j] => i = j
  BY <1>1, OrderFacts
<1>3. ASSUME NEW i \in DOMAIN order
      PROVE  /\ evs[i] \in Event /\ evs[i].key = order[i] /\ evs[i].at = t
             /\ evs[i].from = SentLevel(order[i]) /\ evs[i].to = next[order[i]]
             /\ evs[i].from # evs[i].to
             /\ evs[i] = Transition(evs[i].key, SentLevel(evs[i].key), evs[i].to, t)
  <2> DEFINE k == order[i]
             e == Transition(k, SentLevel(k), next[k], t)
  <2>1. k \in Keys /\ next[k] \in Levels /\ SentLevel(k) \in Levels /\ next[k] # SentLevel(k)
    BY <1>2, SentLevelType
  <2>2. evs[i] = e
    OBVIOUS
  <2>3. e \in Event /\ e.key = k /\ e.from = SentLevel(k) /\ e.to = next[k] /\ e.at = t
    BY <2>1, TransitionFacts
  <2> HIDE DEF e, evs
  <2>4. evs[i].key = k /\ evs[i].to = next[k]
    BY <2>2, <2>3
  <2>5. evs[i] = Transition(evs[i].key, SentLevel(evs[i].key), evs[i].to, t)
    BY <2>2, <2>4 DEF e
  <2> QED
    BY <2>1, <2>2, <2>3, <2>5
<1>4. DOMAIN evs = DOMAIN order
  OBVIOUS
<1> HIDE DEF evs, moved
<1>5. evs \in Seq(Event)
  <2>1. evs \in [1..Cardinality(moved) -> Event]
    <3>1. evs = [i \in DOMAIN evs |-> evs[i]]
      BY DEF evs
    <3> QED
      BY <1>2, <1>3, <1>4, <3>1
  <2> QED
    BY <1>2, <2>1
<1>6. Batch(evs, t)
  BY <1>2, <1>3, <1>4, <1>5 DEF Batch
<1> QED
  BY <1>6 DEF evs

\* A round of the engine: its events, if there are any, are handed to Notify.
Fed ==
  /\ clock' \in Nat /\ clock < clock' /\ pending = << >>
  /\ UNCHANGED <<queue, wvars, cancelled, collector, log>>
  /\ \E evs : Batch(evs, clock') /\ sent' = sent \o evs /\ pending' = Fanout(evs)

\* The steps of the notifier, fed by Emit or by the engine.
Onward == Fed \/ Cancel \/ Collector \/ \E w \in Webhooks : Worker(w)

\* Emit feeds the story.
LEMMA EmitFeeds == ASSUME SentInv, Emit PROVE Fed
<1>1. PICK t \in (clock + 1)..MaxTime, next \in [Keys -> Levels] :
        /\ clock' = t
        /\ \E order \in SetToSeqs({k \in Keys : next[k] # SentLevel(k)}) :
             Notify([i \in DOMAIN order |->
                       Transition(order[i], SentLevel(order[i]), next[order[i]], t)])
        /\ UNCHANGED <<queue, wvars, cancelled, collector, log>>
  BY DEF Emit
<1>2. PICK order \in SetToSeqs({k \in Keys : next[k] # SentLevel(k)}) :
        Notify([i \in DOMAIN order |->
                  Transition(order[i], SentLevel(order[i]), next[order[i]], t)])
  BY <1>1
<1>3. t \in Nat /\ clock < t
  BY LimitAssumption DEF SentInv
<1> DEFINE evs == [i \in DOMAIN order |->
                     Transition(order[i], SentLevel(order[i]), next[order[i]], t)]
<1>4. Batch(evs, t)
  BY <1>3, BatchFacts DEF SentInv
<1>5. Notify(evs)
  BY <1>2
<1> HIDE DEF evs
<1>6. Batch(evs, clock') /\ sent' = sent \o evs /\ pending' = Fanout(evs) /\ pending = << >> /\ collector = "running"
  BY <1>1, <1>4, <1>5 DEF Notify
<1> QED
  BY <1>1, <1>3, <1>6 DEF Fed

\* A batch is of later events, each of another key.
LEMMA SentGrows ==
  ASSUME SentInv, clock' \in Nat, clock < clock',
         NEW evs, Batch(evs, clock'), sent' = sent \o evs
  PROVE  SentInv'
<1> DEFINE n == Len(sent)
           s == sent'
<1>1. /\ sent \in Seq(Event) /\ evs \in Seq(Event)
      /\ \A i \in DOMAIN sent : sent[i].at <= clock
      /\ \A i, j \in DOMAIN sent : i < j => sent[i].at <= sent[j].at
      /\ \A i, j \in DOMAIN sent : sent[i].key = sent[j].key /\ sent[i].at = sent[j].at => i = j
      /\ \A i \in DOMAIN sent : sent[i].at \in Nat
  BY SeqFacts, EventsAreEvents DEF SentInv, Batch
<1>2. /\ s \in Seq(Event) /\ n \in Nat
      /\ DOMAIN sent = 1..n
      /\ \A i \in DOMAIN sent : i \in DOMAIN s /\ s[i] = sent[i]
      /\ \A i \in DOMAIN evs : n + i \in DOMAIN s /\ s[n + i] = evs[i]
      /\ \A i \in DOMAIN s : i \notin DOMAIN sent => i - n \in DOMAIN evs /\ i = n + (i - n)
  BY <1>1, Extend, SMTT(30)
<1>3. clock \in Nat
  BY DEF SentInv
<1> HIDE DEF s, n
<1>4. ASSUME NEW i \in DOMAIN s, i \notin DOMAIN sent
      PROVE  /\ s[i].at = clock' /\ i - n \in DOMAIN evs /\ s[i].key = evs[i - n].key
             /\ i \in Nat /\ i > n
  <2>1. i - n \in DOMAIN evs /\ i = n + (i - n)
    BY <1>2, <1>4
  <2>2. s[i] = evs[i - n]
    BY <1>2, <2>1
  <2>3. DOMAIN s = 1..Len(s) /\ Len(s) \in Nat
    BY <1>2, SeqFacts
  <2> QED
    BY <1>2, <1>4, <2>1, <2>2, <2>3 DEF Batch
<1>5. \A i \in DOMAIN s : s[i].at <= clock'
  BY <1>1, <1>2, <1>3, <1>4
<1>6. \A i, j \in DOMAIN s : i < j => s[i].at <= s[j].at
  <2> SUFFICES ASSUME NEW i \in DOMAIN s, NEW j \in DOMAIN s, i < j PROVE s[i].at <= s[j].at
    OBVIOUS
  <2>1. CASE j \in DOMAIN sent
    <3>1. i \in DOMAIN sent
      BY <1>2, <1>4, <2>1
    <3> QED
      BY <1>1, <1>2, <2>1, <3>1
  <2>2. CASE j \notin DOMAIN sent
    BY <1>4, <1>5, <2>2
  <2> QED
    BY <2>1, <2>2
<1>7. \A i, j \in DOMAIN s : s[i].key = s[j].key /\ s[i].at = s[j].at => i = j
  <2> SUFFICES ASSUME NEW i \in DOMAIN s, NEW j \in DOMAIN s, s[i].key = s[j].key, s[i].at = s[j].at
               PROVE  i = j
    OBVIOUS
  <2>1. CASE i \in DOMAIN sent /\ j \in DOMAIN sent
    BY <1>1, <1>2, <2>1
  <2>2. CASE i \notin DOMAIN sent /\ j \notin DOMAIN sent
    <3>1. i - n = j - n
      BY <1>4, <2>2 DEF Batch
    <3> QED
      BY <1>2, <1>4, <2>2, <3>1
  <2>3. (i \in DOMAIN sent) <=> (j \in DOMAIN sent)
    BY <1>1, <1>2, <1>3, <1>4, SMTT(30)
  <2> QED
    BY <2>1, <2>2, <2>3
<1> QED
  BY <1>2, <1>5, <1>6, <1>7 DEF SentInv, s

\* Events of one stream differ in their times, so that the story holds none twice.
LEMMA SentIsStory == SentInv => Story(sent)
BY DEF SentInv, Story, Distinct

\* The head of what is to be handed out, offered to w.
LEMMA HeadOffered ==
  ASSUME NEW R, NEW p \in Seq(R), p # << >>, NEW x \in R, NEW r, r = [p EXCEPT ![1] = x]
  PROVE  /\ r \in Seq(R) /\ Len(r) = Len(p) /\ DOMAIN r = DOMAIN p
         /\ \A i \in DOMAIN p : r[i] = IF i = 1 THEN x ELSE p[i]
<1> DEFINE n == Len(p)
<1>1. 1 \in 1..n /\ n \in Nat /\ p \in [1..n -> R]
  BY EmptySeq, LenProperties
<1> HIDE DEF n
<1>2. r \in [1..n -> R] /\ \A j \in 1..n : r[j] = IF j = 1 THEN x ELSE p[j]
  BY <1>1
<1>3. r \in Seq(R)
  BY <1>1, <1>2
<1>4. DOMAIN r = 1..n /\ DOMAIN p = 1..n
  BY <1>1, <1>2
<1>5. Len(r) = n
  BY <1>1, <1>3, <1>4, LenProperties
<1> QED
  BY <1>2, <1>3, <1>4, <1>5 DEF n

\* Replacing whom the head is still to be offered to leaves everything else.
LEMMA OfferedFacts ==
  ASSUME NEW E, NEW p, NEW e \in E, NEW hooks \in SUBSET Webhooks
  PROVE  LET R == [ev: E, to: SUBSET Webhooks]
             r == [p EXCEPT ![1] = [ev |-> e, to |-> hooks]]
         IN  p \in Seq(R) /\ p # << >> =>
               /\ r \in Seq(R) /\ Len(r) = Len(p) /\ DOMAIN r = DOMAIN p
               /\ \A i \in DOMAIN p : /\ r[i].ev = IF i = 1 THEN e ELSE p[i].ev
                                      /\ r[i].to = IF i = 1 THEN hooks ELSE p[i].to
<1> DEFINE R == [ev: E, to: SUBSET Webhooks]
           x == [ev |-> e, to |-> hooks]
           r == [p EXCEPT ![1] = x]
<1>1. x \in R /\ r = [p EXCEPT ![1] = x] /\ x.ev = e /\ x.to = hooks
  OBVIOUS
<1> HIDE DEF R, x, r
<1>2. p \in Seq(R) /\ p # << >> =>
         /\ r \in Seq(R) /\ Len(r) = Len(p) /\ DOMAIN r = DOMAIN p
         /\ \A i \in DOMAIN p : r[i] = IF i = 1 THEN x ELSE p[i]
  BY <1>1, HeadOffered
<1>3. p \in Seq(R) /\ p # << >> =>
         /\ r \in Seq(R) /\ Len(r) = Len(p) /\ DOMAIN r = DOMAIN p
         /\ \A i \in DOMAIN p : /\ r[i].ev = IF i = 1 THEN e ELSE p[i].ev
                                /\ r[i].to = IF i = 1 THEN hooks ELSE p[i].to
  BY <1>1, <1>2
<1> QED
  BY <1>3 DEF R, x, r

\* The head of what is to be handed out, and what is left.
LEMMA HandingFacts ==
  ASSUME NEW s, Story(s), NEW p, HandingOut(s, p), p # << >>
  PROVE  /\ Head(p).ev \in Known(s) /\ Head(p).to \in SUBSET Webhooks
         /\ HandingOut(s, Tail(p)) /\ HandingOut(s, p)
         /\ \A v : Waiting(p, v) =
                     Waiting(Tail(p), v) \union (IF v \in Head(p).to THEN {Head(p).ev} ELSE {})
         /\ \A v : \A f \in Waiting(Tail(p), v) : PosIn(s, Head(p).ev) < PosIn(s, f) /\ f # Head(p).ev
<1> DEFINE t == Tail(p)
           h == Head(p)
           n == Len(p)
           R == [ev: Known(s), to: SUBSET Webhooks]
<1>1. /\ t \in Seq(R) /\ DOMAIN t = 1..(n - 1) /\ n \in Nat \ {0}
      /\ \A i \in DOMAIN t : t[i] = p[i + 1]
      /\ h = p[1] /\ 1 \in DOMAIN p /\ DOMAIN p = 1..n
  <2> HIDE DEF R
  <2>1. p \in Seq(R)
    BY DEF HandingOut, R
  <2> QED
    BY <2>1, TailFacts
<1>2. \A i \in DOMAIN p : p[i] \in R
  BY SeqFacts DEF HandingOut
<1>3. h \in R /\ h.ev \in Known(s) /\ h.to \in SUBSET Webhooks
  BY <1>1, <1>2
<1> HIDE DEF t, h, n
<1>4. /\ \A i \in DOMAIN t : i + 1 \in DOMAIN p /\ t[i] = p[i + 1]
      /\ \A i \in DOMAIN p : i = 1 \/ (i - 1 \in DOMAIN t /\ p[i] = t[i - 1])
  <2>1. \A i \in DOMAIN p : i = 1 \/ (i - 1 \in DOMAIN t /\ i = (i - 1) + 1)
    BY <1>1
  <2> QED
    BY <1>1, <2>1
<1>5. HandingOut(s, t)
  <2>1. \A i, j \in DOMAIN t : i < j => PosIn(s, t[i].ev) < PosIn(s, t[j].ev)
    <3> SUFFICES ASSUME NEW i \in DOMAIN t, NEW j \in DOMAIN t, i < j
                 PROVE  PosIn(s, t[i].ev) < PosIn(s, t[j].ev)
      OBVIOUS
    <3>1. i + 1 \in DOMAIN p /\ j + 1 \in DOMAIN p /\ i + 1 < j + 1
      BY <1>1, <1>4
    <3> QED
      BY <1>4, <3>1 DEF HandingOut
  <2> QED
    BY <1>1, <2>1 DEF HandingOut
<1>6. \A i \in DOMAIN t : PosIn(s, h.ev) < PosIn(s, t[i].ev) /\ t[i].ev # h.ev
  <2> SUFFICES ASSUME NEW i \in DOMAIN t
               PROVE  PosIn(s, h.ev) < PosIn(s, t[i].ev) /\ t[i].ev # h.ev
    OBVIOUS
  <2>1. i + 1 \in DOMAIN p /\ 1 < i + 1
    BY <1>1
  <2>2. PosIn(s, h.ev) < PosIn(s, t[i].ev)
    BY <1>1, <1>4, <2>1 DEF HandingOut
  <2> QED
    BY <1>3, <2>2, KnownFacts
<1>7. \A v : \A f \in Waiting(t, v) : PosIn(s, h.ev) < PosIn(s, f) /\ f # h.ev
  BY <1>6 DEF Waiting
<1>8. \A v : Waiting(p, v) = Waiting(t, v) \union (IF v \in h.to THEN {h.ev} ELSE {})
  <2> SUFFICES ASSUME NEW v
               PROVE  Waiting(p, v) = Waiting(t, v) \union (IF v \in h.to THEN {h.ev} ELSE {})
    OBVIOUS
  <2>1. Waiting(p, v) \subseteq Waiting(t, v) \union (IF v \in h.to THEN {h.ev} ELSE {})
    BY <1>1, <1>4 DEF Waiting
  <2>2. Waiting(t, v) \subseteq Waiting(p, v)
    BY <1>4 DEF Waiting
  <2>3. v \in h.to => h.ev \in Waiting(p, v)
    BY <1>1 DEF Waiting
  <2> QED
    BY <2>1, <2>2, <2>3
<1> QED
  BY <1>3, <1>5, <1>7, <1>8 DEF t, h

\* Handing an event to one webhook leaves what waits for the others.
LEMMA HandedOn ==
  ASSUME NEW s, Story(s), NEW p, HandingOut(s, p), p # << >>, NEW w \in Head(p).to
  PROVE  LET r == [p EXCEPT ![1] = [ev |-> Head(p).ev, to |-> Head(p).to \ {w}]]
         IN  /\ HandingOut(s, r)
             /\ \A v, f : f \in Waiting(r, v) <=> f \in Waiting(p, v) /\ ~(v = w /\ f = Head(p).ev)
<1> DEFINE R == [ev: Known(s), to: SUBSET Webhooks]
           h == Head(p)
           e == h.ev
           hooks == h.to \ {w}
           r == [p EXCEPT ![1] = [ev |-> e, to |-> hooks]]
<1>1. p \in Seq(R)
  BY DEF HandingOut
<1>2. e \in Known(s) /\ hooks \in SUBSET Webhooks
  BY HandingFacts
<1> HIDE DEF R
<1>3. 1 \in DOMAIN p /\ h = p[1] /\ DOMAIN p = 1..Len(p) /\ Len(p) \in Nat
  BY <1>1, TailFacts
<1>4. w \in h.to /\ hooks = p[1].to \ {w} /\ e = p[1].ev
  BY <1>3
<1> USE DEF R
<1> HIDE DEF h, e, hooks
<1>5. /\ r \in Seq(R) /\ Len(r) = Len(p) /\ DOMAIN r = DOMAIN p
      /\ \A i \in DOMAIN p : /\ r[i].ev = IF i = 1 THEN e ELSE p[i].ev
                             /\ r[i].to = IF i = 1 THEN hooks ELSE p[i].to
  BY <1>1, <1>2, OfferedFacts
<1> HIDE DEF R, r
<1>6. DOMAIN r = DOMAIN p /\ \A i \in DOMAIN p : r[i].ev = p[i].ev
  BY <1>4, <1>5
<1>7. HandingOut(s, r)
  BY <1>5, <1>6 DEF HandingOut, R
<1>8. \A i \in DOMAIN p : i # 1 => p[i].ev # e
  <2>1. \A i \in DOMAIN p : i # 1 => PosIn(s, p[1].ev) < PosIn(s, p[i].ev)
    BY <1>3 DEF HandingOut
  <2> QED
    BY <1>2, <1>4, <2>1, KnownFacts
<1>9. \A i \in DOMAIN p : w \in r[i].to <=> w \in p[i].to /\ p[i].ev # e
  BY <1>3, <1>4, <1>5, <1>8
<1>10. \A f : f \in Waiting(r, w) <=> f \in Waiting(p, w) /\ f # e
  BY <1>6, <1>9 DEF Waiting
<1>11. ASSUME NEW v, v # w PROVE \A f : f \in Waiting(r, v) <=> f \in Waiting(p, v)
  <2>1. \A i \in DOMAIN p : v \in r[i].to <=> v \in p[i].to
    BY <1>4, <1>5, <1>11
  <2> QED
    BY <1>6, <2>1 DEF Waiting
<1>12. \A v, f : f \in Waiting(r, v) <=> f \in Waiting(p, v) /\ ~(v = w /\ f = e)
  BY <1>10, <1>11
<1> QED
  BY <1>7, <1>12 DEF r, e, h, hooks

\* What is left of p when its head was offered to w.
Handed(p, w) ==
  IF Head(p).to = {w} THEN Tail(p)
  ELSE [p EXCEPT ![1] = [ev |-> Head(p).ev, to |-> Head(p).to \ {w}]]

\* ... stated of what Offer makes of pending.
LEMMA HandedOut ==
  ASSUME NEW s, Story(s), NEW p, HandingOut(s, p), p # << >>, NEW w, w \in Head(p).to
  PROVE  /\ HandingOut(s, Handed(p, w)) /\ Head(p).ev \in Waiting(p, w)
         /\ \A v, f : f \in Waiting(Handed(p, w), v) <=>
                       f \in Waiting(p, v) /\ ~(v = w /\ f = Head(p).ev)
         /\ \A f \in Waiting(p, w) \ {Head(p).ev} : PosIn(s, Head(p).ev) < PosIn(s, f)
<1> DEFINE t == Tail(p)
           h == Head(p)
           u == [p EXCEPT ![1] = [ev |-> h.ev, to |-> h.to \ {w}]]
           r == Handed(p, w)
<1>1. /\ h.ev \in Known(s) /\ HandingOut(s, t)
      /\ \A v : Waiting(p, v) = Waiting(t, v) \union (IF v \in h.to THEN {h.ev} ELSE {})
      /\ \A v : \A f \in Waiting(t, v) : PosIn(s, h.ev) < PosIn(s, f) /\ f # h.ev
  BY HandingFacts
<1>2. /\ HandingOut(s, u)
      /\ \A v, f : f \in Waiting(u, v) <=> f \in Waiting(p, v) /\ ~(v = w /\ f = h.ev)
  BY HandedOn
<1>3. w \in h.to /\ r = IF h.to = {w} THEN t ELSE u
  BY DEF Handed
<1> HIDE DEF t, h, u, r
<1>4. /\ h.ev \in Waiting(p, w)
      /\ \A f \in Waiting(p, w) \ {h.ev} : PosIn(s, h.ev) < PosIn(s, f)
  BY <1>1, <1>3
<1>5. CASE h.to = {w}
  <2>1. \A v, f : f \in Waiting(t, v) <=> f \in Waiting(p, v) /\ ~(v = w /\ f = h.ev)
    BY <1>1, <1>5
  <2> QED
    BY <1>1, <1>3, <1>4, <1>5, <2>1 DEF h, r
<1>6. CASE h.to # {w}
  BY <1>2, <1>3, <1>4, <1>6 DEF h, r
<1> QED
  BY <1>5, <1>6

\* What Fanout hands out is each event to whom it reaches.
LEMMA FanoutFacts ==
  ASSUME NEW s, Story(s), NEW evs \in Seq(Event), Distinct(s \o evs)
  PROVE  /\ HandingOut(s \o evs, Fanout(evs))
         /\ \A w \in Webhooks : Waiting(Fanout(evs), w) = {e \in Known(evs) : Reached(w, e)}
<1> DEFINE t == s \o evs
           f == Fanout(evs)
           R == [ev: Known(t), to: SUBSET Webhooks]
           n == Len(evs)
<1>1. /\ DOMAIN evs = 1..n /\ n \in Nat
      /\ Known(evs) \subseteq Known(t) /\ \A i \in DOMAIN evs : evs[i] \in Known(evs)
  <2>1. DOMAIN evs = 1..n /\ n \in Nat
    BY SeqFacts
  <2>2. Known(t) = Known(s) \union Known(evs)
    BY Extend DEF Story
  <2>3. \A i \in DOMAIN evs : evs[i] \in Known(evs)
    BY DEF Known
  <2> HIDE DEF t, n
  <2> QED
    BY <2>1, <2>2, <2>3
<1>2. \A i \in DOMAIN evs : PosIn(t, evs[i]) = Len(s) + i
  BY ExtendPos
<1>3. /\ DOMAIN f = DOMAIN evs
      /\ \A i \in DOMAIN evs : /\ f[i].ev = evs[i]
                               /\ f[i].to = {w \in Webhooks : EventReaches(evs[i], MinLevel[w])}
      /\ f = [i \in 1..n |-> f[i]]
  BY <1>1 DEF Fanout
<1>4. \A i \in 1..n : f[i] \in R
  BY <1>1 DEF Fanout
<1> HIDE DEF t, f, R, n
<1>5. f \in [1..n -> R]
  BY <1>3, <1>4
<1>6. f \in Seq(R)
  BY <1>1, <1>5
<1>7. Len(s) \in Nat
  BY SeqFacts DEF Story
<1>8. \A i, j \in DOMAIN f : i < j => PosIn(t, f[i].ev) < PosIn(t, f[j].ev)
  BY <1>1, <1>2, <1>3, <1>7
<1>9. HandingOut(t, f)
  BY <1>6, <1>8 DEF HandingOut, R
<1>10. ASSUME NEW w \in Webhooks PROVE Waiting(f, w) = {e \in Known(evs) : Reached(w, e)}
  <2>1. \A i \in DOMAIN evs : w \in f[i].to <=> Reached(w, evs[i])
    BY <1>3 DEF Reached
  <2>2. ASSUME NEW e \in Waiting(f, w) PROVE e \in Known(evs) /\ Reached(w, e)
    <3>1. PICK i \in DOMAIN f : w \in f[i].to /\ f[i].ev = e
      BY <2>2 DEF Waiting
    <3> QED
      BY <1>1, <1>3, <2>1, <3>1
  <2>3. ASSUME NEW e \in Known(evs), Reached(w, e) PROVE e \in Waiting(f, w)
    <3>1. PICK i \in DOMAIN evs : e = evs[i]
      BY DEF Known
    <3>2. i \in DOMAIN f /\ w \in f[i].to /\ f[i].ev = e
      BY <1>3, <2>1, <2>3, <3>1
    <3> QED
      BY <3>2 DEF Waiting
  <2> QED
    BY <2>2, <2>3
<1> QED
  BY <1>9, <1>10 DEF t, f

-----------------------------------------------------------------------------
\* What a worker does.

\* An acknowledged delivery.
Confirmed == <<"received", "confirmed">>

\* It puts an end to the head of its queue,
Drops(w, whats) ==
  /\ pc[w] = "idle" /\ queue[w] # << >> /\ whats \in {<<"limited">>, <<"gaveup">>}
  /\ whats = <<"limited">> => Suppressed(w, Head(queue[w]))
  /\ queue' = [queue EXCEPT ![w] = Tail(@)] /\ log' = Logged(w, Head(queue[w]), whats)
  /\ UNCHANGED wvars

\* or takes it up;
TakesUp(w) ==
  /\ pc[w] = "idle" /\ queue[w] # << >> /\ ~Suppressed(w, Head(queue[w]))
  /\ queue' = [queue EXCEPT ![w] = Tail(@)] /\ current' = [current EXCEPT ![w] = Head(queue[w])]
  /\ pc' = [pc EXCEPT ![w] = "ready"]
  /\ UNCHANGED <<attempt, lastSent, log>>

\* it moves on,
Moves(w) ==
  /\ \/ pc[w] = "idle" /\ pc' = [pc EXCEPT ![w] = "exited"] /\ attempt' = attempt
     \/ pc[w] = "ready" /\ pc' = [pc EXCEPT ![w] = "inflight"] /\ attempt' = attempt
     \/ /\ pc[w] = "backoff" /\ pc' = [pc EXCEPT ![w] = "ready"]
        /\ attempt' = [attempt EXCEPT ![w] = @ + 1]
  /\ UNCHANGED <<queue, current, lastSent, log>>

\* or an attempt ends, and the delivery with it or not.
Tries(w, whats) ==
  /\ pc[w] \in {"ready", "inflight", "backoff"} /\ whats \in Ends
  /\ log' = Logged(w, current[w], whats)
  /\ IF whats \in Final
     THEN /\ pc' = [pc EXCEPT ![w] = "idle"] /\ current' = [current EXCEPT ![w] = NoEvent]
          /\ attempt' = [attempt EXCEPT ![w] = 0]
     ELSE /\ pc' = [pc EXCEPT ![w] = "backoff"] /\ UNCHANGED <<current, attempt>>
          /\ ~(attempt[w] >= MaxRetries) /\ pc[w] # "backoff"
  /\ whats \notin Silent => pc[w] = "inflight"
  /\ whats # <<"limited">>
  /\ IF whats = Confirmed
     THEN lastSent' = [lastSent EXCEPT ![w] = RecordSent(w, current[w])]
     ELSE UNCHANGED lastSent
  /\ UNCHANGED queue

\* Append of a second element.
LEMMA Pair == ASSUME NEW a, NEW b PROVE Append(<<a>>, b) = <<a, b>>
<1>1. <<a>> \in Seq({a, b}) /\ Len(<<a>>) = 1 /\ <<a>>[1] = a
  OBVIOUS
<1>2. /\ Append(<<a>>, b) \in Seq({a, b}) /\ Len(Append(<<a>>, b)) = 2
      /\ Append(<<a>>, b)[1] = a /\ Append(<<a>>, b)[2] = b
  BY <1>1, AppendProperties
<1>3. <<a, b>> \in Seq({a, b}) /\ Len(<<a, b>>) = 2 /\ <<a, b>>[1] = a /\ <<a, b>>[2] = b
  OBVIOUS
<1> DEFINE s == Append(<<a>>, b)
           p == <<a, b>>
<1>4. /\ s \in Seq({a, b}) /\ p \in Seq({a, b}) /\ Len(s) = 2 /\ Len(p) = 2
      /\ s[1] = p[1] /\ s[2] = p[2]
  BY <1>2, <1>3
<1> HIDE DEF s, p
<1>5. s = p
  BY <1>4, SeqEqual
<1> QED
  BY <1>5 DEF s, p

\* The different ends differ.
LEMMA Differ ==
  ASSUME NEW n, NEW m, NEW a, NEW b, Len(a) = n, Len(b) = m, n # m
  PROVE  a # b
OBVIOUS

\* The ends of an event are told apart by their lengths and entries.
LEMMA EndsDiffer ==
  /\ <<"gaveup">> # << >> /\ <<"received">> # << >>
  /\ <<"gaveup">> # <<"received">> /\ <<"gaveup">> # <<"limited">> /\ <<"received">> # <<"limited">>
  /\ \A b : \A a \in {"gaveup", "received", "limited"} :
       <<"received", b>> # << >> /\ <<"received", b>> # <<a>>
  /\ <<"received", "gaveup">> # Confirmed
  /\ <<"gaveup">> # Confirmed /\ <<"received">> # Confirmed /\ << >> # Confirmed
<1>1. /\ <<"gaveup">> # << >> /\ <<"received">> # << >>
      /\ <<"gaveup">> # <<"received">> /\ <<"gaveup">> # <<"limited">> /\ <<"received">> # <<"limited">>
  OBVIOUS
<1>2. ASSUME NEW a, NEW b PROVE Len(<<"received", b>>) = 2 /\ Len(<<a>>) = 1 /\ Len(<< >>) = 0
  OBVIOUS
<1>3. ASSUME NEW a, NEW b PROVE <<"received", b>> # << >> /\ <<"received", b>> # <<a>>
  BY <1>2
<1>4. <<"received", "gaveup">> # Confirmed
  BY DEF Confirmed
<1> QED
  BY <1>1, <1>3, <1>4 DEF Confirmed

\* A failed attempt tries again, or is the end of the event.
LEMMA RetryShape ==
  ASSUME NEW w \in Webhooks, NEW whats \in {<< >>, <<"received">>}, Retry(w, whats),
         whats # << >> => pc[w] = "inflight", pc[w] \in {"ready", "inflight"},
         UNCHANGED <<queue, lastSent>>
  PROVE  \E ws : Tries(w, ws)
<1>1. CASE attempt[w] >= MaxRetries
  <2>1. /\ pc' = [pc EXCEPT ![w] = "idle"] /\ current' = [current EXCEPT ![w] = NoEvent]
        /\ attempt' = [attempt EXCEPT ![w] = 0]
        /\ log' = Logged(w, current[w], Append(whats, "gaveup"))
    BY <1>1 DEF Retry, Finish
  <2>2. PICK ws \in {<<"gaveup">>, <<"received", "gaveup">>} :
          ws = Append(whats, "gaveup") /\ (whats = << >> => ws = <<"gaveup">>)
    <3>1. CASE whats = << >>
      <4>1. Append(whats, "gaveup") = <<"gaveup">>
        BY <3>1
      <4> QED
        BY <4>1
    <3>2. CASE whats = <<"received">>
      <4>1. Append(whats, "gaveup") = <<"received", "gaveup">>
        BY <3>2, Pair
      <4>2. whats # << >>
        BY <3>2
      <4> QED
        BY <4>1, <4>2
    <3> QED
      BY <3>1, <3>2
  <2>3. /\ ws \in Ends /\ ws \in Final /\ ws # Confirmed /\ ws # <<"limited">>
        /\ ws \notin Silent => whats # << >>
    <3>1. CASE ws = <<"gaveup">>
      <4>1. Len(ws) = 1 /\ ws[1] = "gaveup" /\ ws \in Ends /\ ws \in Silent
        BY <3>1 DEF Ends, Silent
      <4>2. ws # << >> /\ ws # <<"received">> /\ ws # <<"limited">> /\ ws # Confirmed
        BY <3>1, EndsDiffer
      <4> QED
        BY <4>1, <4>2 DEF Final
    <3>2. CASE ws = <<"received", "gaveup">>
      <4>1. Len(ws) = 2 /\ ws[2] = "gaveup" /\ ws \in Ends /\ ws[1] = "received"
        BY <3>2 DEF Ends
      <4>2. ws # << >> /\ ws # <<"received">> /\ ws # <<"limited">> /\ ws # Confirmed /\ ws # <<"gaveup">>
        BY <3>2, EndsDiffer
      <4> QED
        BY <4>1, <4>2, <2>2 DEF Final
    <3> QED
      BY <3>1, <3>2
  <2>4. log' = Logged(w, current[w], ws)
    BY <2>1, <2>2
  <2>5. pc[w] \in {"ready", "inflight", "backoff"}
    OBVIOUS
  <2> QED
    BY <2>1, <2>3, <2>4, <2>5 DEF Tries
<1>2. CASE ~(attempt[w] >= MaxRetries)
  <2>1. /\ pc' = [pc EXCEPT ![w] = "backoff"] /\ log' = Logged(w, current[w], whats)
        /\ UNCHANGED <<current, attempt>>
    BY <1>2 DEF Retry
  <2>2. /\ whats \in Ends /\ whats \notin Final /\ whats # Confirmed /\ whats # <<"limited">>
        /\ whats \notin Silent => whats # << >>
    <3>1. CASE whats = << >>
      BY <3>1 DEF Ends, Final, Confirmed, Silent
    <3>2. CASE whats = <<"received">>
      <4>1. Len(whats) = 1 /\ whats[1] = "received" /\ whats \in Ends /\ whats \notin Final
        BY <3>2 DEF Ends, Final
      <4>2. whats # << >> /\ whats # <<"limited">> /\ whats # Confirmed
        BY <3>2, EndsDiffer
      <4> QED
        BY <4>1, <4>2
    <3> QED
      BY <3>1, <3>2
  <2>3. pc[w] \in {"ready", "inflight", "backoff"} /\ pc[w] # "backoff"
    OBVIOUS
  <2> QED
    BY <1>2, <2>1, <2>2, <2>3 DEF Tries
<1> QED
  BY <1>1, <1>2

\* A worker drops the head, takes it up, moves, or tries.
LEMMA WorkerShape ==
  ASSUME NEW w \in Webhooks, Worker(w)
  PROVE  /\ UNCHANGED <<clock, sent, pending, cancelled, collector>>
         /\ \/ \E whats : Drops(w, whats)
            \/ TakesUp(w) \/ Moves(w)
            \/ \E whats : Tries(w, whats)
<1>1. UNCHANGED <<clock, sent, pending, cancelled, collector>>
  BY DEF Worker, Take, Exit, Post, Respond, Accepted, Rejected, Failed, Wake, Abort
<1>2. CASE Take(w)
  <2>1. pc[w] = "idle" /\ queue[w] # << >> /\ queue' = [queue EXCEPT ![w] = Tail(@)]
    BY <1>2 DEF Take
  <2>2. CASE Suppressed(w, Head(queue[w])) /\ log' = Logged(w, Head(queue[w]), <<"limited">>) /\ UNCHANGED wvars
    <3>1. Drops(w, <<"limited">>)
      BY <2>1, <2>2 DEF Drops
    <3> QED
      BY <1>1, <3>1
  <2>3. CASE log' = Logged(w, Head(queue[w]), <<"gaveup">>) /\ UNCHANGED wvars
    <3>1. <<"gaveup">> # <<"limited">>
      OBVIOUS
    <3>2. Drops(w, <<"gaveup">>)
      BY <2>1, <2>3, <3>1 DEF Drops
    <3> QED
      BY <1>1, <3>2
  <2>4. CASE /\ ~Suppressed(w, Head(queue[w])) /\ pc' = [pc EXCEPT ![w] = "ready"]
             /\ current' = [current EXCEPT ![w] = Head(queue[w])]
             /\ UNCHANGED <<attempt, lastSent, log>>
    BY <1>1, <2>1, <2>4 DEF TakesUp
  <2> QED
    BY <1>2, <2>2, <2>3, <2>4 DEF Take
<1>3. CASE Exit(w)
  BY <1>1, <1>3 DEF Exit, Moves
<1>4. CASE Post(w)
  <2>1. CASE ~cancelled
    BY <1>1, <1>4, <2>1 DEF Post, Moves
  <2>2. CASE cancelled
    <3>1. Retry(w, << >>) /\ pc[w] = "ready" /\ UNCHANGED <<queue, lastSent>>
      BY <1>4, <2>2 DEF Post
    <3> QED
      BY <1>1, <3>1, RetryShape
  <2> QED
    BY <2>1, <2>2
<1>5. CASE Accepted(w)
  <2>1. Confirmed \in Ends /\ Confirmed \in Final /\ Confirmed # <<"limited">>
    <3>1. Len(Confirmed) = 2 /\ Confirmed \in Ends
      BY DEF Confirmed, Ends
    <3>2. Len(<< >>) = 0 /\ Len(<<"received">>) = 1 /\ Len(<<"limited">>) = 1
      OBVIOUS
    <3>3. 2 # 0 /\ 2 # 1
      OBVIOUS
    <3>4. Confirmed # << >> /\ Confirmed # <<"received">> /\ Confirmed # <<"limited">>
      BY <3>1, <3>2, <3>3, Zenon
    <3> QED
      BY <3>1, <3>4 DEF Final
  <2>2. Tries(w, Confirmed)
    BY <1>5, <2>1 DEF Accepted, Finish, Tries, Confirmed
  <2> QED
    BY <1>1, <2>2
<1>6. CASE Rejected(w) \/ Abort(w)
  <2>1. /\ <<"gaveup">> \in Ends /\ <<"gaveup">> \in Final /\ <<"gaveup">> \in Silent
        /\ <<"gaveup">> # <<"limited">> /\ <<"gaveup">> # Confirmed
    <3>1. /\ <<"gaveup">> # << >> /\ <<"gaveup">> # <<"received">> /\ <<"gaveup">> # <<"limited">>
          /\ <<"gaveup">> # Confirmed
      BY DEF Confirmed
    <3> QED
      BY <3>1 DEF Ends, Final, Silent
  <2>2. Tries(w, <<"gaveup">>)
    BY <1>6, <2>1 DEF Rejected, Abort, Finish, Tries
  <2> QED
    BY <1>1, <2>2
<1>7. CASE Failed(w)
  <2>1. PICK whats \in {<< >>, <<"received">>} : Retry(w, whats)
    BY <1>7 DEF Failed
  <2>2. pc[w] = "inflight" /\ UNCHANGED <<queue, lastSent>>
    BY <1>7 DEF Failed
  <2> QED
    BY <1>1, <2>1, <2>2, RetryShape
<1>8. CASE Wake(w)
  BY <1>1, <1>8 DEF Wake, Moves
<1> QED
  BY <1>2, <1>3, <1>4, <1>5, <1>6, <1>7, <1>8 DEF Worker, Respond

-----------------------------------------------------------------------------
\* Every step keeps every line in order.

\* Logged of the model extends one history.
LEMMA LoggedFacts ==
  ASSUME NEW w, NEW ev, NEW whats
  PROVE  Logged(w, ev, whats) = [log EXCEPT ![w] = Extended(log[w], ev, whats)]
BY DEF Logged, Extended, Entries

\* A step that concerns the line of one webhook.
LEMMA LineFrame ==
  ASSUME LineInv, NEW w \in Webhooks, UNCHANGED <<clock, sent>>,
         NEW r, HandingOut(sent, r), pending' = r,
         \A v \in Webhooks \ {w} : Waiting(r, v) = Waiting(pending, v),
         NEW q, NEW c, NEW l, NEW p \in WorkerStates, Line(sent, w, Waiting(r, w), q, c, l),
         p \in {"ready", "inflight", "backoff"} <=> c # NoEvent,
         queue' = [queue EXCEPT ![w] = q], current' = [current EXCEPT ![w] = c],
         log' = [log EXCEPT ![w] = l], pc' = [pc EXCEPT ![w] = p]
  PROVE  LineInv'
<1>1. SentInv' /\ HandingOut(sent', pending')
  BY DEF LineInv, SentInv
<1>2. /\ queue' = [v \in Webhooks |-> queue'[v]] /\ log' = [v \in Webhooks |-> log'[v]]
      /\ current' = [v \in Webhooks |-> current'[v]] /\ pc' \in [Webhooks -> WorkerStates]
  BY DEF LineInv
<1>3. /\ queue'[w] = q /\ current'[w] = c /\ log'[w] = l /\ pc'[w] = p
      /\ \A v \in Webhooks \ {w} : /\ queue'[v] = queue[v] /\ current'[v] = current[v]
                                    /\ log'[v] = log[v] /\ pc'[v] = pc[v]
  BY DEF LineInv
<1>4. ASSUME NEW v \in Webhooks
      PROVE  /\ Line(sent', v, Waiting(pending', v), queue'[v], current'[v], log'[v])
             /\ pc'[v] \in {"ready", "inflight", "backoff"} <=> current'[v] # NoEvent
  <2>1. CASE v = w
    BY <1>3, <2>1
  <2>2. CASE v # w
    BY <1>3, <2>2 DEF LineInv
  <2> QED
    BY <2>1, <2>2
<1> QED
  BY <1>1, <1>2, <1>4 DEF LineInv

\* What LineInv says of one webhook.
LEMMA LineOfWebhook ==
  ASSUME LineInv, NEW w \in Webhooks
  PROVE  /\ Story(sent) /\ HandingOut(sent, pending)
         /\ Line(sent, w, Waiting(pending, w), queue[w], current[w], log[w])
         /\ pc[w] \in {"ready", "inflight", "backoff"} <=> current[w] # NoEvent
         /\ pc[w] \in WorkerStates
         /\ queue = [queue EXCEPT ![w] = queue[w]] /\ log = [log EXCEPT ![w] = log[w]]
         /\ current = [current EXCEPT ![w] = current[w]] /\ pc = [pc EXCEPT ![w] = pc[w]]
BY SentIsStory DEF LineInv

\* The head of what is handed out goes into a queue, or overflows it.
LEMMA LineOffer == ASSUME LineInv, Offer PROVE LineInv'
<1>1. Story(sent) /\ HandingOut(sent, pending) /\ pending # << >> /\ UNCHANGED <<clock, sent, wvars>>
  BY SentIsStory DEF LineInv, Offer
<1> DEFINE ev == Head(pending).ev
           to == Head(pending).to
<1>2. CASE to = {} /\ pending' = Tail(pending) /\ UNCHANGED <<queue, log>>
  <2>1. /\ HandingOut(sent, Tail(pending))
        /\ \A v : Waiting(pending, v) =
                    Waiting(Tail(pending), v) \union (IF v \in Head(pending).to THEN {Head(pending).ev} ELSE {})
    BY <1>1, HandingFacts
  <2>2. Head(pending).to = {}
    BY <1>2
  <2>3. \A v : Waiting(pending, v) = Waiting(Tail(pending), v)
    BY <2>1, <2>2
  <2> HIDE DEF ev, to
  <2>4. /\ SentInv' /\ HandingOut(sent', pending')
        /\ \A v : Waiting(pending', v) = Waiting(pending, v)
        /\ UNCHANGED <<sent, queue, log, current, pc>>
    BY <1>1, <1>2, <2>1, <2>3 DEF LineInv, SentInv, wvars
  <2> QED
    BY <2>4 DEF LineInv
<1>3. ASSUME NEW w \in to,
             pending' = IF to = {w} THEN Tail(pending)
                        ELSE [pending EXCEPT ![1] = [ev |-> ev, to |-> to \ {w}]],
             \/ queue' = [queue EXCEPT ![w] = Enqueued(@, ev)] /\ UNCHANGED log
             \/ Overflow(w, ev)
      PROVE  LineInv'
  <2> DEFINE wt == Waiting(pending, w)
  <2>0. w \in Head(pending).to
    OBVIOUS
  <2>1. w \in Webhooks
    BY <1>1, <2>0, HandingFacts
  <2> DEFINE r == Handed(pending, w)
  <2>2. pending' = r
    BY <1>3 DEF Handed
  <2>a. /\ HandingOut(sent, Handed(pending, w)) /\ Head(pending).ev \in Waiting(pending, w)
        /\ \A v, f : f \in Waiting(Handed(pending, w), v) <=>
                      f \in Waiting(pending, v) /\ ~(v = w /\ f = Head(pending).ev)
        /\ \A f \in Waiting(pending, w) \ {Head(pending).ev} : PosIn(sent, Head(pending).ev) < PosIn(sent, f)
    BY <1>1, <2>0, HandedOut
  <2>3. /\ HandingOut(sent, r) /\ ev \in wt
        /\ \A v, f : f \in Waiting(r, v) <=> f \in Waiting(pending, v) /\ ~(v = w /\ f = ev)
        /\ \A f \in wt \ {ev} : PosIn(sent, ev) < PosIn(sent, f)
    BY <2>a
  <2> HIDE DEF ev, to, r
  <2>b. \A v : v # w => Waiting(r, v) = Waiting(pending, v)
    BY <2>3
  <2>c. Waiting(r, w) = wt \ {ev}
    BY <2>3
  <2>4. Waiting(r, w) = wt \ {ev} /\ \A v \in Webhooks \ {w} : Waiting(r, v) = Waiting(pending, v)
    BY <2>b, <2>c
  <2>5. /\ Line(sent, w, wt, queue[w], current[w], log[w])
        /\ pc[w] \in {"ready", "inflight", "backoff"} <=> current[w] # NoEvent
        /\ pc[w] \in WorkerStates
        /\ queue = [queue EXCEPT ![w] = queue[w]] /\ log = [log EXCEPT ![w] = log[w]]
        /\ current = [current EXCEPT ![w] = current[w]] /\ pc = [pc EXCEPT ![w] = pc[w]]
    BY <2>1, LineOfWebhook
  <2>6. current' = [current EXCEPT ![w] = current[w]] /\ pc' = [pc EXCEPT ![w] = pc[w]]
    BY <1>1, <2>5 DEF wvars
  <2>7. pending' = r
    BY <2>2
  <2> HIDE DEF wt
  <2>8. CASE queue' = [queue EXCEPT ![w] = Enqueued(@, ev)] /\ UNCHANGED log
    <3>1. Line(sent, w, Waiting(r, w), Append(queue[w], ev), current[w], log[w])
      BY <1>1, <2>3, <2>c, <2>5, LineEnqueue
    <3>2. queue' = [queue EXCEPT ![w] = Append(queue[w], ev)] /\ log' = [log EXCEPT ![w] = log[w]]
      BY <2>5, <2>8 DEF Enqueued
    <3> QED
      BY <1>1, <2>1, <2>3, <2>4, <2>5, <2>6, <2>7, <3>1, <3>2, LineFrame
  <2>9. CASE Overflow(w, ev)
    <3>1. <<"overflow">> \in Ends /\ <<"overflow">> \in Silent /\ <<"overflow">> \in Final
      <4>1. <<"overflow">> # << >> /\ <<"overflow">> # <<"received">>
        OBVIOUS
      <4> QED
        BY <4>1 DEF Ends, Silent, Final
    <3>2. Line(sent, w, Waiting(r, w), queue[w], current[w], Extended(log[w], ev, <<"overflow">>))
      BY <1>1, <2>3, <2>c, <2>5, <3>1, LineOverflow
    <3>3. queue' = [queue EXCEPT ![w] = queue[w]]
          /\ log' = [log EXCEPT ![w] = Extended(log[w], ev, <<"overflow">>)]
      BY <2>5, <2>9, LoggedFacts DEF Overflow
    <3> QED
      BY <1>1, <2>1, <2>3, <2>4, <2>5, <2>6, <2>7, <3>2, <3>3, LineFrame
  <2> QED
    BY <1>3, <2>8, <2>9
<1> QED
  BY <1>2, <1>3 DEF Offer

\* The cancellation ends nothing by itself.
LEMMA LineCancels == ASSUME LineInv, Cancel PROVE LineInv'
<1> DEFINE mark == [ev |-> NoEvent, what |-> "cancelled"]
<1>1. mark.what = "cancelled" /\ mark.ev = NoEvent /\ log' = [v \in Webhooks |-> Append(log[v], mark)]
      /\ UNCHANGED <<clock, sent, pending, queue, current, pc>>
  BY DEF Cancel, wvars
<1> HIDE DEF mark
<1>2. \A v \in Webhooks : Line(sent, v, Waiting(pending, v), queue[v], current[v], log'[v])
  <2> SUFFICES ASSUME NEW v \in Webhooks
               PROVE  Line(sent, v, Waiting(pending, v), queue[v], current[v], Append(log[v], mark))
    BY <1>1
  <2> QED
    BY <1>1, LineCancel DEF LineInv
<1>3. log' = [v \in Webhooks |-> log'[v]]
  BY <1>1
<1> QED
  BY <1>1, <1>2, <1>3 DEF LineInv, SentInv

\* A Notify call adds its events to every line they reach.
LEMMA LineFed == ASSUME LineInv, Fed PROVE LineInv'
<1>1. PICK evs : /\ Batch(evs, clock') /\ sent' = sent \o evs /\ pending' = Fanout(evs)
                 /\ clock' \in Nat /\ clock < clock' /\ pending = << >>
                 /\ UNCHANGED <<queue, current, pc, log>>
  BY DEF Fed, wvars
<1>2. SentInv'
  BY <1>1, SentGrows DEF LineInv
<1>3. Story(sent) /\ Story(sent') /\ evs \in Seq(Event) /\ Distinct(sent \o evs)
  <2>1. Story(sent)
    BY SentIsStory DEF LineInv
  <2>2. Story(sent')
    BY <1>2, EventsAreEvents, SeqFacts DEF SentInv, Story, Distinct
  <2>3. evs \in Seq(Event)
    BY <1>1 DEF Batch
  <2> QED
    BY <1>1, <2>1, <2>2, <2>3 DEF Story
<1>4. /\ HandingOut(sent', pending')
      /\ \A w \in Webhooks : Waiting(pending', w) = {e \in Known(evs) : Reached(w, e)}
  BY <1>1, <1>3, FanoutFacts
<1>5. ASSUME NEW w \in Webhooks
      PROVE  Line(sent', w, Waiting(pending', w), queue'[w], current'[w], log'[w])
  <2>1. Waiting(pending, w) = {}
    BY <1>1 DEF Waiting
  <2>2. Line(sent, w, {}, queue[w], current[w], log[w])
    BY <2>1 DEF LineInv
  <2>3. Line(sent \o evs, w, {e \in Known(evs) : Reached(w, e)}, queue[w], current[w], log[w])
    BY <1>3, <2>2, LineEmit
  <2> QED
    BY <1>1, <1>4, <2>3
<1> QED
  BY <1>1, <1>2, <1>4, <1>5 DEF LineInv

\* A worker ends the head, takes it, or tries what it took.
LEMMA LineWorker == ASSUME LineInv, NEW w \in Webhooks, Worker(w) PROVE LineInv'
<1> DEFINE wt == Waiting(pending, w)
<1>1. /\ Story(sent) /\ HandingOut(sent, pending)
      /\ Line(sent, w, wt, queue[w], current[w], log[w])
      /\ pc[w] \in {"ready", "inflight", "backoff"} <=> current[w] # NoEvent
      /\ queue = [queue EXCEPT ![w] = queue[w]] /\ log = [log EXCEPT ![w] = log[w]]
      /\ current = [current EXCEPT ![w] = current[w]] /\ pc = [pc EXCEPT ![w] = pc[w]]
      /\ UNCHANGED <<clock, sent>> /\ pending' = pending /\ pc[w] \in WorkerStates
  BY LineOfWebhook, WorkerShape
<1> HIDE DEF wt
<1>2. ASSUME NEW q, NEW c, NEW l, NEW p \in WorkerStates, Line(sent, w, wt, q, c, l),
             p \in {"ready", "inflight", "backoff"} <=> c # NoEvent,
             queue' = [queue EXCEPT ![w] = q], current' = [current EXCEPT ![w] = c],
             log' = [log EXCEPT ![w] = l], pc' = [pc EXCEPT ![w] = p]
      PROVE  LineInv'
  <2>1. \A v \in Webhooks \ {w} : Waiting(pending, v) = Waiting(pending, v)
    OBVIOUS
  <2>2. Line(sent, w, Waiting(pending, w), q, c, l)
    BY <1>2 DEF wt
  <2> QED
    BY <1>1, <1>2, <2>2, LineFrame
<1>3. ASSUME NEW whats, Drops(w, whats) PROVE LineInv'
  <2>1. whats \in Ends /\ whats \in Silent /\ whats \in Final
    <3>1. /\ <<"gaveup">> # << >> /\ <<"gaveup">> # <<"received">>
          /\ <<"limited">> # << >> /\ <<"limited">> # <<"received">>
      OBVIOUS
    <3> QED
      BY <1>3, <3>1 DEF Drops, Ends, Silent, Final
  <2>2. pc[w] = "idle" /\ current[w] = NoEvent /\ queue[w] # << >>
    BY <1>1, <1>3 DEF Drops
  <2>3. Line(sent, w, wt, Tail(queue[w]), NoEvent, Extended(log[w], Head(queue[w]), whats))
    BY <1>1, <2>1, <2>2, LineDrop
  <2>4. /\ queue' = [queue EXCEPT ![w] = Tail(queue[w])]
        /\ log' = [log EXCEPT ![w] = Extended(log[w], Head(queue[w]), whats)]
    BY <1>3, LoggedFacts DEF Drops
  <2>5. current' = [current EXCEPT ![w] = NoEvent] /\ pc' = [pc EXCEPT ![w] = "idle"]
    BY <1>1, <1>3, <2>2 DEF Drops, wvars
  <2> QED
    BY <1>2, <2>3, <2>4, <2>5 DEF WorkerStates
<1>4. CASE TakesUp(w)
  <2>1. pc[w] = "idle" /\ current[w] = NoEvent /\ queue[w] # << >>
    BY <1>1, <1>4 DEF TakesUp
  <2>2. Line(sent, w, wt, Tail(queue[w]), Head(queue[w]), log[w]) /\ Head(queue[w]) # NoEvent
    BY <1>1, <2>1, LineTake
  <2>3. /\ queue' = [queue EXCEPT ![w] = Tail(queue[w])] /\ log' = [log EXCEPT ![w] = log[w]]
        /\ current' = [current EXCEPT ![w] = Head(queue[w])] /\ pc' = [pc EXCEPT ![w] = "ready"]
    BY <1>1, <1>4 DEF TakesUp
  <2> QED
    BY <1>2, <2>2, <2>3 DEF WorkerStates
<1>5. CASE Moves(w)
  <2>1. /\ queue' = [queue EXCEPT ![w] = queue[w]] /\ log' = [log EXCEPT ![w] = log[w]]
        /\ current' = [current EXCEPT ![w] = current[w]]
    BY <1>1, <1>5 DEF Moves
  <2>2. PICK p \in WorkerStates : /\ pc' = [pc EXCEPT ![w] = p]
                                  /\ p \in {"ready", "inflight", "backoff"} <=> current[w] # NoEvent
    BY <1>1, <1>5 DEF Moves, WorkerStates
  <2> QED
    BY <1>1, <1>2, <2>1, <2>2
<1>6. ASSUME NEW whats, Tries(w, whats) PROVE LineInv'
  <2>1. current[w] # NoEvent /\ whats \in Ends
    BY <1>1, <1>6 DEF Tries
  <2>2. /\ queue' = [queue EXCEPT ![w] = queue[w]]
        /\ log' = [log EXCEPT ![w] = Extended(log[w], current[w], whats)]
    BY <1>1, <1>6, LoggedFacts DEF Tries
  <2>3. Line(sent, w, wt, queue[w], IF whats \in Final THEN NoEvent ELSE current[w],
             Extended(log[w], current[w], whats))
    BY <1>1, <2>1, LineTries
  <2>4. CASE whats \in Final
    <3>1. Line(sent, w, wt, queue[w], NoEvent, Extended(log[w], current[w], whats))
      BY <2>3, <2>4
    <3>2. pc' = [pc EXCEPT ![w] = "idle"] /\ current' = [current EXCEPT ![w] = NoEvent]
      BY <1>6, <2>4 DEF Tries
    <3> QED
      BY <1>2, <2>2, <3>1, <3>2 DEF WorkerStates
  <2>5. CASE whats \notin Final
    <3>1. Line(sent, w, wt, queue[w], current[w], Extended(log[w], current[w], whats))
      BY <2>3, <2>5
    <3>2. pc' = [pc EXCEPT ![w] = "backoff"] /\ current' = [current EXCEPT ![w] = current[w]]
      BY <1>1, <1>6, <2>5 DEF Tries
    <3> QED
      BY <1>2, <2>1, <2>2, <3>1, <3>2 DEF WorkerStates
  <2> QED
    BY <2>4, <2>5
<1> QED
  BY <1>3, <1>4, <1>5, <1>6, WorkerShape

\* No event at all.
LEMMA LineStart == Init => LineInv
<1> SUFFICES ASSUME Init PROVE LineInv
  OBVIOUS
<1>1. sent = << >> /\ pending = << >> /\ clock = 0
  BY DEF Init
<1>2. SentInv /\ HandingOut(sent, pending)
  BY <1>1 DEF SentInv, HandingOut
<1>3. ASSUME NEW w \in Webhooks
      PROVE  Line(sent, w, Waiting(pending, w), << >>, NoEvent, << >>)
  <2>1. /\ Waiting(<< >>, w) = {} /\ Known(<< >>) = {} /\ Over(<< >>) = {} /\ Received(<< >>) = {}
        /\ IsSequence(<< >>) /\ DOMAIN << >> = {}
    BY DEF Waiting, Known, Over, Received, IsSequence
  <2> QED
    BY <1>1, <2>1 DEF Line, LogInv
<1> QED
  BY <1>2, <1>3 DEF Init, LineInv, WorkerStates

\* LineInv is inductive.
LEMMA LineStep == ASSUME LineInv, [Onward]_vars PROVE LineInv'
<1>1. CASE BeginStop \/ EndStop
  BY <1>1 DEF BeginStop, EndStop, wvars, LineInv, SentInv
<1>2. CASE UNCHANGED vars
  BY <1>2 DEF vars, wvars, LineInv, SentInv
<1> QED
  BY <1>1, <1>2, LineFed, LineCancels, LineOffer, LineWorker DEF Onward, Collector

-----------------------------------------------------------------------------
\* What the lines say of the events.

\* A set whose elements are all equal has one at most.
LEMMA AtMostOne ==
  ASSUME NEW S, \A x, y \in S : x = y
  PROVE  Cardinality(S) = IF S = {} THEN 0 ELSE 1
<1>1. CASE S = {}
  <2>1. Cardinality({}) = 0
    BY FS_EmptySet
  <2> QED
    BY <1>1, <2>1
<1>2. CASE S # {}
  <2>1. PICK x : S = {x}
    BY <1>2
  <2>2. Cardinality({x}) = 1
    BY FS_Singleton
  <2> QED
    BY <1>2, <2>1, <2>2
<1> QED
  BY <1>1, <1>2

\* An event of the line is in exactly one of its parts.
LEMMA InOnePlace ==
  ASSUME NEW s, Story(s), NEW p, HandingOut(s, p), NEW w, NEW q, NEW c, NEW l,
         Line(s, w, Waiting(p, w), q, c, l), NEW e \in Known(s), Reached(w, e)
  PROVE  Cardinality({i \in DOMAIN p : p[i].ev = e /\ w \in p[i].to})
         + Cardinality({i \in DOMAIN q : q[i] = e})
         + (IF c = e THEN 1 ELSE 0)
         + Cardinality({i \in DOMAIN l : l[i].ev = e /\ l[i].what # "received"}) = 1
<1> DEFINE P == {i \in DOMAIN p : p[i].ev = e /\ w \in p[i].to}
           Q == {i \in DOMAIN q : q[i] = e}
           L == {i \in DOMAIN l : l[i].ev = e /\ l[i].what # "received"}
           wt == Waiting(p, w)
<1>1. PosIn(s, e) \in Nat /\ e # NoEvent
  BY KnownFacts
<1>2. Cardinality(P) = IF P = {} THEN 0 ELSE 1
  <2>1. ASSUME NEW i \in P, NEW j \in P PROVE i = j
    <3>1. i \in DOMAIN p /\ j \in DOMAIN p /\ p[i].ev = e /\ p[j].ev = e
      OBVIOUS
    <3>2. i \in Nat /\ j \in Nat
      BY <3>1, SeqFacts DEF HandingOut
    <3>3. ~(i < j) /\ ~(j < i)
      BY <1>1, <3>1 DEF HandingOut
    <3> QED
      BY <3>2, <3>3
  <2> HIDE DEF P
  <2> QED
    BY <2>1, AtMostOne
<1>3. Cardinality(Q) = IF Q = {} THEN 0 ELSE 1
  <2>1. ASSUME NEW i \in Q, NEW j \in Q PROVE i = j
    <3>1. i \in DOMAIN q /\ j \in DOMAIN q /\ q[i] = e /\ q[j] = e
      OBVIOUS
    <3>2. i \in Nat /\ j \in Nat
      BY <3>1, SeqFacts DEF Line
    <3>3. ~(i < j) /\ ~(j < i)
      BY <1>1, <3>1 DEF Line
    <3> QED
      BY <3>2, <3>3
  <2> HIDE DEF Q
  <2> QED
    BY <2>1, AtMostOne
<1>4. \A i \in DOMAIN l : l[i].ev = e /\ l[i].what # "received" <=> l[i].ev = e /\ HasEnded(l, i)
  BY <1>1 DEF Line, LogInv, HasEnded
<1>5. Cardinality(L) = IF L = {} THEN 0 ELSE 1
  <2>1. ASSUME NEW i \in L, NEW j \in L PROVE i = j
    BY <1>4 DEF Line, LogInv
  <2> HIDE DEF L
  <2> QED
    BY <2>1, AtMostOne
<1>6. (P # {} <=> e \in wt) /\ (Q # {} <=> e \in Known(q)) /\ (L # {} <=> e \in Over(l))
  <2>1. P # {} <=> e \in wt
    BY DEF Waiting
  <2>2. Q # {} <=> e \in Known(q)
    BY DEF Known
  <2>3. L # {} <=> e \in Over(l)
    BY <1>4 DEF Over
  <2> QED
    BY <2>1, <2>2, <2>3
<1> HIDE DEF P, Q, L, wt
<1>7. /\ ~(e \in wt /\ e \in Known(q)) /\ ~(c = e /\ e \in Known(q) \union wt)
      /\ ~(e \in Over(l) /\ (e \in wt \/ e \in Known(q) \/ c = e))
      /\ e \in wt \/ e \in Known(q) \/ c = e \/ e \in Over(l)
  <2>1. ~(e \in wt /\ e \in Known(q))
    BY <1>1 DEF Line, wt
  <2>2. ~(c = e /\ e \in Known(q) \union wt)
    BY <1>1 DEF Line, wt
  <2>3. ~(e \in Over(l) /\ (e \in wt \/ e \in Known(q) \/ c = e))
    BY DEF Line, wt
  <2>4. e \in wt \/ e \in Known(q) \/ c = e \/ e \in Over(l)
    BY DEF Line, wt
  <2> QED
    BY <2>1, <2>2, <2>3, <2>4
<1>8. Cardinality(P) + Cardinality(Q) + (IF c = e THEN 1 ELSE 0) + Cardinality(L) = 1
  BY <1>2, <1>3, <1>5, <1>6, <1>7
<1> QED
  BY <1>8 DEF P, Q, L

\* Accounted: no event is lost or doubled on its way.
LEMMA OnePlace == LineInv => Accounted
<1> SUFFICES ASSUME LineInv, NEW w \in Webhooks, NEW i \in DOMAIN sent,
                    EventReaches(sent[i], MinLevel[w])
             PROVE  Copies(w, sent[i]) = 1
  BY DEF Accounted
<1> DEFINE e == sent[i]
<1>1. e \in Known(sent) /\ Reached(w, e)
  BY DEF Known, Reached
<1> HIDE DEF e
<1>2. Cardinality({j \in DOMAIN pending : pending[j].ev = e /\ w \in pending[j].to})
      + Cardinality({j \in DOMAIN queue[w] : queue[w][j] = e})
      + (IF current[w] = e THEN 1 ELSE 0)
      + Cardinality({j \in DOMAIN log[w] : log[w][j].ev = e /\ log[w][j].what # "received"}) = 1
  BY <1>1, LineOfWebhook, InOnePlace
<1>3. Copies(w, e) = 1
  BY <1>2 DEF Copies, Indices
<1> QED
  BY <1>3 DEF e

\* The first entry that received an event.
LEMMA FirstOne ==
  ASSUME NEW s, Story(s), NEW e \in Known(s)
  PROVE  SelectInSeq(s, LAMBDA x : x = e) = PosIn(s, e)
<1> DEFINE I == {i \in 1..Len(s) : s[i] = e}
           p == PosIn(s, e)
<1>1. p \in I /\ p \in Nat
  BY KnownFacts, SeqFacts DEF Story
<1>2. \A i \in I : i = p
  <2>1. \A i \in I : i \in DOMAIN s /\ s[i] = e
    BY SeqFacts DEF Story
  <2> QED
    BY <2>1, <1>1 DEF Story, Distinct
<1>3. Min(I) = p
  <2> HIDE DEF I, p
  <2>1. p \in I /\ \A i \in I : p =< i
    BY <1>1, <1>2
  <2>2. Min(I) \in I
    BY <2>1 DEF Min
  <2> QED
    BY <1>2, <2>2
<1> QED
  BY <1>1, <1>3 DEF SelectInSeq

\* InOrder: an endpoint sees the events in the order they happened.
LEMMA KeptInOrder == LineInv => InOrder
<1> SUFFICES ASSUME LineInv PROVE InOrder
  OBVIOUS
<1>1. ASSUME NEW w \in Webhooks, NEW i \in DOMAIN log[w], NEW j \in DOMAIN log[w],
             log[w][i].what = "received", log[w][j].what = "received", i < j
      PROVE  SelectInSeq(sent, LAMBDA e : e = log[w][i].ev)
               <= SelectInSeq(sent, LAMBDA e : e = log[w][j].ev)
  <2>1. Story(sent) /\ LogInv(sent, w, log[w])
    BY LineOfWebhook DEF Line
  <2>2. log[w][i].ev \in Known(sent) /\ log[w][j].ev \in Known(sent)
    BY <1>1, <2>1 DEF LogInv
  <2>3. PosIn(sent, log[w][i].ev) <= PosIn(sent, log[w][j].ev)
    BY <1>1, <2>1 DEF LogInv
  <2>4. SelectInSeq(sent, LAMBDA e : e = log[w][i].ev) = PosIn(sent, log[w][i].ev)
    BY <2>1, <2>2, FirstOne
  <2>5. SelectInSeq(sent, LAMBDA e : e = log[w][j].ev) = PosIn(sent, log[w][j].ev)
    BY <2>1, <2>2, FirstOne
  <2> QED
    BY <2>3, <2>4, <2>5
<1> QED
  BY <1>1 DEF InOrder, Indices

-----------------------------------------------------------------------------
\* A step, as one webhook sees it.

\* e is new to the endpoint behind w, and later than all it was sent.
NewTo(w, e) ==
  /\ e \in Known(sent) /\ e \notin Over(log[w])
  /\ \A f \in Received(log[w]) : PosIn(sent, f) < PosIn(sent, e)

\* What a step may be to w: nothing but an entry of another kind, the loss of an event, the
\* cancellation, the start of a delivery, a move of its worker, or what an attempt came to.
Rests(w) ==
  pc'[w] = pc[w] /\ attempt'[w] = attempt[w] /\ current'[w] = current[w] /\ lastSent'[w] = lastSent[w]

Loses(w, e, whats) ==
  /\ NewTo(w, e) /\ whats \in {<<"overflow">>, <<"limited">>, <<"gaveup">>}
  /\ whats = <<"limited">> => Suppressed(w, e)
  /\ Rests(w) /\ log'[w] = Extended(log[w], e, whats)

Hears(w) ==
  Rests(w) /\ log'[w] = Append(log[w], [ev |-> NoEvent, what |-> "cancelled"])

Starts(w, e) ==
  /\ pc[w] = "idle" /\ NewTo(w, e) /\ ~Suppressed(w, e)
  /\ pc'[w] = "ready" /\ current'[w] = e
  /\ attempt'[w] = attempt[w] /\ lastSent'[w] = lastSent[w] /\ log'[w] = log[w]

Goes(w) ==
  /\ \/ pc[w] = "idle" /\ pc'[w] = "exited" /\ attempt'[w] = attempt[w]
     \/ pc[w] = "ready" /\ pc'[w] = "inflight" /\ attempt'[w] = attempt[w]
     \/ pc[w] = "backoff" /\ pc'[w] = "ready" /\ attempt'[w] = attempt[w] + 1
  /\ current'[w] = current[w] /\ lastSent'[w] = lastSent[w] /\ log'[w] = log[w]

Attempts(w, whats) ==
  /\ pc[w] \in {"ready", "inflight", "backoff"} /\ whats \in Ends /\ whats # <<"limited">>
  /\ whats \notin Silent => pc[w] = "inflight"
  /\ log'[w] = Extended(log[w], current[w], whats)
  /\ IF whats \in Final
     THEN pc'[w] = "idle" /\ current'[w] = NoEvent /\ attempt'[w] = 0
     ELSE /\ pc'[w] = "backoff" /\ current'[w] = current[w] /\ attempt'[w] = attempt[w]
          /\ ~(attempt[w] >= MaxRetries) /\ pc[w] # "backoff"
  /\ lastSent'[w] = IF whats = Confirmed THEN RecordSent(w, current[w]) ELSE lastSent[w]

Step(w) ==
  \/ Rests(w) /\ log'[w] = log[w]
  \/ \E e, whats : Loses(w, e, whats)
  \/ Hears(w)
  \/ \E e : Starts(w, e)
  \/ Goes(w)
  \/ \E whats : Attempts(w, whats)

\* attempt and lastSent belong to the webhooks, as the variables of LineInv do.
OwnInv == attempt = [w \in Webhooks |-> attempt[w]] /\ lastSent = [w \in Webhooks |-> lastSent[w]]

\* The head of a queue is known and has no end yet.
LEMMA FirstInLine ==
  ASSUME LineInv, NEW w \in Webhooks, queue[w] # << >>
  PROVE  NewTo(w, Head(queue[w]))
<1>1. /\ Story(sent) /\ Line(sent, w, Waiting(pending, w), queue[w], current[w], log[w])
  BY LineOfWebhook
<1>2. Head(queue[w]) \in Known(sent) /\ Head(queue[w]) \in Known(queue[w])
  BY <1>1, LineHead
<1>3. Head(queue[w]) \notin Over(log[w])
  BY <1>1, <1>2 DEF Line
<1>4. \A f \in Received(log[w]) : PosIn(sent, f) < PosIn(sent, Head(queue[w]))
  BY <1>1, <1>2 DEF Line
<1> QED
  BY <1>2, <1>3, <1>4 DEF NewTo

\* Seen from one webhook, every step is a Step.
LEMMA StepOfWebhook ==
  ASSUME LineInv, OwnInv, [Onward]_vars, NEW w \in Webhooks
  PROVE  Step(w)
<1>1. /\ queue = [v \in Webhooks |-> queue[v]] /\ log = [v \in Webhooks |-> log[v]]
      /\ current = [v \in Webhooks |-> current[v]] /\ pc \in [Webhooks -> WorkerStates]
      /\ attempt = [v \in Webhooks |-> attempt[v]] /\ lastSent = [v \in Webhooks |-> lastSent[v]]
  BY DEF LineInv, OwnInv
<1>2. CASE UNCHANGED <<wvars, log>>
  BY <1>2 DEF Step, Rests, wvars
<1>3. CASE Cancel
  BY <1>3 DEF Cancel, Step, Rests, Hears, wvars
<1>4. CASE Offer
  <2>1. UNCHANGED wvars /\ pending # << >>
    BY <1>4 DEF Offer
  <2>2. Rests(w)
    BY <2>1 DEF Rests, wvars
  <2>3. CASE log' = log
    BY <2>2, <2>3 DEF Step
  <2>4. ASSUME NEW v, v \in Head(pending).to, Overflow(v, Head(pending).ev) PROVE Step(w)
    <3>1. log' = [log EXCEPT ![v] = Extended(log[v], Head(pending).ev, <<"overflow">>)]
      BY <2>4, LoggedFacts DEF Overflow
    <3>2. CASE v = w
      <4>1. /\ Story(sent) /\ HandingOut(sent, pending)
            /\ Line(sent, w, Waiting(pending, w), queue[w], current[w], log[w])
        BY LineOfWebhook
      <4>2. Head(pending).ev \in Waiting(pending, w)
        BY <2>1, <2>4, <3>2, <4>1, HandedOut
      <4> DEFINE e == Head(pending).ev
      <4>3. log'[w] = Extended(log[w], e, <<"overflow">>) /\ e \in Waiting(pending, w)
        BY <1>1, <3>1, <3>2, <4>2
      <4> HIDE DEF e
      <4>4. NewTo(w, e)
        BY <4>1, <4>3 DEF NewTo, Line
      <4>5. <<"overflow">> # <<"limited">>
        OBVIOUS
      <4>6. Loses(w, e, <<"overflow">>)
        BY <2>2, <4>3, <4>4, <4>5 DEF Loses
      <4> QED
        BY <4>6 DEF Step
    <3>3. CASE v # w
      <4>1. log'[w] = log[w]
        BY <1>1, <3>1, <3>3
      <4> QED
        BY <2>2, <4>1 DEF Step
    <3> QED
      BY <3>2, <3>3
  <2> QED
    BY <1>4, <2>3, <2>4 DEF Offer
<1>5. ASSUME NEW v \in Webhooks, Worker(v) PROVE Step(w)
  <2>1. ASSUME NEW whats, Drops(v, whats) PROVE Step(w)
    <3>1. /\ log' = [log EXCEPT ![v] = Extended(log[v], Head(queue[v]), whats)] /\ queue[v] # << >>
          /\ Rests(w)
      BY <2>1, LoggedFacts DEF Drops, Rests, wvars
    <3>2. CASE v = w
      <4>1. log'[w] = Extended(log[w], Head(queue[w]), whats) /\ NewTo(w, Head(queue[w]))
        BY <1>1, <3>1, <3>2, FirstInLine
      <4>2. Loses(w, Head(queue[w]), whats)
        BY <2>1, <3>1, <3>2, <4>1 DEF Loses, Drops
      <4> QED
        BY <4>2 DEF Step
    <3>3. CASE v # w
      BY <1>1, <3>1, <3>3 DEF Step
    <3> QED
      BY <3>2, <3>3
  <2>2. CASE TakesUp(v)
    <3>1. CASE v = w
      <4>1. NewTo(w, Head(queue[w]))
        BY <2>2, <3>1, FirstInLine DEF TakesUp
      <4>2. Starts(w, Head(queue[w]))
        BY <1>1, <2>2, <3>1, <4>1 DEF TakesUp, Starts
      <4> QED
        BY <4>2 DEF Step
    <3>2. CASE v # w
      BY <1>1, <2>2, <3>2 DEF TakesUp, Step, Rests
    <3> QED
      BY <3>1, <3>2
  <2>3. CASE Moves(v)
    <3>1. CASE v = w
      BY <1>1, <2>3, <3>1 DEF Moves, Goes, Step
    <3>2. CASE v # w
      BY <1>1, <2>3, <3>2 DEF Moves, Step, Rests
    <3> QED
      BY <3>1, <3>2
  <2>4. ASSUME NEW whats, Tries(v, whats) PROVE Step(w)
    <3>1. log' = [log EXCEPT ![v] = Extended(log[v], current[v], whats)]
      BY <2>4, LoggedFacts DEF Tries
    <3>2. CASE v = w
      <4>1. log'[w] = Extended(log[w], current[w], whats)
        BY <1>1, <3>1, <3>2
      <4>2. lastSent'[w] = IF whats = Confirmed THEN RecordSent(w, current[w]) ELSE lastSent[w]
        BY <1>1, <2>4, <3>2 DEF Tries
      <4>3. IF whats \in Final
            THEN pc'[w] = "idle" /\ current'[w] = NoEvent /\ attempt'[w] = 0
            ELSE /\ pc'[w] = "backoff" /\ current'[w] = current[w] /\ attempt'[w] = attempt[w]
                 /\ ~(attempt[w] >= MaxRetries) /\ pc[w] # "backoff"
        BY <1>1, <2>4, <3>2 DEF Tries
      <4>4. Attempts(w, whats)
        BY <2>4, <3>2, <4>1, <4>2, <4>3 DEF Tries, Attempts
      <4> QED
        BY <4>4 DEF Step
    <3>3. CASE v # w
      <4>1. pc'[w] = pc[w] /\ current'[w] = current[w] /\ attempt'[w] = attempt[w]
        BY <1>1, <2>4, <3>3 DEF Tries
      <4>2. lastSent'[w] = lastSent[w] /\ log'[w] = log[w]
        BY <1>1, <2>4, <3>1, <3>3 DEF Tries
      <4> QED
        BY <4>1, <4>2 DEF Step, Rests
    <3> QED
      BY <3>2, <3>3
  <2> QED
    BY <1>5, <2>1, <2>2, <2>3, <2>4, WorkerShape
<1>6. CASE Fed
  <2>1. UNCHANGED <<wvars, log>>
    BY <1>6 DEF Fed
  <2> QED
    BY <1>2, <2>1
<1>7. CASE BeginStop \/ EndStop \/ UNCHANGED vars
  BY <1>2, <1>7 DEF BeginStop, EndStop, vars, wvars
<1> QED
  BY <1>3, <1>4, <1>5, <1>6, <1>7 DEF Onward, Collector

\* attempt and lastSent keep their domains.
LEMMA OwnStep == ASSUME OwnInv, [Onward]_vars PROVE OwnInv'
<1>1. CASE UNCHANGED wvars
  BY <1>1 DEF OwnInv, wvars
<1>2. ASSUME NEW v \in Webhooks, Worker(v) PROVE OwnInv'
  BY <1>2, WorkerShape DEF OwnInv, Drops, TakesUp, Moves, Tries, wvars
<1>3. CASE Fed \/ Cancel \/ Offer \/ BeginStop \/ EndStop \/ UNCHANGED vars
  BY <1>1, <1>3 DEF Fed, Cancel, Offer, BeginStop, EndStop, vars
<1> QED
  BY <1>2, <1>3 DEF Onward, Collector

-----------------------------------------------------------------------------
\* Retries.

\* The entries that received an event are finitely many.
LEMMA CountFinite ==
  ASSUME NEW l, IsSequence(l), NEW e
  PROVE  IsFiniteSet({i \in DOMAIN l : l[i].ev = e /\ l[i].what = "received"}) /\ Count(l, e) \in Nat
<1>1. DOMAIN l = 1..Len(l) /\ Len(l) \in Nat
  BY DEF IsSequence
<1>2. IsFiniteSet(1..Len(l))
  BY <1>1, FS_Interval
<1>3. {i \in DOMAIN l : l[i].ev = e /\ l[i].what = "received"} \subseteq 1..Len(l)
  BY <1>1
<1>4. IsFiniteSet({i \in DOMAIN l : l[i].ev = e /\ l[i].what = "received"})
  BY <1>2, <1>3, FS_Subset
<1> QED
  BY <1>4, FS_CardinalityType DEF Count

\* Received once more, or as often as before.
LEMMA CountGrows ==
  ASSUME NEW l, IsSequence(l), NEW e, NEW whats \in Ends, NEW t, t = Extended(l, e, whats), NEW f
  PROVE  Count(t, f) = Count(l, f) + IF whats \notin Silent /\ f = e THEN 1 ELSE 0
<1> DEFINE A == {i \in DOMAIN l : l[i].ev = f /\ l[i].what = "received"}
           B == {i \in DOMAIN t : t[i].ev = f /\ t[i].what = "received"}
           n == Len(l)
<1>1. /\ n \in Nat /\ DOMAIN l = 1..n /\ Len(whats) \in Nat
      /\ DOMAIN t = 1..(n + Len(whats))
      /\ \A i \in DOMAIN l : t[i] = l[i]
      /\ \A i \in 1..Len(whats) : t[n + i].ev = e /\ t[n + i].what = whats[i]
  BY Grown
<1>2. IsFiniteSet(A) /\ Count(l, f) = Cardinality(A) /\ Count(t, f) = Cardinality(B) /\ Count(l, f) \in Nat
  BY CountFinite DEF Count
<1>3. \A i \in DOMAIN t : i \in DOMAIN l \/ (i - n \in 1..Len(whats) /\ i = n + (i - n))
  BY <1>1
<1>4. \A i \in 1..Len(whats) : whats[i] = "received" <=> i = 1 /\ whats \notin Silent
  BY EndsFacts
<1>5. \A i \in DOMAIN t : i \notin DOMAIN l =>
        (t[i].what = "received" <=> i = n + 1 /\ whats \notin Silent) /\ t[i].ev = e
  <2> SUFFICES ASSUME NEW i \in DOMAIN t, i \notin DOMAIN l
               PROVE  (t[i].what = "received" <=> i = n + 1 /\ whats \notin Silent) /\ t[i].ev = e
    OBVIOUS
  <2> DEFINE k == i - n
  <2>1. k \in 1..Len(whats) /\ i = n + k
    BY <1>3
  <2> HIDE DEF k
  <2>2. t[i].ev = e /\ t[i].what = whats[k] /\ (i = n + 1 <=> k = 1)
    BY <1>1, <2>1
  <2> QED
    BY <1>4, <2>1, <2>2
<1>6. whats \notin Silent => n + 1 \in DOMAIN t /\ n + 1 \notin DOMAIN l
  BY <1>1, EndsFacts
<1>7. DOMAIN l \subseteq DOMAIN t
  BY <1>1
<1> HIDE DEF n
<1>8. CASE whats \notin Silent /\ f = e
  <2>1. B = A \union {n + 1} /\ n + 1 \notin A
    BY <1>1, <1>5, <1>6, <1>7, <1>8
  <2> HIDE DEF A, B
  <2>2. Cardinality(A \union {n + 1}) = Cardinality(A) + 1
    BY <1>2, <2>1, FS_AddElement
  <2> QED
    BY <1>2, <1>8, <2>1, <2>2
<1>9. CASE ~(whats \notin Silent /\ f = e)
  <2>1. B = A
    BY <1>1, <1>5, <1>7, <1>9
  <2> HIDE DEF A, B
  <2> QED
    BY <1>2, <1>9, <2>1
<1> QED
  BY <1>8, <1>9

\* The mark of the cancellation is not a delivery.
LEMMA CountMarked ==
  ASSUME NEW l, IsSequence(l), NEW mark, mark.what = "cancelled", NEW f
  PROVE  Count(Append(l, mark), f) = Count(l, f)
<1>1. PICK S : l \in Seq(S)
  BY DEF IsSequence
<1>2. l \in Seq(S \union {mark}) /\ mark \in S \union {mark}
  BY <1>1
<1> DEFINE t == Append(l, mark)
<1>3. /\ Len(l) \in Nat /\ DOMAIN l = 1..Len(l) /\ DOMAIN t = 1..(Len(l) + 1) /\ t[Len(l) + 1] = mark
      /\ \A i \in DOMAIN l : t[i] = l[i]
  BY <1>2, AppendFacts
<1> HIDE DEF t
<1>4. \A i : i \in DOMAIN t /\ t[i].what = "received" <=> i \in DOMAIN l /\ l[i].what = "received"
  <2>1. \A i \in DOMAIN t : i \in DOMAIN l \/ t[i] = mark
    BY <1>3
  <2>2. DOMAIN l \subseteq DOMAIN t
    BY <1>3
  <2> QED
    BY <1>3, <2>1, <2>2
<1>5. {i \in DOMAIN t : t[i].ev = f /\ t[i].what = "received"}
        = {i \in DOMAIN l : l[i].ev = f /\ l[i].what = "received"}
  BY <1>3, <1>4
<1> QED
  BY <1>5 DEF Count, t

\* What was never received is counted zero times.
LEMMA CountNone ==
  ASSUME NEW l, NEW e, e \notin Received(l)
  PROVE  Count(l, e) = 0
<1>1. {i \in DOMAIN l : l[i].ev = e /\ l[i].what = "received"} = {}
  BY DEF Received
<1> QED
  BY <1>1, FS_EmptySet DEF Count

\* Retried is inductive for each webhook.
LEMMA RetryStep ==
  ASSUME LineInv, NEW w \in Webhooks, Retried(w), Step(w)
  PROVE  Retried(w)'
<1>1. /\ IsSequence(log[w]) /\ pc[w] \in WorkerStates /\ MaxRetries \in Nat
      /\ pc[w] \in {"ready", "inflight", "backoff"} <=> current[w] # NoEvent
  BY LineOfWebhook, LimitAssumption DEF Line, LogInv
<1>2. \A e \in Event : Count(log[w], e) \in Nat
  BY <1>1, CountFinite
<1>3. CASE Rests(w) /\ \A e \in Event : Count(log'[w], e) = Count(log[w], e)
  BY <1>3 DEF Retried, Rests, Made
<1>4. CASE log'[w] = log[w] /\ Rests(w)
  BY <1>3, <1>4
<1>5. ASSUME NEW e, NEW whats, Loses(w, e, whats) PROVE Retried(w)'
  <2>1. whats \in Ends /\ whats \in Silent
    BY <1>5 DEF Loses, Ends, Silent
  <2>2. ASSUME NEW f \in Event PROVE Count(log'[w], f) = Count(log[w], f)
    <3>1. Count(log'[w], f) = Count(log[w], f) + IF whats \notin Silent /\ f = e THEN 1 ELSE 0
      BY <1>1, <1>5, <2>1, CountGrows DEF Loses
    <3> QED
      BY <1>2, <2>1, <3>1
  <2> QED
    BY <1>3, <1>5, <2>2 DEF Loses
<1>6. CASE Hears(w)
  <2> DEFINE mark == [ev |-> NoEvent, what |-> "cancelled"]
  <2>1. log'[w] = Append(log[w], mark) /\ mark.what = "cancelled" /\ Rests(w)
    BY <1>6 DEF Hears
  <2> HIDE DEF mark
  <2> QED
    BY <1>1, <1>3, <2>1, CountMarked
<1>7. ASSUME NEW e, Starts(w, e) PROVE Retried(w)'
  <2>1. e \notin Received(log[w])
    <3>1. PosIn(sent, e) \in Nat
      BY <1>7, KnownFacts, LineOfWebhook DEF Starts, NewTo
    <3> QED
      BY <1>7, <3>1 DEF Starts, NewTo
  <2>2. Count(log[w], e) = 0
    BY <2>1, CountNone
  <2>3. current[w] = NoEvent /\ attempt[w] = 0
    BY <1>1, <1>7 DEF Starts, Retried
  <2>4. \A f \in Event : f # NoEvent
    BY EventsAreEvents
  <2> QED
    BY <1>1, <1>2, <1>7, <2>2, <2>3, <2>4 DEF Starts, Retried, Made
<1>8. CASE Goes(w)
  <2>1. Made(w)' = Made(w)
    BY <1>8 DEF Goes, Made
  <2>2. /\ attempt'[w] \in 0..MaxRetries /\ (pc'[w] = "backoff" => attempt'[w] < MaxRetries)
        /\ pc'[w] \in {"idle", "exited"} => attempt'[w] = 0
    BY <1>1, <1>8 DEF Goes, Retried
  <2> QED
    BY <1>8, <2>1, <2>2 DEF Goes, Retried
<1>9. ASSUME NEW whats, Attempts(w, whats) PROVE Retried(w)'
  <2>1. current[w] # NoEvent /\ whats \in Ends
    BY <1>1, <1>9 DEF Attempts
  <2>2. \A f \in Event : Count(log'[w], f) = Count(log[w], f) + IF whats \notin Silent /\ f = current[w] THEN 1 ELSE 0
    BY <1>1, <1>9, <2>1, CountGrows DEF Attempts
  <2>3. CASE whats \in Final
    <3>1. pc'[w] = "idle" /\ current'[w] = NoEvent /\ attempt'[w] = 0
      BY <1>9, <2>3 DEF Attempts
    <3>2. ASSUME NEW f \in Event PROVE Count(log'[w], f) <= MaxRetries + 1
      <4>1. CASE whats \notin Silent /\ f = current[w]
        <5>1. Made(w) <= MaxRetries /\ Count(log[w], f) <= Made(w) /\ Made(w) \in Nat
          BY <1>1, <1>9, <4>1 DEF Attempts, Retried, Made
        <5> QED
          BY <1>1, <1>2, <2>2, <4>1, <5>1
      <4>2. CASE ~(whats \notin Silent /\ f = current[w])
        <5>1. Made(w) <= MaxRetries + 1 /\ Made(w) \in Nat
          BY <1>1 DEF Retried, Made
        <5>2. Count(log'[w], f) = Count(log[w], f)
          BY <1>2, <2>2, <4>2
        <5> QED
          BY <1>1, <1>2, <5>1, <5>2 DEF Retried
      <4> QED
        BY <4>1, <4>2
    <3>3. \A f \in Event : f # NoEvent
      BY EventsAreEvents
    <3> QED
      BY <1>1, <3>1, <3>2, <3>3 DEF Retried
  <2>4. CASE whats \notin Final
    <3>1. /\ pc'[w] = "backoff" /\ current'[w] = current[w] /\ attempt'[w] = attempt[w]
          /\ attempt[w] < MaxRetries /\ pc[w] # "backoff"
      BY <1>1, <1>9, <2>4 DEF Attempts, Retried
    <3>2. Made(w)' = Made(w) + 1 /\ Made(w) \in Nat
      BY <1>1, <3>1 DEF Made, Retried
    <3>3. ASSUME NEW f \in Event
          PROVE  Count(log'[w], f) <= IF f = current'[w] THEN Made(w)' ELSE MaxRetries + 1
      <4>1. CASE f = current[w]
        <5>1. Count(log[w], f) <= Made(w)
          BY <4>1 DEF Retried
        <5>2. Count(log'[w], f) <= Count(log[w], f) + 1
          BY <1>2, <2>2
        <5>3. Count(log'[w], f) \in Nat
          BY <1>2, <2>2
        <5> QED
          BY <1>2, <3>1, <3>2, <4>1, <5>1, <5>2, <5>3
      <4>2. CASE f # current[w]
        <5>1. Count(log'[w], f) = Count(log[w], f)
          BY <1>2, <2>2, <4>2
        <5> QED
          BY <3>1, <4>2, <5>1 DEF Retried
      <4> QED
        BY <4>1, <4>2
    <3> QED
      BY <1>1, <3>1, <3>3 DEF Retried
  <2> QED
    BY <2>3, <2>4
<1> QED
  BY <1>4, <1>5, <1>6, <1>7, <1>8, <1>9 DEF Step

\* DuplicatesBounded.
LEMMA SentSeldom == LineInv /\ RetryInv => DuplicatesBounded
<1> SUFFICES ASSUME LineInv, RetryInv, NEW w \in Webhooks, NEW i \in DOMAIN log[w]
             PROVE  /\ Cardinality({j \in {n \in DOMAIN log[w] : log[w][n].ev = log[w][i].ev} :
                                      log[w][j].what = "received"}) <= MaxRetries + 1
                    /\ log[w][i].what = "confirmed" =>
                         \A j \in {n \in DOMAIN log[w] : log[w][n].ev = log[w][i].ev} : j <= i
  BY DEF DuplicatesBounded, Indices
<1> DEFINE e == log[w][i].ev
           l == log[w]
<1>1. LogInv(sent, w, l) /\ Story(sent) /\ Retried(w) /\ pc[w] \in WorkerStates /\ MaxRetries \in Nat
  BY LineOfWebhook, LimitAssumption DEF Line, RetryInv
<1>2. Cardinality({j \in {n \in DOMAIN l : l[n].ev = e} : l[j].what = "received"}) = Count(l, e)
  <2>1. {j \in {n \in DOMAIN l : l[n].ev = e} : l[j].what = "received"}
          = {j \in DOMAIN l : l[j].ev = e /\ l[j].what = "received"}
    OBVIOUS
  <2> QED
    BY <2>1 DEF Count
<1>3. Count(l, e) <= MaxRetries + 1
  <2>1. CASE l[i].what = "cancelled"
    <3>1. e = NoEvent /\ e \notin Received(l)
      BY <1>1, <2>1, KnownFacts DEF LogInv, Received
    <3>2. Count(l, e) = 0
      BY <3>1, CountNone
    <3> QED
      BY <1>1, <3>2
  <2>2. CASE l[i].what # "cancelled"
    <3>1. e \in Event
      BY <1>1, <2>2, KnownFacts DEF LogInv
    <3>2. Made(w) <= MaxRetries + 1 /\ Made(w) \in Nat
      BY <1>1 DEF Made, Retried
    <3>3. Count(l, e) \in Nat
      BY <1>1, CountFinite DEF LogInv
    <3> HIDE DEF e, l
    <3>4. Count(l, e) <= IF e = current[w] THEN Made(w) ELSE MaxRetries + 1
      BY <1>1, <3>1 DEF Retried, l
    <3> QED
      BY <1>1, <3>2, <3>3, <3>4
  <2> QED
    BY <2>1, <2>2
<1>4. ASSUME l[i].what = "confirmed", NEW j \in DOMAIN l, l[j].ev = e PROVE j <= i
  <2>1. HasEnded(l, i) /\ e \in Known(sent) /\ e # NoEvent
    BY <1>1, <1>4, KnownFacts DEF HasEnded, LogInv
  <2>2. i \in Nat /\ j \in Nat
    BY <1>1 DEF LogInv, IsSequence
  <2>3. l[j].what # "cancelled"
    BY <1>1, <1>4, <2>1 DEF LogInv
  <2>4. CASE l[j].what = "received"
    BY <1>1, <1>4, <2>1, <2>2, <2>4 DEF LogInv
  <2>5. CASE l[j].what # "received"
    BY <1>1, <1>4, <2>1, <2>2, <2>3, <2>5 DEF LogInv, HasEnded
  <2> QED
    BY <2>4, <2>5
<1> QED
  BY <1>2, <1>3, <1>4

-----------------------------------------------------------------------------
\* The rate limit.

\* An acknowledged delivery among the entries js of l kept e back.
Recent(l, js, e) ==
  \E j \in js : /\ l[j].what = "confirmed" /\ l[j].ev.key = e.key
                /\ l[j].ev # e /\ e.at - l[j].ev.at < MinInterval

\* The limiter dropped exactly what LimiterExact says.
Exact(l) ==
  \A i \in DOMAIN l :
    /\ l[i].what = "limited" => l[i].ev.kind = "fired" /\ Recent(l, 1..(i - 1), l[i].ev)
    /\ l[i].what = "received" /\ l[i].ev.kind = "fired" => ~Recent(l, 1..(i - 1), l[i].ev)

\* An event that has met an end meets no other.
LEMMA EndsOnce ==
  ASSUME NEW whats \in Ends, NEW i \in 1..Len(whats)
  PROVE  /\ whats[i] = "confirmed" => whats = Confirmed
         /\ whats[i] = "limited" => whats = <<"limited">> /\ i = 1
         /\ whats[i] = "received" => whats \notin Silent /\ i = 1
<1>1. CASE whats \in {<< >>, <<"overflow">>, <<"gaveup">>, <<"received">>, <<"received", "gaveup">>}
  <2>1. whats[i] \notin {"confirmed", "limited"}
    BY <1>1
  <2> QED
    BY <2>1, EndsFacts
<1>2. CASE whats = <<"limited">>
  BY <1>2
<1>3. CASE whats = <<"received", "confirmed">>
  <2>1. whats[i] # "limited"
    BY <1>3
  <2> QED
    BY <1>3, <2>1, EndsFacts DEF Confirmed
<1> QED
  BY <1>1, <1>2, <1>3 DEF Ends

\* What is new in an extended history.
LEMMA NewEntries ==
  ASSUME NEW l, IsSequence(l), NEW e, NEW whats \in Ends, NEW t, t = Extended(l, e, whats)
  PROVE  /\ Len(l) \in Nat /\ DOMAIN l = 1..Len(l) /\ DOMAIN l \subseteq DOMAIN t
         /\ \A i \in DOMAIN l : t[i] = l[i]
         /\ \A i \in DOMAIN t : i \notin DOMAIN l =>
              /\ t[i].ev = e
              /\ t[i].what = "confirmed" => whats = Confirmed
              /\ t[i].what = "limited" => whats = <<"limited">> /\ i = Len(l) + 1
              /\ t[i].what = "received" => whats \notin Silent /\ i = Len(l) + 1
         /\ whats = Confirmed => \E i \in DOMAIN t : t[i].what = "confirmed" /\ t[i].ev = e
<1> DEFINE n == Len(l)
           m == Len(whats)
<1>1. /\ n \in Nat /\ DOMAIN l = 1..n /\ m \in Nat /\ DOMAIN t = 1..(n + m)
      /\ \A i \in DOMAIN l : t[i] = l[i]
      /\ \A i \in 1..m : t[n + i].ev = e /\ t[n + i].what = whats[i]
  BY Grown
<1>2. ASSUME NEW i \in DOMAIN t, i \notin DOMAIN l
      PROVE  /\ t[i].ev = e
             /\ t[i].what = "confirmed" => whats = Confirmed
             /\ t[i].what = "limited" => whats = <<"limited">> /\ i = n + 1
             /\ t[i].what = "received" => whats \notin Silent /\ i = n + 1
  <2> DEFINE k == i - n
  <2>1. k \in 1..m /\ i = n + k
    BY <1>1, <1>2
  <2> HIDE DEF k
  <2>2. /\ whats[k] = "confirmed" => whats = Confirmed
        /\ whats[k] = "limited" => whats = <<"limited">> /\ k = 1
        /\ whats[k] = "received" => whats \notin Silent /\ k = 1
    BY <2>1, EndsOnce
  <2>3. t[i].ev = e /\ t[i].what = whats[k]
    BY <1>1, <2>1
  <2> QED
    BY <2>1, <2>2, <2>3
<1>3. whats = Confirmed => \E i \in DOMAIN t : t[i].what = "confirmed" /\ t[i].ev = e
  <2>1. whats = Confirmed => m = 2 /\ whats[2] = "confirmed"
    BY DEF Confirmed
  <2> HIDE DEF n, m
  <2>2. m = 2 => n + 2 \in DOMAIN t /\ t[n + 2].ev = e /\ t[n + 2].what = whats[2]
    BY <1>1
  <2> QED
    BY <2>1, <2>2
<1>4. DOMAIN l \subseteq DOMAIN t
  BY <1>1
<1> QED
  BY <1>1, <1>2, <1>3, <1>4

\* An end that agrees with the limiter keeps the history exact.
LEMMA ExactGrows ==
  ASSUME NEW l, IsSequence(l), Exact(l), NEW e, NEW whats \in Ends, NEW t, t = Extended(l, e, whats),
         whats = <<"limited">> => e.kind = "fired" /\ Recent(l, DOMAIN l, e),
         whats \notin Silent /\ e.kind = "fired" => ~Recent(l, DOMAIN l, e)
  PROVE  Exact(t)
<1>1. /\ Len(l) \in Nat /\ DOMAIN l = 1..Len(l)
      /\ \A i \in DOMAIN l : t[i] = l[i]
      /\ \A i \in DOMAIN t : i \notin DOMAIN l =>
           /\ t[i].ev = e
           /\ t[i].what = "limited" => whats = <<"limited">> /\ i = Len(l) + 1
           /\ t[i].what = "received" => whats \notin Silent /\ i = Len(l) + 1
  BY NewEntries
<1>2. ASSUME NEW i \in DOMAIN l PROVE \A f : Recent(t, 1..(i - 1), f) <=> Recent(l, 1..(i - 1), f)
  <2>1. \A j \in 1..(i - 1) : t[j] = l[j]
    BY <1>1
  <2> QED
    BY <2>1 DEF Recent
<1>3. \A f : Recent(t, 1..Len(l), f) <=> Recent(l, DOMAIN l, f)
  BY <1>1 DEF Recent
<1>4. Len(l) + 1 - 1 = Len(l)
  BY <1>1
<1> QED
  BY <1>1, <1>2, <1>3, <1>4 DEF Exact

\* The place of an event agrees with its time.
LEMMA InTime ==
  ASSUME SentInv, NEW e \in Known(sent), NEW f \in Known(sent), PosIn(sent, e) <= PosIn(sent, f)
  PROVE  e.at <= f.at
<1>1. /\ PosIn(sent, e) \in Nat /\ sent[PosIn(sent, e)] = e /\ PosIn(sent, e) \in DOMAIN sent
      /\ PosIn(sent, f) \in Nat /\ sent[PosIn(sent, f)] = f /\ PosIn(sent, f) \in DOMAIN sent
      /\ e.at \in Nat
  BY SentIsStory, KnownFacts, EventsAreEvents
<1>2. CASE PosIn(sent, e) = PosIn(sent, f)
  BY <1>1, <1>2
<1>3. CASE PosIn(sent, e) < PosIn(sent, f)
  BY <1>1, <1>3 DEF SentInv
<1> QED
  BY <1>1, <1>2, <1>3

\* What is confirmed was received.
LEMMA ConfirmedFacts ==
  ASSUME LineInv, NEW w \in Webhooks, NEW j \in DOMAIN log[w], log[w][j].what = "confirmed"
  PROVE  /\ log[w][j].ev \in Known(sent) /\ log[w][j].ev \in Received(log[w])
         /\ log[w][j].ev \in Over(log[w]) /\ log[w][j].ev.at \in Nat
<1>1. LogInv(sent, w, log[w]) /\ Story(sent) /\ HasEnded(log[w], j)
  BY LineOfWebhook DEF Line, HasEnded
<1> QED
  BY <1>1, KnownFacts, EventsAreEvents DEF LogInv, Over

\* No acknowledged delivery is in the way of what a worker delivers.
LEMMA NotKeptBack ==
  ASSUME LineInv, NEW w \in Webhooks, Limited(w), current[w] # NoEvent, current[w].kind = "fired"
  PROVE  ~Recent(log[w], DOMAIN log[w], current[w])
<1> SUFFICES ASSUME NEW j \in DOMAIN log[w], log[w][j].what = "confirmed",
                    log[w][j].ev.key = current[w].key, current[w].at - log[w][j].ev.at < MinInterval
             PROVE  FALSE
  BY DEF Recent
<1> DEFINE c == current[w]
           e == log[w][j].ev
<1>1. /\ c \in Known(sent) /\ c.at \in Nat /\ e \in Known(sent) /\ e.at \in Nat
      /\ PosIn(sent, e) <= PosIn(sent, c) /\ SentInv /\ MinInterval \in Nat
  <2>1. Story(sent) /\ Line(sent, w, Waiting(pending, w), queue[w], current[w], log[w])
    BY LineOfWebhook
  <2>2. c \in Known(sent)
    BY <2>1 DEF Line
  <2>3. c.at \in Nat
    BY <2>1, <2>2, KnownFacts, EventsAreEvents
  <2>4. e \in Received(log[w]) /\ e \in Known(sent) /\ e.at \in Nat
    BY ConfirmedFacts
  <2>5. PosIn(sent, e) <= PosIn(sent, c)
    BY <2>1, <2>4 DEF Line
  <2> QED
    BY <2>2, <2>3, <2>4, <2>5, LimitAssumption DEF LineInv
<1>2. e.at <= c.at
  BY <1>1, InTime
<1>3. MinInterval > 0
  BY <1>1, <1>2
<1>4. /\ e.key \in DOMAIN lastSent[w] /\ e.at <= lastSent[w][e.key]
      /\ ~(c.at - lastSent[w][e.key] < MinInterval)
  BY <1>3 DEF Limited, RateLimited
<1>5. lastSent[w][e.key] \in Nat
  <2>1. PICK i \in DOMAIN log[w] : log[w][i].what = "confirmed" /\ log[w][i].ev.at = lastSent[w][e.key]
    BY <1>4 DEF Limited
  <2> QED
    BY <2>1, ConfirmedFacts
<1> QED
  BY <1>1, <1>4, <1>5

\* The acknowledged delivery that a limited firing comes too soon after.
LEMMA KeptBack ==
  ASSUME LineInv, NEW w \in Webhooks, Limited(w), NEW e, NewTo(w, e), Suppressed(w, e)
  PROVE  e.kind = "fired" /\ Recent(log[w], DOMAIN log[w], e)
<1>1. e.kind = "fired"
  <2>1. e \in Event
    BY LineOfWebhook, KnownFacts DEF NewTo
  <2> QED
    BY <2>1, EventsAreEvents DEF Suppressed
<1>2. e.key \in DOMAIN lastSent[w] /\ e.at - lastSent[w][e.key] < MinInterval
  BY DEF Suppressed, RateLimited
<1>3. PICK j \in DOMAIN log[w] : /\ log[w][j].what = "confirmed" /\ log[w][j].ev.key = e.key
                                 /\ log[w][j].ev.at = lastSent[w][e.key]
  BY <1>2 DEF Limited
<1>4. log[w][j].ev # e
  BY <1>3, ConfirmedFacts DEF NewTo
<1> QED
  BY <1>1, <1>2, <1>3, <1>4 DEF Recent

\* What is not an acknowledged delivery leaves the limiter as it is.
LEMMA LimitedStays ==
  ASSUME NEW w \in Webhooks, Limited(w), lastSent'[w] = lastSent[w],
         current'[w] \in {current[w], NoEvent},
         DOMAIN log[w] \subseteq DOMAIN log'[w], \A i \in DOMAIN log[w] : log'[w][i] = log[w][i],
         \A i \in DOMAIN log'[w] : log'[w][i].what = "confirmed" => i \in DOMAIN log[w]
  PROVE  Limited(w)'
<1>1. \A k \in DOMAIN lastSent'[w] :
       \E j \in DOMAIN log'[w] : /\ log'[w][j].what = "confirmed" /\ log'[w][j].ev.key = k
                                 /\ log'[w][j].ev.at = lastSent'[w][k]
  BY DEF Limited
<1>2. MinInterval > 0 => \A j \in DOMAIN log'[w] : log'[w][j].what = "confirmed" =>
       /\ log'[w][j].ev.key \in DOMAIN lastSent'[w]
       /\ log'[w][j].ev.at <= lastSent'[w][log'[w][j].ev.key]
  BY DEF Limited
<1>3. current'[w] # NoEvent /\ current'[w].kind = "fired" => ~RateLimited(w, current[w])'
  BY DEF Limited, RateLimited
<1> QED
  BY <1>1, <1>2, <1>3 DEF Limited

\* Limited and Exact are inductive for each webhook.
LEMMA LimiterStep ==
  ASSUME LineInv, NEW w \in Webhooks, Limited(w), Exact(log[w]), Step(w)
  PROVE  Limited(w)' /\ Exact(log'[w])
<1>1. /\ IsSequence(log[w]) /\ DOMAIN log[w] = 1..Len(log[w]) /\ Len(log[w]) \in Nat
      /\ pc[w] \in {"ready", "inflight", "backoff"} <=> current[w] # NoEvent
  BY LineOfWebhook DEF Line, LogInv, IsSequence
<1>2. CASE Rests(w) /\ log'[w] = log[w]
  BY <1>2, LimitedStays DEF Rests
<1>3. ASSUME NEW e, NEW whats, Loses(w, e, whats) PROVE Limited(w)' /\ Exact(log'[w])
  <2>1. whats \in Ends /\ whats \in Silent /\ log'[w] = Extended(log[w], e, whats)
    BY <1>3 DEF Loses, Ends, Silent
  <2>2. whats # Confirmed
    <3>1. Len(whats) = 1 /\ Len(Confirmed) = 2
      BY <1>3 DEF Loses, Confirmed
    <3> QED
      BY <3>1
  <2>3. Limited(w)'
    BY <1>1, <1>3, <2>1, <2>2, NewEntries, LimitedStays DEF Loses, Rests
  <2>4. Exact(log'[w])
    BY <1>1, <1>3, <2>1, KeptBack, ExactGrows DEF Loses
  <2> QED
    BY <2>3, <2>4
<1>4. CASE Hears(w)
  <2> DEFINE mark == [ev |-> NoEvent, what |-> "cancelled"]
             l == log[w]
             t == Append(l, mark)
  <2>1. log'[w] = t /\ mark.what = "cancelled" /\ Rests(w)
    BY <1>4 DEF Hears
  <2> HIDE DEF mark
  <2>2. PICK S : l \in Seq(S)
    BY <1>1 DEF IsSequence
  <2>3. l \in Seq(S \union {mark}) /\ mark \in S \union {mark}
    BY <2>2
  <2>4. /\ DOMAIN t = 1..(Len(l) + 1) /\ t[Len(l) + 1] = mark
        /\ \A i \in DOMAIN l : t[i] = l[i]
    BY <2>3, AppendFacts
  <2> HIDE DEF t, l
  <2>5. DOMAIN l \subseteq DOMAIN t /\ \A i \in DOMAIN t : i \in DOMAIN l \/ t[i].what = "cancelled"
    BY <1>1, <2>1, <2>4 DEF l
  <2>6. Limited(w)'
    BY <2>1, <2>4, <2>5, LimitedStays DEF Rests, l
  <2>7. ASSUME NEW i \in DOMAIN l PROVE \A f : Recent(t, 1..(i - 1), f) <=> Recent(l, 1..(i - 1), f)
    <3>1. \A j \in 1..(i - 1) : t[j] = l[j]
      BY <1>1, <2>4 DEF l
    <3> QED
      BY <3>1 DEF Recent
  <2>8. Exact(t)
    BY <2>4, <2>5, <2>7 DEF Exact, l
  <2> QED
    BY <2>1, <2>6, <2>8
<1>5. ASSUME NEW e, Starts(w, e) PROVE Limited(w)' /\ Exact(log'[w])
  <2>1. e.kind = "fired" => ~RateLimited(w, e)
    BY <1>5 DEF Starts, Suppressed
  <2>2. lastSent'[w] = lastSent[w] /\ log'[w] = log[w] /\ current'[w] = e
    BY <1>5 DEF Starts
  <2> QED
    BY <2>1, <2>2 DEF Limited, RateLimited
<1>6. CASE Goes(w)
  BY <1>6, LimitedStays DEF Goes
<1>7. ASSUME NEW whats, Attempts(w, whats) PROVE Limited(w)' /\ Exact(log'[w])
  <2> DEFINE c == current[w]
             l == log[w]
             t == log'[w]
  <2>1. c # NoEvent /\ whats \in Ends /\ t = Extended(l, c, whats) /\ whats # <<"limited">>
        /\ current'[w] \in {c, NoEvent}
    BY <1>1, <1>7 DEF Attempts
  <2>2. Exact(t)
    BY <1>1, <2>1, NotKeptBack, ExactGrows
  <2>3. /\ DOMAIN l \subseteq DOMAIN t /\ \A i \in DOMAIN l : t[i] = l[i]
        /\ \A i \in DOMAIN t : i \notin DOMAIN l =>
             t[i].ev = c /\ (t[i].what = "confirmed" => whats = Confirmed)
        /\ whats = Confirmed => \E i \in DOMAIN t : t[i].what = "confirmed" /\ t[i].ev = c
    BY <1>1, <2>1, NewEntries
  <2>4. CASE whats # Confirmed
    <3>1. lastSent'[w] = lastSent[w]
      BY <1>7, <2>4 DEF Attempts
    <3> QED
      BY <2>1, <2>2, <2>3, <2>4, <3>1, LimitedStays
  <2>5. CASE whats = Confirmed
    <3>1. lastSent'[w] = RecordSent(w, c) /\ current'[w] = NoEvent
      <4>1. Confirmed \in Final
        <5>1. Len(Confirmed) = 2 /\ Confirmed \in Ends
          BY DEF Confirmed, Ends
        <5>2. Confirmed # << >> /\ Confirmed # <<"received">>
          BY EndsDiffer
        <5> QED
          BY <5>1, <5>2 DEF Final
      <4> QED
        BY <1>7, <2>5, <4>1 DEF Attempts
    <3> DEFINE ls == lastSent[w]
               rs == lastSent'[w]
    <3>2. MinInterval \in Nat
      BY LimitAssumption
    <3>3. CASE MinInterval = 0
      <4>1. rs = ls
        BY <3>1, <3>3 DEF RecordSent
      <4>2. \A k \in DOMAIN rs : \E j \in DOMAIN t : /\ t[j].what = "confirmed" /\ t[j].ev.key = k
                                                   /\ t[j].ev.at = rs[k]
        BY <2>3, <4>1 DEF Limited
      <4>3. ~(MinInterval > 0)
        BY <3>3
      <4> QED
        BY <2>2, <3>1, <4>2, <4>3 DEF Limited
    <3>4. CASE MinInterval # 0
      <4>1. /\ DOMAIN rs = DOMAIN ls \union {c.key} /\ rs[c.key] = c.at
            /\ \A k \in DOMAIN ls : k # c.key => rs[k] = ls[k]
        BY <3>1, <3>4 DEF RecordSent
      <4> HIDE DEF rs, ls
      <4>2. \A k \in DOMAIN rs : \E j \in DOMAIN t : /\ t[j].what = "confirmed" /\ t[j].ev.key = k
                                                   /\ t[j].ev.at = rs[k]
        <5> TAKE k \in DOMAIN rs
        <5>1. CASE k = c.key
          BY <2>3, <2>5, <4>1, <5>1
        <5>2. CASE k # c.key
          BY <2>3, <4>1, <5>2 DEF Limited, ls
        <5> QED
          BY <5>1, <5>2
      <4>3. ASSUME NEW j \in DOMAIN t, t[j].what = "confirmed"
            PROVE  t[j].ev.key \in DOMAIN rs /\ t[j].ev.at <= rs[t[j].ev.key]
        <5>1. c \in Known(sent) /\ c.at \in Nat /\ SentInv
          <6>1. c \in Known(sent)
            BY <2>1, LineOfWebhook DEF Line
          <6> QED
            BY <6>1, LineOfWebhook, KnownFacts, EventsAreEvents DEF LineInv
        <5>2. CASE j \notin DOMAIN l
          BY <2>3, <4>1, <5>1, <5>2
        <5>3. CASE j \in DOMAIN l
          <6>1. t[j] = l[j] /\ l[j].what = "confirmed"
            BY <2>3, <4>3, <5>3
          <6>2. l[j].ev.key \in DOMAIN ls /\ l[j].ev.at <= ls[l[j].ev.key]
            BY <3>2, <3>4, <5>3, <6>1 DEF Limited, ls
          <6>3. CASE l[j].ev.key # c.key
            BY <4>1, <6>1, <6>2, <6>3
          <6>4. CASE l[j].ev.key = c.key
            <7>1. l[j].ev \in Received(l) /\ l[j].ev \in Known(sent)
              BY <5>3, <6>1, ConfirmedFacts
            <7>2. PosIn(sent, l[j].ev) <= PosIn(sent, c)
              BY <2>1, <7>1, LineOfWebhook DEF Line
            <7>3. l[j].ev.at <= c.at
              BY <5>1, <7>1, <7>2, InTime
            <7> QED
              BY <4>1, <6>1, <6>4, <7>3
          <6> QED
            BY <6>3, <6>4
        <5> QED
          BY <5>2, <5>3
      <4> QED
        BY <2>2, <3>1, <4>2, <4>3 DEF Limited, rs
    <3> QED
      BY <3>3, <3>4
  <2> QED
    BY <2>4, <2>5
<1> QED
  BY <1>2, <1>3, <1>4, <1>5, <1>6, <1>7 DEF Step

\* LimiterExact is Exact of every history.
LEMMA LimitsExactly == (\A w \in Webhooks : Exact(log[w])) => LimiterExact
BY DEF LimiterExact, Exact, Recent

-----------------------------------------------------------------------------
\* The invariant of the notifier.

NotifierInv ==
  LineInv /\ OwnInv /\ RetryInv /\ LimiterInv /\ \A w \in Webhooks : Exact(log[w])

\* No event, and nothing counted.
LEMMA NotifierStart == Init => NotifierInv
<1> SUFFICES ASSUME Init PROVE NotifierInv
  OBVIOUS
<1>1. ASSUME NEW w \in Webhooks PROVE Retried(w) /\ Limited(w) /\ Exact(log[w])
  <2>1. Received(<< >>) = {}
    BY DEF Received
  <2>2. \A e \in Event : Count(<< >>, e) = 0
    BY <2>1, CountNone
  <2>3. Retried(w)
    BY <2>2, LimitAssumption DEF Init, Retried, Made
  <2>4. Limited(w) /\ Exact(log[w])
    BY DEF Init, Limited, Exact
  <2> QED
    BY <2>3, <2>4
<1>2. OwnInv
  BY DEF Init, OwnInv
<1> QED
  BY <1>1, <1>2, LineStart DEF NotifierInv, RetryInv, LimiterInv

\* Each part of the invariant, kept by every step.
LEMMA NotifierKept == ASSUME NotifierInv, [Onward]_vars PROVE NotifierInv'
<1>1. LineInv' /\ OwnInv'
  BY LineStep, OwnStep DEF NotifierInv
<1>2. \A w \in Webhooks : Retried(w)' /\ Limited(w)' /\ Exact(log'[w])
  BY StepOfWebhook, RetryStep, LimiterStep DEF NotifierInv, RetryInv, LimiterInv
<1> QED
  BY <1>1, <1>2 DEF NotifierInv, RetryInv, LimiterInv

\* What the invariant says of the promises that the runs check.
LEMMA Promises ==
  NotifierInv => Accounted /\ InOrder /\ DuplicatesBounded /\ LimiterExact
BY OnePlace, KeptInOrder, SentSeldom, LimitsExactly DEF NotifierInv

\* NotifierInv is an invariant of the notifier, fed by any Notify calls (Emit).
THEOREM NotifierIsCorrect == Spec => []NotifierInv
<1>1. NotifierInv /\ [Next]_vars => NotifierInv'
  <2> SUFFICES ASSUME NotifierInv, [Next]_vars PROVE NotifierInv'
    OBVIOUS
  <2>1. [Onward]_vars
    BY EmitFeeds DEF Next, Onward, NotifierInv, LineInv
  <2> QED
    BY <2>1, NotifierKept
<1> QED
  BY <1>1, NotifierStart, PTL DEF Spec

\* Accounted: no event is lost or doubled on its way to an endpoint (Notify, dispatch,
\* deliver).
THEOREM EventsAccounted == Spec => []Accounted
BY NotifierIsCorrect, Promises, PTL

\* InOrder: an endpoint is sent the events in the order they happened.
THEOREM DeliveredInOrder == Spec => []InOrder
BY NotifierIsCorrect, Promises, PTL

\* DuplicatesBounded: an event is sent MaxRetries + 1 times at most, and not again once it
\* was acknowledged (deliver).
THEOREM DuplicatesAreBounded == Spec => []DuplicatesBounded
BY NotifierIsCorrect, Promises, PTL

\* LimiterExact: the limiter drops exactly the firings that come too soon after an
\* acknowledged delivery of the same stream (dispatch, rateLimited, recordSent).
THEOREM LimiterIsExact == Spec => []LimiterExact
BY NotifierIsCorrect, Promises, PTL

-----------------------------------------------------------------------------
\* What the cancellation and Stop put an end to.

\* What was received after the i-th entry of a history.
Later(s, i) == {j \in DOMAIN s : j > i /\ s[j].what = "received"}

\* After the cancellation, what was in flight arrives, and nothing else.
Quiet(s, done, inflight) ==
  /\ ~done => \A i \in DOMAIN s : s[i].what # "cancelled"
  /\ \A i \in DOMAIN s : s[i].what = "cancelled" =>
       /\ inflight => Later(s, i) = {}
       /\ \A j, k \in Later(s, i) : j = k

QuietInv ==
  /\ cancelled \in BOOLEAN /\ pc \in [Webhooks -> WorkerStates]
  /\ log = [w \in Webhooks |-> log[w]] /\ \A w \in Webhooks : IsSequence(log[w])
  /\ \A w \in Webhooks : Quiet(log[w], cancelled, pc[w] = "inflight")

\* Something is received first, if at all, and nothing but the instant of the
\* cancellation is recorded as such.
LEMMA EndsShape ==
  ASSUME NEW whats \in Ends, NEW i \in 1..Len(whats)
  PROVE  /\ whats[i] # "cancelled" /\ (whats[i] = "received" => i = 1)
         /\ whats \in Silent => whats[i] # "received"
BY DEF Ends, Silent

\* A history stays quiet, if something is received only of a request in flight, and no
\* request starts after the cancellation.
LEMMA QuietKeeps ==
  ASSUME NEW s, IsSequence(s), NEW ev, NEW whats \in Ends,
         NEW done \in BOOLEAN, NEW before \in BOOLEAN, NEW after \in BOOLEAN,
         Quiet(s, done, before),
         after => before \/ ~done,
         whats \notin Silent => before /\ ~after
  PROVE  Quiet(Extended(s, ev, whats), done, after)
<1> DEFINE t == Extended(s, ev, whats)
<1>0. t = Extended(s, ev, whats)
  OBVIOUS
<1> HIDE DEF t
<1>1. /\ Len(s) \in Nat /\ DOMAIN s = 1..Len(s)
      /\ DOMAIN t = 1..(Len(s) + Len(whats)) /\ Len(whats) \in Nat
      /\ \A i \in DOMAIN s : t[i] = s[i]
      /\ \A i \in 1..Len(whats) : t[Len(s) + i].what = whats[i]
  BY <1>0, Grown
<1>2. ASSUME NEW i \in DOMAIN t, i \notin DOMAIN s
      PROVE  /\ t[i].what # "cancelled" /\ (t[i].what = "received" => i = Len(s) + 1)
             /\ whats \in Silent => t[i].what # "received"
  <2>1. PICK k \in 1..Len(whats) : i = Len(s) + k
    <3>1. i - Len(s) \in 1..Len(whats) /\ i = Len(s) + (i - Len(s))
      BY <1>1, <1>2
    <3> QED
      BY <3>1
  <2> QED
    BY <1>1, <2>1, EndsShape
<1>3. ~done => \A i \in DOMAIN t : t[i].what # "cancelled"
  BY <1>1, <1>2 DEF Quiet
<1>4. ASSUME NEW i \in DOMAIN t, t[i].what = "cancelled"
      PROVE  /\ after => Later(t, i) = {}
             /\ \A j, k \in Later(t, i) : j = k
  <2>1. i \in DOMAIN s /\ s[i].what = "cancelled" /\ done
    BY <1>1, <1>2, <1>3, <1>4
  <2>2. /\ before => Later(s, i) = {}
        /\ \A j, k \in Later(s, i) : j = k
    BY <2>1 DEF Quiet
  <2>3. Later(t, i) \subseteq Later(s, i) \union (IF whats \in Silent THEN {} ELSE {Len(s) + 1})
    BY <1>1, <1>2 DEF Later
  <2>4. CASE whats \in Silent
    BY <2>1, <2>2, <2>3, <2>4
  <2>5. CASE whats \notin Silent
    BY <2>2, <2>3, <2>5
  <2> QED
    BY <2>4, <2>5
<1> QED
  BY <1>3, <1>4 DEF Quiet, t

-----------------------------------------------------------------------------
\* The steps.

\* What a step that writes ends of one event to w's history, and moves w's worker only,
\* makes of the invariant.
LEMMA StepKeeps ==
  ASSUME QuietInv, NEW w \in Webhooks, NEW ev, NEW whats \in Ends, NEW state \in WorkerStates,
         log' = Logged(w, ev, whats), pc' = [pc EXCEPT ![w] = state], cancelled' = cancelled,
         state = "inflight" => pc[w] = "inflight" \/ ~cancelled,
         whats \notin Silent => pc[w] = "inflight" /\ state # "inflight"
  PROVE  QuietInv'
<1>1. /\ log'[w] = Extended(log[w], ev, whats) /\ \A v \in Webhooks \ {w} : log'[v] = log[v]
      /\ log' = [v \in Webhooks |-> log'[v]]
  BY DEF QuietInv, Logged, Entries, Extended
<1>2. /\ pc' \in [Webhooks -> WorkerStates]
      /\ pc'[w] = state /\ \A v \in Webhooks \ {w} : pc'[v] = pc[v]
  BY DEF QuietInv
<1>3. IsSequence(log[w]) /\ Quiet(log[w], cancelled, pc[w] = "inflight")
  BY DEF QuietInv
<1>4. IsSequence(log'[w])
  BY <1>1, <1>3, Grown
<1>5. Quiet(log'[w], cancelled, state = "inflight")
  <2>1. /\ (pc[w] = "inflight") \in BOOLEAN /\ (state = "inflight") \in BOOLEAN
        /\ cancelled \in BOOLEAN
    BY DEF QuietInv
  <2>2. Quiet(Extended(log[w], ev, whats), cancelled, state = "inflight")
    BY <1>3, <2>1, QuietKeeps, ZenonT(40)
  <2> QED
    BY <1>1, <2>2
<1>6. ASSUME NEW v \in Webhooks PROVE IsSequence(log'[v]) /\ Quiet(log'[v], cancelled, pc'[v] = "inflight")
  BY <1>1, <1>2, <1>4, <1>5 DEF QuietInv
<1> QED
  BY <1>1, <1>2, <1>6 DEF QuietInv

\* ... and of one that only moves the worker.
LEMMA MoveKeeps ==
  ASSUME QuietInv, NEW w \in Webhooks, NEW state \in WorkerStates,
         UNCHANGED <<log, cancelled>>, pc' = [pc EXCEPT ![w] = state],
         state = "inflight" => ~cancelled
  PROVE  QuietInv'
BY DEF QuietInv, Quiet

\* A failed attempt, and the end of an event.
LEMMA RetryKeeps ==
  ASSUME QuietInv, NEW w \in Webhooks, NEW whats \in {<< >>, <<"received">>},
         whats # << >> => pc[w] = "inflight", Retry(w, whats), cancelled' = cancelled
  PROVE  QuietInv'
<1>1. CASE attempt[w] >= MaxRetries
  <2>1. /\ pc' = [pc EXCEPT ![w] = "idle"]
        /\ log' = Logged(w, current[w], Append(whats, "gaveup"))
    BY <1>1 DEF Retry, Finish
  <2>2. /\ Append(whats, "gaveup") \in Ends
        /\ Append(whats, "gaveup") \notin Silent => whats # << >>
    <3>1. CASE whats = << >>
      <4>1. Append(whats, "gaveup") = <<"gaveup">>
        BY <3>1
      <4> QED
        BY <4>1 DEF Ends, Silent
    <3>2. CASE whats = <<"received">>
      <4>1. Append(whats, "gaveup") = <<"received", "gaveup">>
        BY <3>2, Pair
      <4> QED
        BY <3>2, <4>1 DEF Ends
    <3> QED
      BY <3>1, <3>2
  <2> QED
    BY <2>1, <2>2, StepKeeps DEF WorkerStates
<1>2. CASE ~(attempt[w] >= MaxRetries)
  <2>1. pc' = [pc EXCEPT ![w] = "backoff"] /\ log' = Logged(w, current[w], whats)
    BY <1>2 DEF Retry
  <2>2. whats \in Ends /\ (whats \notin Silent => whats # << >>)
    BY DEF Ends, Silent
  <2> QED
    BY <2>1, <2>2, StepKeeps DEF WorkerStates
<1> QED
  BY <1>1, <1>2

LEMMA WorkerKeeps ==
  ASSUME QuietInv, NEW w \in Webhooks, Worker(w)
  PROVE  QuietInv'
<1>0. /\ cancelled' = cancelled
      /\ pc = [pc EXCEPT ![w] = pc[w]] /\ pc[w] \in WorkerStates
  BY DEF Worker, Take, Exit, Post, Respond, Accepted, Rejected, Failed, Wake, Abort, QuietInv
<1>1. CASE Take(w)
  <2>1. CASE UNCHANGED wvars
    <3>1. PICK whats \in {<<"limited">>, <<"gaveup">>} : log' = Logged(w, Head(queue[w]), whats)
      BY <1>1, <2>1 DEF Take, wvars, QuietInv, WorkerStates
    <3>2. whats \in Ends /\ whats \in Silent
      BY DEF Ends, Silent
    <3>3. pc' = [pc EXCEPT ![w] = pc[w]]
      BY <1>0, <2>1 DEF wvars
    <3> QED
      BY <1>0, <3>1, <3>2, <3>3, StepKeeps
  <2>2. CASE pc' = [pc EXCEPT ![w] = "ready"] /\ UNCHANGED log
    BY <1>0, <2>2, MoveKeeps DEF WorkerStates
  <2> QED
    BY <1>1, <2>1, <2>2 DEF Take
<1>2. CASE Exit(w)
  BY <1>2, MoveKeeps DEF Exit, WorkerStates
<1>3. CASE Post(w)
  <2>1. CASE ~cancelled
    BY <1>0, <1>3, <2>1, MoveKeeps DEF Post, WorkerStates
  <2>2. CASE cancelled
    BY <1>0, <1>3, <2>2, RetryKeeps DEF Post
  <2> QED
    BY <2>1, <2>2
<1>4. CASE Accepted(w)
  <2>1. /\ pc[w] = "inflight" /\ pc' = [pc EXCEPT ![w] = "idle"]
        /\ log' = Logged(w, current[w], <<"received", "confirmed">>)
    BY <1>4 DEF Accepted, Finish
  <2> QED
    BY <1>0, <2>1, StepKeeps DEF WorkerStates, Ends
<1>5. CASE Rejected(w) \/ Abort(w)
  <2>1. pc' = [pc EXCEPT ![w] = "idle"] /\ log' = Logged(w, current[w], <<"gaveup">>)
    BY <1>5 DEF Rejected, Abort, Finish
  <2> QED
    BY <1>0, <2>1, StepKeeps DEF WorkerStates, Ends, Silent
<1>6. CASE Failed(w)
  BY <1>0, <1>6, RetryKeeps DEF Failed
<1>7. CASE Wake(w)
  BY <1>0, <1>7, MoveKeeps DEF Wake, WorkerStates
<1> QED
  BY <1>1, <1>2, <1>3, <1>4, <1>5, <1>6, <1>7 DEF Worker, Respond

\* The cancellation is recorded once, with nothing after it yet.
LEMMA CancelKeeps ==
  ASSUME QuietInv, Cancel
  PROVE  QuietInv'
<1>1. ASSUME NEW w \in Webhooks
      PROVE  IsSequence(log'[w]) /\ Quiet(log'[w], TRUE, pc[w] = "inflight")
  <2> DEFINE s == log[w]
             mark == [ev |-> NoEvent, what |-> "cancelled"]
  <2>1. PICK S : s \in Seq(S)
    BY DEF QuietInv, IsSequence
  <2>2. \A i \in DOMAIN s : s[i].what # "cancelled"
    BY DEF QuietInv, Quiet, Cancel
  <2>3. log'[w] = Append(s, mark)
    BY DEF Cancel
  <2> HIDE DEF s
  <2>4. mark.what = "cancelled"
    OBVIOUS
  <2> HIDE DEF mark
  <2>5. s \in Seq(S \union {mark})
    BY <2>1
  <2>6. /\ Append(s, mark) \in Seq(S \union {mark})
        /\ Len(s) \in Nat /\ DOMAIN s = 1..Len(s)
        /\ DOMAIN Append(s, mark) = 1..(Len(s) + 1) /\ Append(s, mark)[Len(s) + 1] = mark
        /\ \A i \in 1..Len(s) : Append(s, mark)[i] = s[i]
    BY <2>5
  <2>7. \A i \in DOMAIN log'[w] : log'[w][i].what = "cancelled" => Later(log'[w], i) = {}
    BY <2>2, <2>3, <2>6 DEF Later
  <2> QED
    BY <2>3, <2>6, <2>7 DEF IsSequence, Quiet
<1>2. /\ cancelled' = TRUE /\ pc' = pc /\ log' = [w \in Webhooks |-> log'[w]]
  BY DEF Cancel, wvars
<1> QED
  BY <1>1, <1>2 DEF QuietInv

LEMMA QuietInvariant == Spec => []QuietInv
<1>1. Init => QuietInv
  <2> SUFFICES ASSUME Init PROVE QuietInv
    OBVIOUS
  <2>1. << >> \in Seq({})
    OBVIOUS
  <2>2. ASSUME NEW w \in Webhooks
        PROVE  IsSequence(log[w]) /\ Quiet(log[w], cancelled, pc[w] = "inflight")
    <3>1. log[w] = << >> /\ DOMAIN << >> = {}
      BY DEF Init
    <3> QED
      BY <2>1, <3>1 DEF IsSequence, Quiet
  <2> QED
    BY <2>2 DEF Init, QuietInv, WorkerStates
<1>2. QuietInv /\ [Next]_vars => QuietInv'
  <2> SUFFICES ASSUME QuietInv, [Next]_vars PROVE QuietInv'
    OBVIOUS
  <2>1. CASE Offer
    <3>1. UNCHANGED <<pc, cancelled>>
      BY <2>1 DEF Offer, wvars
    <3>2. CASE UNCHANGED log
      BY <3>1, <3>2 DEF QuietInv
    <3>3. ASSUME NEW w, Overflow(w, Head(pending).ev) PROVE QuietInv'
      <4>0. log' = Logged(w, Head(pending).ev, <<"overflow">>)
        BY <3>3 DEF Overflow
      <4>1. CASE w \in Webhooks
        <5>1. pc' = [pc EXCEPT ![w] = pc[w]] /\ pc[w] \in WorkerStates
          BY <3>1, <4>1 DEF QuietInv
        <5>2. <<"overflow">> \in Ends /\ <<"overflow">> \in Silent
          BY DEF Ends, Silent
        <5> QED
          BY <3>1, <4>0, <4>1, <5>1, <5>2, StepKeeps
      <4>2. CASE w \notin Webhooks
        <5>1. log' = log
          BY <4>0, <4>2 DEF Logged, QuietInv
        <5> QED
          BY <3>1, <5>1 DEF QuietInv
      <4> QED
        BY <4>1, <4>2
    <3> QED
      BY <2>1, <3>2, <3>3 DEF Offer
  <2>2. CASE Cancel
    BY <2>2, CancelKeeps
  <2>3. CASE Emit \/ BeginStop \/ EndStop \/ UNCHANGED vars
    <3>1. UNCHANGED <<pc, cancelled, log>>
      BY <2>3 DEF Emit, BeginStop, EndStop, vars, wvars
    <3> QED
      BY <3>1 DEF QuietInv
  <2>4. CASE \E w \in Webhooks : Worker(w)
    BY <2>4, WorkerKeeps
  <2> QED
    BY <2>1, <2>2, <2>3, <2>4 DEF Next, Collector
<1> QED
  BY <1>1, <1>2, PTL DEF Spec

\* QuietAfterCancel holds of every behaviour: at most the one request in flight arrives.
THEOREM CancelIsQuiet == Spec => []QuietAfterCancel
<1>1. QuietInv => QuietAfterCancel
  <2> SUFFICES ASSUME QuietInv, NEW w \in Webhooks, NEW i \in DOMAIN log[w],
                      log[w][i].what = "cancelled"
               PROVE  Cardinality({j \in DOMAIN log[w] : j > i /\ log[w][j].what = "received"}) <= 1
    BY DEF QuietAfterCancel
  <2> DEFINE later == Later(log[w], i)
  <2>1. \A j, k \in later : j = k
    BY DEF QuietInv, Quiet
  <2>2. later = {j \in DOMAIN log[w] : j > i /\ log[w][j].what = "received"}
    BY DEF Later
  <2> HIDE DEF later
  <2>3. Cardinality(later) <= 1
    <3>1. CASE later = {}
      <4>1. Cardinality(later) = 0
        BY <3>1, FS_EmptySet
      <4> QED
        BY <4>1
    <3>2. CASE later # {}
      <4>1. PICK j : later = {j}
        BY <2>1, <3>2
      <4>2. Cardinality({j}) = 1
        BY FS_Singleton
      <4> QED
        BY <4>1, <4>2
    <3> QED
      BY <3>1, <3>2
  <2> QED
    BY <2>2, <2>3
<1> QED
  BY <1>1, QuietInvariant, PTL

-----------------------------------------------------------------------------

\* What Stop has waited for.
StopInv ==
  /\ pc \in [Webhooks -> WorkerStates]
  /\ collector # "running" => cancelled /\ pending = << >>
  /\ collector = "stopped" => \A w \in Webhooks : pc[w] = "exited"

\* NothingAfterStop holds of every behaviour: a Stop that has returned leaves nobody
\* who could deliver anything.
THEOREM StopIsFinal == Spec => NothingAfterStop
<1>1. Init => StopInv
  BY DEF Init, StopInv, WorkerStates
<1>2. StopInv /\ [Next]_vars => StopInv'
  <2> SUFFICES ASSUME StopInv, [Next]_vars PROVE StopInv'
    OBVIOUS
  <2> USE DEF StopInv, WorkerStates
  <2>1. CASE Emit
    BY <2>1 DEF Emit, Notify, wvars
  <2>2. CASE Cancel
    BY <2>2 DEF Cancel, wvars
  <2>3. CASE Collector
    BY <2>3 DEF Collector, Offer, BeginStop, EndStop, wvars
  <2>4. ASSUME NEW w \in Webhooks, Worker(w) PROVE StopInv'
    <3>1. UNCHANGED <<pending, cancelled, collector>> /\ pc[w] # "exited"
      BY <2>4 DEF Worker, Take, Exit, Post, Respond, Accepted, Rejected, Failed, Wake, Abort
    <3>2. \E state \in WorkerStates : pc' = [pc EXCEPT ![w] = state]
      BY <2>4 DEF Worker, Take, Exit, Post, Respond, Accepted, Rejected, Failed, Wake, Abort,
                  Retry, Finish, wvars
    <3> QED
      BY <3>1, <3>2
  <2>5. CASE UNCHANGED vars
    BY <2>5 DEF vars, wvars
  <2> QED
    BY <2>1, <2>2, <2>3, <2>4, <2>5 DEF Next
<1>3. StopInv /\ [Next]_vars => [collector = "stopped" => log' = log]_vars
  <2> SUFFICES ASSUME StopInv, Next, collector = "stopped" PROVE log' = log
    OBVIOUS
  <2>1. \A w \in Webhooks : ~Worker(w)
    BY DEF StopInv, Worker, Take, Exit, Post, Respond, Accepted, Rejected, Failed, Wake, Abort
  <2>2. ~Emit /\ ~Cancel /\ ~Collector
    BY DEF StopInv, Emit, Notify, Cancel, Collector, Offer, BeginStop, EndStop
  <2> QED
    BY <2>1, <2>2 DEF Next
<1> QED
  BY <1>1, <1>2, <1>3, PTL DEF Spec, NothingAfterStop

-----------------------------------------------------------------------------
\* The pipeline.

\* A batch that starts from the levels told keeps the chain.
LEMMA ChainFed ==
  ASSUME SentInv, ChainInv,
         NEW evs, Batch(evs, clock'), sent' = sent \o evs
  PROVE  ChainInv'
<1> DEFINE n == Len(sent)
           s == sent'
<1>1. /\ s \in Seq(Event) /\ n \in Nat /\ DOMAIN sent = 1..n
      /\ \A i \in DOMAIN sent : i \in DOMAIN s /\ s[i] = sent[i]
      /\ \A i \in DOMAIN evs : n + i \in DOMAIN s /\ s[n + i] = evs[i]
      /\ \A i \in DOMAIN s : i \notin DOMAIN sent => i - n \in DOMAIN evs /\ i = n + (i - n)
  BY Extend DEF SentInv, Batch
<1>2. \A i \in DOMAIN s : i \in Nat \ {0}
  BY <1>1, SeqFacts
<1> HIDE DEF s, n
<1>3. ASSUME NEW i \in DOMAIN s, i \notin DOMAIN sent
      PROVE  /\ i - n \in DOMAIN evs /\ s[i] = evs[i - n] /\ i > n
             /\ s[i].kind = Kind(s[i].from, s[i].to) /\ s[i].from # s[i].to
             /\ s[i].from = SentLevel(s[i].key)
  <2> DEFINE e == evs[i - n]
  <2>1. i - n \in DOMAIN evs /\ s[i] = e /\ i > n
    <3>1. i - n \in DOMAIN evs /\ i = n + (i - n)
      BY <1>1, <1>3
    <3>2. s[n + (i - n)] = evs[i - n]
      BY <1>1, <3>1
    <3> QED
      BY <1>1, <1>2, <1>3, <3>1, <3>2
  <2>2. e = Transition(e.key, SentLevel(e.key), e.to, clock') /\ e.from = SentLevel(e.key) /\ e.from # e.to
    BY <2>1 DEF Batch
  <2> HIDE DEF e
  <2>3. e.kind = Kind(e.from, e.to)
    <3>1. Transition(e.key, SentLevel(e.key), e.to, clock').kind = Kind(SentLevel(e.key), e.to)
      BY DEF Transition
    <3> QED
      BY <2>2, <3>1
  <2> QED
    BY <2>1, <2>2, <2>3 DEF e
<1>4. \A i \in DOMAIN s : s[i].kind = Kind(s[i].from, s[i].to) /\ s[i].from # s[i].to
  BY <1>1, <1>3 DEF ChainInv
<1>5. ASSUME NEW i \in DOMAIN s, NEW j \in DOMAIN s, Follows(s, i, j) PROVE s[j].from = s[i].to
  <2>1. i < j /\ s[i].key = s[j].key /\ \A m \in DOMAIN s : i < m /\ m < j => s[m].key # s[i].key
    BY <1>5 DEF Follows
  <2>2. CASE j \in DOMAIN sent
    <3>1. i \in DOMAIN sent
      BY <1>1, <1>2, <2>1, <2>2
    <3>2. Follows(sent, i, j)
      BY <1>1, <2>1, <2>2, <3>1 DEF Follows
    <3> QED
      BY <1>1, <2>2, <3>1, <3>2 DEF ChainInv
  <2>3. CASE j \notin DOMAIN sent
    <3>1. i \in DOMAIN sent
      <4> SUFFICES ASSUME i \notin DOMAIN sent PROVE FALSE
        OBVIOUS
      <4>1. i - n \in DOMAIN evs /\ j - n \in DOMAIN evs /\ evs[i - n].key = evs[j - n].key
        BY <1>3, <2>1, <2>3
      <4>2. i - n = j - n
        BY <4>1 DEF Batch
      <4> QED
        BY <1>1, <1>2, <2>1, <4>2
    <3>2. \A m \in DOMAIN sent : sent[m].key = sent[i].key => m <= i
      <4> SUFFICES ASSUME NEW m \in DOMAIN sent, sent[m].key = sent[i].key, i < m PROVE FALSE
        BY <1>1, <3>1
      <4>1. m \in DOMAIN s /\ s[m].key = s[i].key /\ m < j
        BY <1>1, <1>3, <2>3, <3>1
      <4> QED
        BY <2>1, <4>1
    <3>3. SentLevel(sent[i].key) = sent[i].to
      BY <3>1, <3>2, LevelAfterLast, SentLevelFacts DEF SentInv
    <3> QED
      BY <1>1, <1>3, <2>1, <2>3, <3>1, <3>3
  <2> QED
    BY <2>2, <2>3
<1> QED
  BY <1>4, <1>5 DEF ChainInv, s

\* ChainInv is inductive.
LEMMA ChainStep == ASSUME SentInv, ChainInv, [Onward]_vars PROVE ChainInv'
<1>1. CASE UNCHANGED sent
  BY <1>1 DEF ChainInv
<1>2. CASE Fed
  BY <1>2, ChainFed DEF Fed
<1>3. ASSUME NEW w \in Webhooks, Worker(w) PROVE UNCHANGED sent
  BY <1>3, WorkerShape
<1>4. CASE Cancel \/ Collector \/ UNCHANGED vars
  BY <1>1, <1>4 DEF Cancel, Collector, Offer, BeginStop, EndStop, vars
<1> QED
  BY <1>1, <1>2, <1>3, <1>4 DEF Onward

\* An order of a finite set is of all of it.
LEMMA OrderOfAll ==
  ASSUME NEW S, IsFiniteSet(S), NEW order \in SetToSeqs(S), NEW x \in S
  PROVE  \E i \in DOMAIN order : order[i] = x
<1> DEFINE D == 1..Cardinality(S)
<1>1. Cardinality(S) \in Nat
  BY FS_CardinalityType
<1>2. order \in Injection(D, S) /\ DOMAIN order = D
  BY DEF SetToSeqs, Injection, IsInjective
<1>3. Cardinality(D) = Cardinality(S)
  BY <1>1, FS_Interval
<1>4. order \in Surjection(D, S)
  BY <1>2, <1>3, FS_Injection
<1> QED
  BY <1>2, <1>4 DEF Surjection

\* The words of AlertLevels are those of this module.
LEMMA EngineWords ==
  /\ Engine!Levels = Levels
  /\ \A S : Engine!SetToSeqs(S) = SetToSeqs(S)
  /\ \A k, from, to, at : Engine!Transition(k, from, to, at) = Transition(k, from, to, at)
<1>1. ASSUME NEW S PROVE Engine!SetToSeqs(S) = SetToSeqs(S)
  <2>1. Engine!Cardinality(S) = Cardinality(S)
    BY Zenon DEF Engine!Cardinality, Cardinality
  <2> QED
    BY <2>1 DEF Engine!SetToSeqs, SetToSeqs
<1>2. \A k, from, to, at : Engine!Transition(k, from, to, at) = Transition(k, from, to, at)
  BY DEF Engine!Transition, Engine!Kind, Engine!Severity, Transition, Kind, Severity
<1> QED
  BY <1>1, <1>2 DEF Engine!Levels, Levels

\* A fast tick of the engine feeds the notifier with events that start from its levels.
LEMMA FastTickFeeds ==
  ASSUME SentInv, LevelInv, FastTick
  PROVE  Fed /\ LevelInv'
<1>1. PICK t \in (clock + 1)..MaxTime, next \in [Keys -> Levels] :
        /\ clock' = t /\ level' = next
        /\ \E moved \in SetToSeqs({k \in Keys : next[k] # level[k]}) :
             emitted' = [i \in DOMAIN moved |->
                           Transition(moved[i], level[moved[i]], next[moved[i]], t)]
  <2>1. PICK t \in (clock + 1)..MaxTime, next \in [Keys -> Engine!Levels] :
          /\ clock' = t /\ level' = next
          /\ \E moved \in Engine!SetToSeqs({k \in Keys : next[k] # level[k]}) :
               emitted' = [i \in DOMAIN moved |->
                             Engine!Transition(moved[i], level[moved[i]], next[moved[i]], t)]
    BY DEF FastTick, Engine!Round
  <2>2. next \in [Keys -> Levels]
    BY EngineWords
  <2>3. PICK moved \in SetToSeqs({k \in Keys : next[k] # level[k]}) :
          emitted' = [i \in DOMAIN moved |->
                        Engine!Transition(moved[i], level[moved[i]], next[moved[i]], t)]
    BY <2>1, EngineWords
  <2>4. emitted' = [i \in DOMAIN moved |->
                      Transition(moved[i], level[moved[i]], next[moved[i]], t)]
    BY <2>3, EngineWords
  <2> QED
    BY <2>1, <2>2, <2>3, <2>4
<1> DEFINE moved == {k \in Keys : next[k] # SentLevel(k)}
<1>2. {k \in Keys : next[k] # level[k]} = moved /\ \A k \in moved : level[k] = SentLevel(k)
  BY DEF LevelInv
<1>3. PICK order \in SetToSeqs(moved) :
        emitted' = [i \in DOMAIN order |->
                      Transition(order[i], level[order[i]], next[order[i]], t)]
  BY <1>1, <1>2
<1>4. IsFiniteSet(moved)
  BY KeysAssumption, FS_Subset
<1>5. \A i \in DOMAIN order : order[i] \in moved
  BY <1>4, OrderFacts
<1> DEFINE evs == [i \in DOMAIN order |->
                     Transition(order[i], SentLevel(order[i]), next[order[i]], t)]
<1>6. emitted' = evs
  BY <1>2, <1>3, <1>5
<1>7. t \in Nat /\ clock < t
  BY LimitAssumption DEF SentInv
<1>8. Batch(evs, t)
  BY <1>7, BatchFacts DEF SentInv
<1>9. ASSUME NEW i \in DOMAIN order
      PROVE  evs[i].key = order[i] /\ evs[i].to = next[order[i]] /\ i \in DOMAIN evs
  BY DEF Transition
<1>10. DOMAIN evs = DOMAIN order
  OBVIOUS
<1> HIDE DEF evs
<1>11. /\ pending = << >> /\ sent' = sent \o evs /\ pending' = Fanout(evs)
       /\ UNCHANGED <<queue, wvars, cancelled, collector, log>>
  BY <1>6 DEF FastTick, Notify
<1>12. Fed
  BY <1>1, <1>7, <1>8, <1>11 DEF Fed
<1>13. ASSUME NEW k \in Keys PROVE next[k] = LevelAfter(sent', k)
  <2> DEFINE n == Len(sent)
             s == sent'
  <2>1. /\ s \in Seq(Event) /\ n \in Nat /\ DOMAIN sent = 1..n
        /\ \A i \in DOMAIN sent : i \in DOMAIN s /\ s[i] = sent[i]
        /\ \A i \in DOMAIN evs : n + i \in DOMAIN s /\ s[n + i] = evs[i]
        /\ \A i \in DOMAIN s : i \notin DOMAIN sent => i - n \in DOMAIN evs /\ i = n + (i - n)
    BY <1>8, <1>11, Extend DEF SentInv, Batch
  <2> HIDE DEF s, n
  <2>2. \A i \in DOMAIN s : i \notin DOMAIN sent => i - n \in DOMAIN evs /\ s[i] = evs[i - n]
    <3> SUFFICES ASSUME NEW i \in DOMAIN s, i \notin DOMAIN sent
                 PROVE  i - n \in DOMAIN evs /\ s[i] = evs[i - n]
      OBVIOUS
    <3>1. i - n \in DOMAIN evs /\ i = n + (i - n)
      BY <2>1
    <3>2. s[n + (i - n)] = evs[i - n]
      BY <2>1, <3>1
    <3> QED
      BY <3>1, <3>2
  <2>3. \A i \in DOMAIN evs : i \in Nat \ {0}
    BY <1>8, SeqFacts DEF Batch
  <2>4. \A i \in DOMAIN s : i \in Nat
    BY <2>1, SeqFacts
  <2>5. CASE k \in moved
    <3>1. PICK b \in DOMAIN order : order[b] = k
      BY <1>4, <2>5, OrderOfAll
    <3>2. b \in DOMAIN evs /\ evs[b].key = k /\ evs[b].to = next[k]
      BY <1>9, <3>1
    <3>3. n + b \in DOMAIN s /\ s[n + b] = evs[b]
      BY <2>1, <3>2
    <3>4. ASSUME NEW j \in DOMAIN s, s[j].key = s[n + b].key PROVE j <= n + b
      <4>1. CASE j \in DOMAIN sent
        BY <2>1, <2>3, <3>2, <4>1
      <4>2. CASE j \notin DOMAIN sent
        <5>1. j - n \in DOMAIN evs /\ evs[j - n].key = evs[b].key
          BY <2>2, <3>3, <3>4, <4>2
        <5>2. j - n = b
          BY <1>8, <3>2, <5>1 DEF Batch
        <5> QED
          BY <2>1, <2>3, <2>4, <3>2, <5>2
      <4> QED
        BY <4>1, <4>2
    <3>5. LevelAfter(s, s[n + b].key) = s[n + b].to
      BY <2>1, <3>3, <3>4, LevelAfterLast
    <3> QED
      BY <3>2, <3>3, <3>5 DEF s
  <2>6. CASE k \notin moved
    <3>1. next[k] = LevelAfter(sent, k)
      BY <2>6, SentLevelFacts DEF SentInv
    <3>2. \A i \in DOMAIN s : s[i].key = k => i \in DOMAIN sent
      BY <1>5, <1>9, <1>10, <2>2, <2>6
    <3>3. sent \in Seq(Event)
      BY DEF SentInv
    <3>4. CASE \A i \in DOMAIN sent : sent[i].key # k
      <4>1. LevelAfter(sent, k) = "ok"
        BY <3>3, <3>4, LevelAfterFacts
      <4>2. \A i \in DOMAIN s : s[i].key # k
        BY <2>1, <3>2, <3>4
      <4>3. LevelAfter(s, k) = "ok"
        BY <2>1, <4>2, LevelAfterFacts
      <4> QED
        BY <3>1, <4>1, <4>3 DEF s
    <3>5. CASE ~\A i \in DOMAIN sent : sent[i].key # k
      <4>1. PICK i \in DOMAIN sent : /\ sent[i].key = k /\ LevelAfter(sent, k) = sent[i].to
                                     /\ \A j \in DOMAIN sent : sent[j].key = k => j <= i
        BY <3>3, <3>5, LevelAfterFacts
      <4>2. i \in DOMAIN s /\ s[i] = sent[i] /\ \A j \in DOMAIN s : s[j].key = s[i].key => j <= i
        BY <2>1, <3>2, <4>1
      <4>3. LevelAfter(s, s[i].key) = s[i].to
        BY <2>1, <4>2, LevelAfterLast
      <4> QED
        BY <3>1, <4>1, <4>2, <4>3 DEF s
    <3> QED
      BY <3>4, <3>5
  <2> QED
    BY <2>5, <2>6
<1>14. level' = [k \in Keys |-> LevelAfter(sent', k)]
  BY <1>1, <1>13
<1>15. LevelInv'
  BY <1>14 DEF LevelInv, SentLevel, LevelAfter, SelectLastInSeq
<1> QED
  BY <1>12, <1>15

\* The invariant of the pipeline: that of the notifier, and that the events tell of the
\* engine's levels, each from where the one before it ended.
PipelineInv == NotifierInv /\ ChainInv /\ LevelInv

\* The engine starts at ok, and nothing was told.
LEMMA PipelineStart == PipelineInit => PipelineInv
<1> SUFFICES ASSUME PipelineInit PROVE PipelineInv
  OBVIOUS
<1>1. Init /\ level = [k \in Keys |-> "ok"] /\ sent = << >>
  BY DEF PipelineInit, Engine!Init, Init
<1>2. \A k \in Keys : SentLevel(k) = "ok"
  BY <1>1, SentLevelFacts
<1>3. ChainInv
  BY <1>1 DEF ChainInv
<1> QED
  BY <1>1, <1>2, <1>3, NotifierStart DEF PipelineInv, LevelInv

\* PipelineInv is inductive.
LEMMA PipelineKept == ASSUME PipelineInv, [PipelineNext]_pvars PROVE PipelineInv'
<1>1. SentInv
  BY DEF PipelineInv, NotifierInv, LineInv
<1>2. [Onward]_vars
  <2>1. CASE FastTick
    BY <1>1, <2>1, FastTickFeeds DEF PipelineInv, Onward
  <2>2. CASE NotifierStep
    BY <2>2 DEF NotifierStep, Onward
  <2>3. CASE UNCHANGED pvars
    BY <2>3 DEF pvars
  <2> QED
    BY <2>1, <2>2, <2>3 DEF PipelineNext
<1>3. NotifierInv' /\ ChainInv'
  BY <1>1, <1>2, NotifierKept, ChainStep DEF PipelineInv
<1>4. LevelInv'
  <2>1. CASE FastTick
    BY <1>1, <2>1, FastTickFeeds DEF PipelineInv
  <2>2. CASE UNCHANGED <<level, sent>>
    BY <2>2 DEF PipelineInv, LevelInv, SentLevel, SelectLastInSeq
  <2>3. CASE NotifierStep
    <3>1. ASSUME NEW w \in Webhooks, Worker(w) PROVE UNCHANGED sent
      BY <3>1, WorkerShape
    <3>2. UNCHANGED sent /\ UNCHANGED level
      BY <2>3, <3>1 DEF NotifierStep, Cancel, Collector, Offer, BeginStop, EndStop
    <3> QED
      BY <2>2, <3>2
  <2>4. CASE UNCHANGED pvars
    BY <2>2, <2>4 DEF pvars, vars
  <2> QED
    BY <2>1, <2>3, <2>4 DEF PipelineNext
<1> QED
  BY <1>3, <1>4 DEF PipelineInv

\* PipelineInv is an invariant of the notifier fed by the engine (Engine.fast).
THEOREM PipelineIsCorrect == PipelineSpec => []PipelineInv
<1>1. PipelineInv /\ [PipelineNext]_pvars => PipelineInv'
  BY PipelineKept
<1> QED
  BY <1>1, PipelineStart, PTL DEF PipelineSpec

\* The pipeline drives the notifier as Spec says, and the engine as AlertLevels says.
THEOREM PipelineKeepsPromises ==
  PipelineSpec => [](Accounted /\ InOrder /\ DuplicatesBounded /\ LimiterExact)
<1>1. PipelineInv => NotifierInv
  BY DEF PipelineInv
<1> QED
  BY <1>1, PipelineIsCorrect, Promises, PTL

-----------------------------------------------------------------------------
\* What the consumer is shown.

\* The newest event of k that reaches w.
LEMMA LastForFacts ==
  ASSUME Story(sent), NEW w, NEW k
  PROVE  \/ /\ LastFor(w, k) = 0
            /\ \A i \in DOMAIN sent : sent[i].key = k => ~Reached(w, sent[i])
         \/ /\ LastFor(w, k) \in DOMAIN sent /\ LastFor(w, k) # 0
            /\ sent[LastFor(w, k)].key = k /\ Reached(w, sent[LastFor(w, k)])
            /\ \A i \in DOMAIN sent : sent[i].key = k /\ Reached(w, sent[i]) => i <= LastFor(w, k)
<1> DEFINE I == {i \in 1..Len(sent) : sent[i].key = k /\ EventReaches(sent[i], MinLevel[w])}
<1>1. LastFor(w, k) = IF I # {} THEN Max(I) ELSE 0
  BY DEF LastFor, SelectLastInSeq
<1>2. DOMAIN sent = 1..Len(sent) /\ Len(sent) \in Nat
  BY SeqFacts DEF Story
<1>3. CASE I = {}
  BY <1>1, <1>2, <1>3 DEF Reached
<1>4. CASE I # {}
  <2>1. I \subseteq 1..Len(sent) /\ \A i : i \in I <=> i \in DOMAIN sent /\ sent[i].key = k /\ Reached(w, sent[i])
    BY <1>2 DEF Reached
  <2> HIDE DEF I
  <2>2. LastFor(w, k) \in I /\ \A i \in I : i <= LastFor(w, k)
    BY <1>1, <1>2, <1>4, <2>1, MaxFacts
  <2>3. LastFor(w, k) # 0
    BY <1>2, <2>1, <2>2
  <2> QED
    BY <2>1, <2>2, <2>3
<1> QED
  BY <1>3, <1>4

\* The last event of k that w was sent.
LEMMA ShownFacts ==
  ASSUME NEW w, IsSequence(log[w]), NEW k
  PROVE  \/ /\ Shown(w, k) = "ok"
            /\ \A i \in DOMAIN log[w] : log[w][i].what = "received" => log[w][i].ev.key # k
         \/ \E i \in DOMAIN log[w] :
              /\ log[w][i].what = "received" /\ log[w][i].ev.key = k /\ Shown(w, k) = log[w][i].ev.to
              /\ \A j \in DOMAIN log[w] : log[w][j].what = "received" /\ log[w][j].ev.key = k => j <= i
<1> DEFINE l == log[w]
           I == {i \in 1..Len(l) : l[i].what = "received" /\ l[i].ev.key = k}
           m == Max(I)
<1>1. Shown(w, k) = LET i == IF I # {} THEN m ELSE 0 IN IF i = 0 THEN "ok" ELSE l[i].ev.to
  BY DEF Shown, ShownAfter, SelectLastInSubSeq
<1>2. DOMAIN l = 1..Len(l) /\ Len(l) \in Nat
  BY DEF IsSequence
<1>3. CASE I = {}
  BY <1>1, <1>2, <1>3
<1>4. CASE I # {}
  <2>1. I \subseteq 1..Len(l) /\ \A i : i \in I <=> i \in DOMAIN l /\ l[i].what = "received" /\ l[i].ev.key = k
    BY <1>2
  <2>2. m \in I /\ \A i \in I : i <= m
    <3> HIDE DEF I, l
    <3> QED
      BY <1>2, <1>4, <2>1, MaxFacts
  <2> HIDE DEF I, m
  <2>3. m # 0
    BY <1>2, <2>1, <2>2
  <2>4. Shown(w, k) = l[m].ev.to
    BY <1>1, <1>4, <2>3
  <2> QED
    BY <2>1, <2>2, <2>4
<1> QED
  BY <1>3, <1>4

\* After the newest event that reaches w the stream does not move across the level of w.
LEMMA QuietSince ==
  ASSUME Story(sent), ChainInv, NEW w \in Webhooks, NEW k, NEW i \in DOMAIN sent, sent[i].key = k,
         \A j \in DOMAIN sent : sent[j].key = k /\ Reached(w, sent[j]) => j <= i
  PROVE  \/ SentLevel(k) = sent[i].to
         \/ ~Alarms(w, SentLevel(k)) /\ ~Alarms(w, sent[i].to)
<1>1. DOMAIN sent = 1..Len(sent) /\ Len(sent) \in Nat /\ sent \in Seq(Event)
  BY SeqFacts DEF Story
<1>2. PICK m \in DOMAIN sent : /\ sent[m].key = k /\ SentLevel(k) = sent[m].to
                               /\ \A j \in DOMAIN sent : sent[j].key = k => j <= m
  BY <1>1, SentLevelFacts
<1>3. CASE m = i
  BY <1>2, <1>3
<1>4. CASE m # i
  <2>1. m > i
    BY <1>1, <1>2, <1>4
  <2> DEFINE T == {j \in DOMAIN sent : sent[j].key = k /\ j > i}
  <2>2. PICK n \in T : \A j \in T : n <= j
    <3>1. m \in T /\ T \subseteq Nat
      BY <1>1, <1>2, <2>1
    <3> HIDE DEF T
    <3> QED
      BY <3>1, LeastNat
  <2>3. n \in DOMAIN sent /\ sent[n].key = k /\ n > i
    OBVIOUS
  <2>4. Follows(sent, i, n)
    <3>1. \A j \in DOMAIN sent : i < j /\ j < n => sent[j].key # sent[i].key
      BY <1>1, <2>2
    <3> QED
      BY <2>3, <3>1 DEF Follows
  <2>5. sent[n].from = sent[i].to
    BY <2>3, <2>4 DEF ChainInv
  <2>6. ~Reached(w, sent[n]) /\ ~Reached(w, sent[m])
    BY <1>1, <1>2, <2>1, <2>3
  <2>7. /\ sent[n].from \in Levels /\ sent[n].to \in Levels
        /\ sent[m].from \in Levels /\ sent[m].to \in Levels
    BY <1>1, <2>3, EventsAreEvents
  <2>8. MinLevel[w] \in {"warn", "crit"}
    BY LevelAssumption
  <2>9. ~Alarms(w, sent[n].from) /\ ~Alarms(w, sent[m].to)
    BY <2>6, <2>7, <2>8 DEF Reached, EventReaches, Peak, Alarms, Severity, Levels
  <2> QED
    BY <1>2, <2>5, <2>9
<1> QED
  BY <1>3, <1>4

\* Once the newest event that reaches w was acknowledged, it is the one that is shown.
LEMMA ShownIsNewest ==
  ASSUME LineInv, NEW w \in Webhooks, NEW k, NEW i \in DOMAIN sent, sent[i].key = k,
         \A j \in DOMAIN sent : sent[j].key = k /\ Reached(w, sent[j]) => j <= i,
         sent[i] \in Received(log[w])
  PROVE  Shown(w, k) = sent[i].to
<1>1. Story(sent) /\ LogInv(sent, w, log[w]) /\ IsSequence(log[w])
  BY LineOfWebhook DEF Line, LogInv
<1>2. PICK a \in DOMAIN log[w] : log[w][a].what = "received" /\ log[w][a].ev = sent[i]
  BY DEF Received
<1>3. PICK b \in DOMAIN log[w] :
        /\ log[w][b].what = "received" /\ log[w][b].ev.key = k /\ Shown(w, k) = log[w][b].ev.to
        /\ \A j \in DOMAIN log[w] : log[w][j].what = "received" /\ log[w][j].ev.key = k => j <= b
  BY <1>1, <1>2, ShownFacts
<1> DEFINE e == log[w][b].ev
<1>4. e \in Known(sent) /\ Reached(w, e)
  BY <1>1, <1>3 DEF LogInv
<1>5. PICK p \in DOMAIN sent : sent[p] = e
  BY <1>4 DEF Known
<1>6. p <= i
  BY <1>3, <1>4, <1>5
<1>7. PosIn(sent, sent[i]) = i /\ PosIn(sent, e) = p /\ i \in Nat /\ p \in Nat
  BY <1>1, <1>5, PosFacts, SeqFacts DEF Story
<1>8. a <= b /\ a \in Nat /\ b \in Nat
  BY <1>1, <1>2, <1>3 DEF IsSequence
<1>9. i <= p
  <2>1. CASE a = b
    BY <1>2, <1>7, <2>1
  <2>2. CASE a # b
    <3>1. a < b
      BY <1>8, <2>2
    <3>2. PosIn(sent, log[w][a].ev) <= PosIn(sent, log[w][b].ev)
      BY <1>1, <1>2, <1>3, <3>1 DEF LogInv
    <3> QED
      BY <1>2, <1>7, <3>2
  <2> QED
    BY <2>1, <2>2
<1> QED
  BY <1>3, <1>5, <1>6, <1>7, <1>9

\* Without an event that reaches w there is no alarm, and none is shown.
LEMMA NothingToTell ==
  ASSUME LineInv, ChainInv, NEW w \in Webhooks, NEW k,
         \A j \in DOMAIN sent : sent[j].key = k => ~Reached(w, sent[j])
  PROVE  ~Alarms(w, SentLevel(k)) /\ ~Alarms(w, Shown(w, k))
<1>1. Story(sent) /\ LogInv(sent, w, log[w]) /\ IsSequence(log[w]) /\ sent \in Seq(Event)
  BY LineOfWebhook DEF Line, LogInv, Story
<1>2. MinLevel[w] \in {"warn", "crit"}
  BY LevelAssumption
<1>3. ~Alarms(w, "ok")
  BY <1>2 DEF Alarms, Severity
<1>4. \A i \in DOMAIN log[w] : log[w][i].what = "received" => log[w][i].ev.key # k
  BY <1>1 DEF LogInv, Known
<1>5. Shown(w, k) = "ok"
  BY <1>1, <1>4, ShownFacts
<1>6. ASSUME NEW i \in DOMAIN sent, sent[i].key = k PROVE ~Alarms(w, sent[i].to)
  <2>1. sent[i].from \in Levels /\ sent[i].to \in Levels /\ ~Reached(w, sent[i])
    BY <1>1, <1>6, SeqFacts, EventsAreEvents
  <2> QED
    BY <1>2, <2>1 DEF Reached, EventReaches, Peak, Alarms, Severity, Levels
<1>7. ~Alarms(w, SentLevel(k))
  BY <1>1, <1>3, <1>6, SentLevelFacts
<1> QED
  BY <1>3, <1>5, <1>7

\* ConsumerAgrees: when the newest event of a stream was acknowledged, the consumer shows
\* what the engine says, whatever was lost, repeated or limited before.
THEOREM ConsumerComesToAgree == PipelineSpec => []ConsumerAgrees
<1>1. PipelineInv => ConsumerAgrees
  <2> SUFFICES ASSUME PipelineInv, NEW w \in Webhooks, NEW k \in Keys,
                      LastFor(w, k) = 0 \/ Ended(w, sent[LastFor(w, k)], {"confirmed"})
               PROVE  /\ Alarms(w, level[k]) <=> Alarms(w, Shown(w, k))
                      /\ Alarms(w, level[k]) => Shown(w, k) = level[k]
    BY DEF ConsumerAgrees
  <2>1. LineInv /\ ChainInv /\ level[k] = SentLevel(k) /\ Story(sent)
    BY LineOfWebhook DEF PipelineInv, NotifierInv, LevelInv
  <2>2. CASE \A i \in DOMAIN sent : sent[i].key = k => ~Reached(w, sent[i])
    BY <2>1, <2>2, NothingToTell
  <2>3. CASE ~\A i \in DOMAIN sent : sent[i].key = k => ~Reached(w, sent[i])
    <3> DEFINE i == LastFor(w, k)
    <3>1. /\ i \in DOMAIN sent /\ i # 0 /\ sent[i].key = k
          /\ \A j \in DOMAIN sent : sent[j].key = k /\ Reached(w, sent[j]) => j <= i
      BY <2>1, <2>3, LastForFacts
    <3>2. sent[i] \in Received(log[w])
      BY <2>1, <3>1, ConfirmedFacts DEF Ended
    <3>3. Shown(w, k) = sent[i].to
      BY <2>1, <3>1, <3>2, ShownIsNewest
    <3>4. \/ SentLevel(k) = sent[i].to
          \/ ~Alarms(w, SentLevel(k)) /\ ~Alarms(w, sent[i].to)
      BY <2>1, <3>1, QuietSince
    <3> QED
      BY <2>1, <3>3, <3>4
  <2> QED
    BY <2>2, <2>3
<1> QED
  BY <1>1, PipelineIsCorrect, PTL

\* NeverStuckAlarming: a stream that is below the level of w is not shown as alarming once
\* its newest event was acknowledged or limited.
THEOREM ConsumerIsNotStuck == PipelineSpec => []NeverStuckAlarming
<1>1. PipelineInv => NeverStuckAlarming
  <2> SUFFICES ASSUME PipelineInv, NEW w \in Webhooks, NEW k \in Keys, ~Alarms(w, level[k]),
                      LastFor(w, k) = 0 \/ Ended(w, sent[LastFor(w, k)], {"confirmed", "limited"})
               PROVE  ~Alarms(w, Shown(w, k))
    BY DEF NeverStuckAlarming
  <2>1. LineInv /\ ChainInv /\ level[k] = SentLevel(k) /\ Story(sent) /\ Exact(log[w])
    BY LineOfWebhook DEF PipelineInv, NotifierInv, LevelInv
  <2>2. CASE \A i \in DOMAIN sent : sent[i].key = k => ~Reached(w, sent[i])
    BY <2>1, <2>2, NothingToTell
  <2>3. CASE ~\A i \in DOMAIN sent : sent[i].key = k => ~Reached(w, sent[i])
    <3> DEFINE i == LastFor(w, k)
    <3>1. /\ i \in DOMAIN sent /\ i # 0 /\ sent[i].key = k /\ Reached(w, sent[i])
          /\ \A j \in DOMAIN sent : sent[j].key = k /\ Reached(w, sent[j]) => j <= i
      BY <2>1, <2>3, LastForFacts
    <3>2. \/ SentLevel(k) = sent[i].to
          \/ ~Alarms(w, SentLevel(k)) /\ ~Alarms(w, sent[i].to)
      BY <2>1, <3>1, QuietSince
    <3>3. ~Alarms(w, sent[i].to)
      BY <2>1, <3>2
    <3>4. PICK j \in DOMAIN log[w] : log[w][j].ev = sent[i] /\ log[w][j].what \in {"confirmed", "limited"}
      BY <3>1 DEF Ended
    <3>5. log[w][j].what # "limited"
      <4> SUFFICES ASSUME log[w][j].what = "limited" PROVE FALSE
        OBVIOUS
      <4>1. sent[i].kind = "fired"
        BY <2>1, <3>4 DEF Exact
      <4>2. sent[i].kind = Kind(sent[i].from, sent[i].to)
        BY <2>1, <3>1 DEF ChainInv
      <4>3. sent[i].from \in Levels /\ sent[i].to \in Levels
        BY <2>1, <3>1, SeqFacts, EventsAreEvents DEF Story
      <4>4. MinLevel[w] \in {"warn", "crit"}
        BY LevelAssumption
      <4> HIDE DEF i
      <4>5. Alarms(w, sent[i].to)
        BY <3>1, <4>1, <4>2, <4>3, <4>4
           DEF Reached, EventReaches, Peak, Alarms, Severity, Levels, Kind
      <4> QED
        BY <3>3, <4>5
    <3>6. sent[i] \in Received(log[w])
      BY <2>1, <3>4, <3>5, ConfirmedFacts
    <3>7. Shown(w, k) = sent[i].to
      BY <2>1, <3>1, <3>6, ShownIsNewest
    <3> QED
      BY <3>3, <3>7
  <2> QED
    BY <2>2, <2>3
<1> QED
  BY <1>1, PipelineIsCorrect, PTL
=============================================================================
