--------------------------- MODULE HistoryServing ---------------------------
(***************************************************************************)
(* GET /api/v1/metrics/history (internal/httpapi/handlers.go): handlers    *)
(* running concurrently with each other and with the collector's fast      *)
(* ticks, over a per-generation cache of the history and of its encoding.  *)
(*                                                                         *)
(* A point is the instant of its tick, and all series are one sequence.    *)
(* A handler reads the generation, then works under the cache's mutex; it  *)
(* reads the collector only once there, so that part is one atomic step.   *)
(***************************************************************************)
EXTENDS Integers, FiniteSets, SequencesExt

CONSTANTS Clients,     \* each has at most one request at the server
          Capacity,    \* points the collector retains
          Window,      \* HistoryWindow: age up to which a restart restores them
          Pace,        \* time between two ticks
          MaxTime,     \* bound: the instant of the last tick
          MaxRestarts  \* bound: restarts of the server

ASSUME ServingAssumption ==
  /\ Capacity \in Nat \ {0} /\ Window \in Nat \ {0}
  /\ Pace \subseteq Nat \ {0} /\ MaxTime \in Nat /\ MaxRestarts \in Nat

VARIABLES clock,     \* instant of the last tick
          hist,      \* the retained points, oldest first
          gen,       \* historyGen
          cache,     \* the server's historyCache fields
          request,   \* each client's request as its handler sees it
          restarts,  \* how often the server was restarted
          lost       \* history: points that a restart did not bring back

svars == <<clock, hist, gen, cache, request, restarts, lost>>

\* No cutoff (a zero time.Time): the whole window is asked for.
FullWindow == 0
NoData == << >>

EmptyCache == [valid |-> FALSE, gen |-> 0, data |-> NoData, json |-> NoData, encoded |-> FALSE]

\* pc is "none", "sent", "handled" (generation read), "answered" or "broken" (no
\* usable answer); newest, a history, is the newest point there was when the
\* handler started.
NoRequest == [pc |-> "none", since |-> FullWindow, gen |-> 0, newest |-> 0, reply |-> NoData]

NewestPoint(s) == IF s = NoData THEN 0 ELSE Last(s)

Kept(s) == IF Len(s) <= Capacity THEN s ELSE SubSeq(s, Len(s) - Capacity + 1, Len(s))

\* dropPrefix: of points in time order, those from t on.
From(s, t) == SubSeq(s, 1 + Cardinality({i \in DOMAIN s : s[i] < t}), Len(s))

\* History.Since.
Since(s, t) == IF t = FullWindow THEN s ELSE From(s, t + 1)

ServingInit ==
  /\ clock = 0 /\ hist = << >> /\ gen = 0
  /\ cache = EmptyCache
  /\ request = [c \in Clients |-> NoRequest]
  /\ restarts = 0 /\ lost = {}

\* The collector records a point and a new generation in one critical section.
FastTick ==
  /\ \E d \in Pace : clock + d <= MaxTime /\ clock' = clock + d
  /\ hist' = Kept(Append(hist, clock'))
  /\ gen' = gen + 1
  /\ UNCHANGED <<cache, request, restarts, lost>>

\* The server restarts with the points of its last flush that are young enough;
\* open requests break.
Restart ==
  /\ restarts < MaxRestarts
  /\ \E n \in 0..Len(hist) :
       hist' = From(SubSeq(hist, 1, n), clock - Window)
  /\ lost' = lost \union (ToSet(hist) \ ToSet(hist'))
  /\ gen' = 0
  /\ cache' = EmptyCache
  /\ request' = [c \in Clients |->
                   IF request[c].pc \in {"sent", "handled"}
                   THEN [NoRequest EXCEPT !.pc = "broken"] ELSE request[c]]
  /\ restarts' = restarts + 1
  /\ UNCHANGED clock

\* A request is refused, times out, or its connection is lost.
Break(c) ==
  /\ request[c].pc \in {"sent", "handled", "answered"}
  /\ request' = [request EXCEPT ![c] = [NoRequest EXCEPT !.pc = "broken"]]
  /\ UNCHANGED <<clock, hist, gen, cache, restarts, lost>>

Ask(c, since) == request' = [request EXCEPT ![c] = [NoRequest EXCEPT !.pc = "sent", !.since = since]]

\* cachedHistory before it takes the mutex.
ReadGeneration(c) ==
  /\ request[c].pc = "sent"
  /\ request' = [request EXCEPT ![c].pc = "handled", ![c].gen = gen, ![c].newest = NewestPoint(hist)]
  /\ UNCHANGED <<clock, hist, gen, cache, restarts, lost>>

\* Mutant: a refreshed cache keeps its old encoding.
RefreshKeepingJSON(g) ==
  IF cache.valid /\ cache.gen = g THEN cache
  ELSE [cache EXCEPT !.valid = TRUE, !.gen = g, !.data = hist]

\* The cache, taken anew unless it is of generation g.
Refreshed(g) ==
  IF cache.valid /\ cache.gen = g THEN cache
  ELSE [EmptyCache EXCEPT !.valid = TRUE, !.gen = g, !.data = hist]

\* The critical section of cachedHistory and the encoding of the reply.
Serve(c) ==
  /\ request[c].pc = "handled"
  /\ LET full == request[c].since = FullWindow
         fresh == Refreshed(request[c].gen)
         now == IF full /\ ~fresh.encoded
                THEN [fresh EXCEPT !.encoded = TRUE, !.json = fresh.data] ELSE fresh
     IN  /\ cache' = now
         /\ request' = [request EXCEPT
              ![c].pc = "answered",
              ![c].reply = IF full THEN now.json ELSE Since(now.data, request[c].since)]
  /\ UNCHANGED <<clock, hist, gen, restarts, lost>>

Handler(c) == ReadGeneration(c) \/ Serve(c) \/ Break(c)

\* A reply is never stale (cachedHistory): however handlers and ticks interleave,
\* it reaches at least to the newest point there was when the handler started.
FreshReplies ==
  \A c \in Clients :
    request[c].pc = "answered" /\ request[c].newest > request[c].since =>
      NewestPoint(request[c].reply) >= request[c].newest
=============================================================================
