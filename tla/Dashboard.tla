----------------------------- MODULE Dashboard -----------------------------
(***************************************************************************)
(* The dashboard's history (internal/web/assets/app.js) against the server *)
(* that keeps it: after a full fetch the page asks only for what is newer  *)
(* than the newest point it holds and appends that, unless the delta does  *)
(* not line up, and fetches the full window now and then anyway.  Polls    *)
(* come at any time: a hidden tab does not poll at all.                    *)
(***************************************************************************)
EXTENDS HistoryServing

CONSTANTS Page,         \* the dashboard among the clients
          Tolerance,    \* historyGapToleranceMs
          ResyncEvery   \* HISTORY_RESYNC_EVERY_POLLS

ASSUME PageAssumption == Page \in Clients /\ Tolerance \in Nat /\ ResyncEvery \in Nat

VARIABLES held,     \* latestHistory
          since,    \* historySince (FullWindow: null)
          polls,    \* historyPollsSinceResync
          phase,    \* "idle", or the fetch that pollHistory waits for
          recorded  \* history: the instants of all ticks

vars == <<svars, held, since, polls, phase, recorded>>

Incremental == since # FullWindow /\ polls < ResyncEvery

\* Mutant: points that are missing go unnoticed.
AlignsLoosely(delta) == held # NoData /\ (delta # NoData => Head(delta) > Last(held))

\* mergeHistory's conditions: strictly newer points, and no gap before them.
Aligns(delta) ==
  /\ held # NoData
  /\ delta # NoData => /\ Head(delta) > Last(held)
                       /\ Head(delta) - Last(held) <= Tolerance

\* Mutant: the window is measured strictly.
TrimmedStrictly(points) ==
  IF Window = 0 \/ points = NoData THEN points ELSE From(points, Last(points) - Window + 1)

\* trimHistoryWindow: of points in time order, its filter leaves those from the cutoff on.
Trimmed(points) ==
  IF Window = 0 \/ points = NoData THEN points ELSE From(points, Last(points) - Window)

\* renderHistory, and the end of the poll.
Render(points, count) ==
  /\ held' = points
  /\ since' = NewestPoint(points)
  /\ polls' = count
  /\ phase' = "idle"
  /\ request' = [request EXCEPT ![Page] = NoRequest]

server == <<clock, hist, gen, cache, restarts, lost, recorded>>

\* pollHistory, by its timer or when the page becomes visible; the in-flight
\* guard lets one through at a time.
Poll ==
  /\ phase = "idle"
  /\ Ask(Page, IF Incremental THEN since ELSE FullWindow)
  /\ phase' = IF Incremental THEN "delta" ELSE "full"
  /\ UNCHANGED <<server, held, since, polls>>

ReceiveFull ==
  /\ phase = "full" /\ request[Page].pc = "answered"
  /\ Render(request[Page].reply, 0)
  /\ UNCHANGED server

ReceiveDelta ==
  /\ phase = "delta" /\ request[Page].pc = "answered"
  /\ Aligns(request[Page].reply)
  /\ Render(Trimmed(held \o request[Page].reply), polls + 1)
  /\ UNCHANGED server

\* The delta does not line up: fetch the full window instead.
Realign ==
  /\ phase = "delta" /\ request[Page].pc = "answered"
  /\ ~Aligns(request[Page].reply)
  /\ Ask(Page, FullWindow)
  /\ phase' = "full"
  /\ UNCHANGED <<server, held, since, polls>>

\* Any failure: what is held stays, and the next poll asks for everything.
ReceiveError ==
  /\ phase # "idle" /\ request[Page].pc = "broken"
  /\ since' = FullWindow /\ phase' = "idle"
  /\ request' = [request EXCEPT ![Page] = NoRequest]
  /\ UNCHANGED <<server, held, polls>>

\* Another client asks for the full window whenever it likes.
OtherAsks ==
  /\ \E c \in Clients \ {Page} :
       request[c].pc \in {"none", "answered", "broken"} /\ Ask(c, FullWindow)
  /\ UNCHANGED <<server, held, since, polls, phase>>

ServerStep ==
  /\ \/ FastTick /\ recorded' = recorded \union {clock'}
     \/ (Restart \/ \E c \in Clients : Handler(c)) /\ UNCHANGED recorded
  /\ UNCHANGED <<held, since, polls, phase>>

Init ==
  /\ ServingInit
  /\ held = NoData /\ since = FullWindow /\ polls = 0 /\ phase = "idle"
  /\ recorded = {}

Next ==
  \/ ServerStep \/ OtherAsks
  \/ Poll \/ ReceiveFull \/ ReceiveDelta \/ Realign \/ ReceiveError

Spec == Init /\ [][Next]_vars

-----------------------------------------------------------------------------

\* The chart misses nothing the server still has (mergeHistory,
\* trimHistoryWindow, Since): every retained point up to the newest one held,
\* and no older than the window, is held, through deltas, evictions, hidden
\* tabs, failures and restarts of the server; and a page that stays open does
\* not grow, but holds what one full fetch returned, or no more than the window.
HeldCoversWindow ==
  held # NoData =>
    /\ \A p \in ToSet(hist) :
         p <= Last(held) /\ p >= Last(held) - Window => p \in ToSet(held)
    /\ Len(held) <= Capacity \/ Last(held) - Head(held) <= Window

\* No silent hole (mergeHistory's gap check): where two neighbours are further
\* apart than the tolerance, no point was recorded between them that the
\* server did not lose itself in a restart.
NoSilentHole ==
  \A i \in 1..(Len(held) - 1) :
    held[i + 1] - held[i] > Tolerance =>
      \A p \in recorded \ lost : p <= held[i] \/ p >= held[i + 1]
=============================================================================
