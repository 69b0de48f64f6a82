--------------------------- MODULE RequestPath ----------------------------
(***************************************************************************)
(* The way of a request through internal/httpapi: routing (routes.go), the *)
(* middleware around a handler (middleware.go, apiRoute of server.go) and  *)
(* the counters of the server's own traffic (serverstats.go).              *)
(*                                                                         *)
(* Every request has a goroutine of its own.  A step is what one of them   *)
(* does to the state they share: the semaphore of the API, the pool of     *)
(* gzip writers, and the counters, which are atomic one by one and not     *)
(* together.  A handler may take any time, because its client does not     *)
(* read, and it may panic; net/http recovers, and the deferred calls run.  *)
(***************************************************************************)
EXTENDS Integers, FiniteSets, Functions

CONSTANTS Requests,    \* the requests there may be
          Asks,        \* what each may ask for
          Limited,     \* registered routes behind apiRoute
          Open,        \* other paths: the health endpoint, the static files
          Disabled,    \* routes the configuration does not register
          MaxInFlight, \* defaultMaxInFlight
          Writers      \* gzip writers that may be made

\* The routes whose handlers are more than a read of the collector.
Health == "healthz"
Stats == "serverstats"

Routes == Limited \union Open \union Disabled

\* Classes of status codes, in the order snapshot reads them.
Classes == <<"2xx", "4xx", "5xx">>

ASSUME RequestAssumption ==
  /\ IsFiniteSet(Requests) /\ MaxInFlight \in Nat
  /\ Asks \in [Requests -> SUBSET Routes]
  /\ Health \in Open /\ Stats \in Limited
  /\ IsFiniteSet(Routes)
  /\ Limited \intersect (Open \union Disabled) = {}
  /\ Open \intersect Disabled = {}
  /\ MaxInFlight <= Cardinality(Writers)
  /\ ({"total"} \union Range(Classes)) \intersect Routes = {}

Gone == "gone"
NotRead == [read |-> {}, total |-> 0, classes |-> 0, routes |-> 0]

VARIABLES pc,       \* where each request is
          path,     \* the route it asks for
          status,   \* the class of its status, or that its handler panicked
          writer,   \* the gzip writer it holds
          inFlight, \* slots taken, the length of the channel
          pool,     \* the writers in gzipWriterPool
          count,    \* the counters
          seen      \* a request for the counters: those it has read, and their sums

vars == <<pc, path, status, writer, inFlight, pool, count, seen>>

Counters == {"total"} \union Range(Classes) \union Routes

Init ==
  /\ pc = [r \in Requests |-> "absent"]
  /\ path = [r \in Requests |-> Gone]
  /\ status = [r \in Requests |-> Gone]
  /\ writer = [r \in Requests |-> Gone]
  /\ inFlight = 0 /\ pool = {}
  /\ count = [c \in Counters |-> 0] /\ seen = [r \in Requests |-> NotRead]

At(r, from, to) == pc[r] = from /\ pc' = [pc EXCEPT ![r] = to]

Answers(r, class) == status' = [status EXCEPT ![r] = class]

\* The goroutine ends, and with it all it has of the request.
Ends(r) ==
  /\ path' = [path EXCEPT ![r] = Gone] /\ status' = [status EXCEPT ![r] = Gone]
  /\ seen' = [seen EXCEPT ![r] = NotRead]

-----------------------------------------------------------------------------
\* Into the handler.

Arrives(r) ==
  /\ At(r, "absent", "routing")
  /\ \E p \in Asks[r] : path' = [path EXCEPT ![r] = p]
  /\ UNCHANGED <<status, writer, inFlight, pool, count, seen>>

\* Mutant: every registered route is behind apiRoute.
EveryRoute(p) == p \notin Disabled

\* register: which routes are wrapped.
Wrapped(p) == p \in Limited

\* The mux calls the handler of an open path, or has none for a disabled one.
Route(r) ==
  /\ ~Wrapped(path[r])
  /\ IF path[r] \in Disabled
     THEN At(r, "routing", "total") /\ Answers(r, "4xx")
     ELSE At(r, "routing", "handling") /\ UNCHANGED status
  /\ UNCHANGED <<path, writer, inFlight, pool, count, seen>>

\* withMaxInFlight: a slot, or an answer at once.
TakesSlot(r) ==
  /\ Wrapped(path[r])
  /\ IF inFlight < MaxInFlight
     THEN At(r, "routing", "admitted") /\ inFlight' = inFlight + 1 /\ UNCHANGED status
     ELSE At(r, "routing", "total") /\ Answers(r, "5xx") /\ UNCHANGED inFlight
  /\ UNCHANGED <<path, writer, pool, count, seen>>

\* withGzip: if the client accepts gzip, a writer of the pool or, as the pool may drop
\* what it has, a new one.
TakesWriter(r) ==
  /\ At(r, "admitted", "checking")
  /\ \/ UNCHANGED <<writer, pool>>
     \/ \E w \in Writers \ Range(writer) : /\ writer' = [writer EXCEPT ![r] = w]
                                           /\ pool' = pool \ {w}
  /\ UNCHANGED <<path, status, inFlight, count, seen>>

\* withAPIKey: the request has the key, or none is asked for, or it is refused.
ChecksKey(r) ==
  /\ \/ At(r, "checking", "handling") /\ UNCHANGED status
     \/ At(r, "checking", "returned") /\ Answers(r, "4xx")
  /\ UNCHANGED <<path, writer, inFlight, pool, count, seen>>

-----------------------------------------------------------------------------
\* The handler.

\* Out of it and into the deferred calls, if it is wrapped.
After(r) == IF Wrapped(path[r]) THEN "returned" ELSE "total"

\* The health endpoint answers either way.
Handles(r) ==
  /\ path[r] # Stats
  /\ At(r, "handling", After(r))
  /\ \E c \in IF path[r] = Health THEN {"2xx", "5xx"} ELSE {"2xx"} : Answers(r, c)
  /\ UNCHANGED <<path, writer, inFlight, pool, count, seen>>

\* A panic in a handler.  The deferred calls run, and nothing after them.
Panics(r) ==
  /\ IF Wrapped(path[r])
     THEN At(r, "handling", "returned") /\ Answers(r, "panic") /\ UNCHANGED <<path, seen>>
     ELSE At(r, "handling", "done") /\ Ends(r)
  /\ UNCHANGED <<writer, inFlight, pool, count>>

\* Mutant: the total is read first.
TotalBeforeRoutes(read) ==
  IF "total" \notin read THEN {"total"}
  ELSE IF Routes \subseteq read THEN Range(Classes) \ read ELSE Routes \ read

\* snapshot reads the routes in any order, then the total, then class by class.
NextReads(read) ==
  IF ~(Routes \subseteq read) THEN Routes \ read
  ELSE IF "total" \notin read THEN {"total"}
  ELSE {Classes[i] : i \in {j \in DOMAIN Classes :
          Classes[j] \notin read /\ \A k \in 1..(j - 1) : Classes[k] \in read}}

Group(c) == IF c = "total" THEN "total" ELSE IF c \in Routes THEN "routes" ELSE "classes"

\* handleServerStats loads one counter after the other, and answers.
Reads(r) ==
  /\ path[r] = Stats /\ pc[r] = "handling"
  /\ \E c \in NextReads(seen[r].read) :
       seen' = [seen EXCEPT ![r].read = @ \union {c}, ![r][Group(c)] = @ + count[c]]
  /\ IF seen'[r].read = Counters THEN At(r, "handling", After(r)) /\ Answers(r, "2xx")
     ELSE UNCHANGED <<pc, status>>
  /\ UNCHANGED <<path, writer, inFlight, pool, count>>

-----------------------------------------------------------------------------
\* Out again.

\* withGzip's deferred calls: the writer is closed and goes back to the pool.
ReturnsWriter(r) ==
  /\ At(r, "returned", "closed")
  /\ writer' = [writer EXCEPT ![r] = Gone]
  /\ pool' = pool \union ({writer[r]} \ {Gone})
  /\ UNCHANGED <<path, status, inFlight, count, seen>>

\* On to withLogging's last lines or, with a panic, to net/http.
Leaves(r) ==
  IF status[r] = "panic" THEN At(r, "closed", "done") /\ Ends(r)
  ELSE At(r, "closed", "total") /\ UNCHANGED <<path, status, seen>>

\* Mutant: the slot is given back where the handler returns, not deferred.
GivesSlotBackNotDeferred(r) ==
  /\ Leaves(r)
  /\ inFlight' = IF status[r] = "panic" THEN inFlight ELSE inFlight - 1
  /\ UNCHANGED <<writer, pool, count>>

\* withMaxInFlight's deferred call.
GivesSlotBack(r) ==
  /\ Leaves(r)
  /\ inFlight' = inFlight - 1
  /\ UNCHANGED <<writer, pool, count>>

Counts(c) == /\ count' = [count EXCEPT ![c] = @ + 1]
             /\ UNCHANGED <<writer, inFlight, pool>>

\* record, called by withLogging: the total, the class of the status, the route.
RecordsTotal(r) == At(r, "total", "class") /\ Counts("total") /\ UNCHANGED <<path, status, seen>>
RecordsClass(r) == At(r, "class", "route") /\ Counts(status[r]) /\ UNCHANGED <<path, status, seen>>
RecordsRoute(r) == At(r, "route", "done") /\ Counts(path[r]) /\ Ends(r)

\* The steps of a request's goroutine.
Step(r) ==
  \/ Route(r) \/ TakesSlot(r) \/ TakesWriter(r) \/ ChecksKey(r)
  \/ Handles(r) \/ Panics(r) \/ Reads(r)
  \/ ReturnsWriter(r) \/ GivesSlotBack(r)
  \/ RecordsTotal(r) \/ RecordsClass(r) \/ RecordsRoute(r)

Next == \E r \in Requests : Arrives(r) \/ Step(r)

Spec == Init /\ [][Next]_vars

\* Requests that may be for something other than the API.
Visitors == {r \in Requests : Asks[r] \intersect Open # {}}

\* The goroutines of requests for open paths are scheduled, and their small responses
\* written.  Of those for the API nothing is assumed: all their clients may have stopped
\* reading.
HungSpec ==
  Spec /\ \A r \in Visitors : WF_vars(path[r] \in Open /\ Step(r))

-----------------------------------------------------------------------------

\* The requests between taking a slot and giving it back.
Inside == {r \in Requests : pc[r] \in {"admitted", "checking", "handling", "returned", "closed"}
                              /\ Wrapped(path[r])}

\* No slot is lost or given twice, and no writer shared (the deferred calls of
\* withMaxInFlight and withGzip, through a refused key, a hung client or a panic): the
\* slots taken are those of the requests inside, within the limit, and no writer is
\* held by two requests, or held and in the pool.
NothingLeaks ==
  /\ inFlight = Cardinality(Inside) /\ inFlight <= MaxInFlight
  /\ \A r \in Requests : writer[r] # Gone =>
       writer[r] \notin pool /\ \A q \in Requests \ {r} : writer[q] # writer[r]

SumOver(f, S) == FoldFunctionOnSet(LAMBDA a, b : a + b, 0, f, S)

\* The counters never show more by route than by class or in total (record, and the
\* order of the loads in snapshot), however requests and reads interleave; and when
\* no request is under way they agree: no increment is lost.
CountersAgree ==
  /\ \A r \in Requests : seen[r].read = Counters =>
       seen[r].routes <= seen[r].total /\ seen[r].routes <= seen[r].classes
  /\ (\A r \in Requests : pc[r] \in {"absent", "done"}) =>
       /\ SumOver(count, Routes) = count["total"]
       /\ SumOver(count, Range(Classes)) = count["total"]

\* The health endpoint and the page are answered by their own handlers, whatever the API
\* is busy with (routeTable, which leaves them out of apiRoute): clients that hang in
\* every slot do not keep a monitor from asking, or the page from loading.
OpenStaysOpen ==
  \A r \in Visitors :
    pc[r] = "routing" /\ path[r] \in Open ~> pc[r] = "handling" /\ path[r] \in Open
=============================================================================
