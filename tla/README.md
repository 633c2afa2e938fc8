# A TLA+ verification of the ATC conflict engine

This directory holds TLA+ models of the engine in `src/`, the TLC configurations
that check them on small instances, and proofs of theorems about them for all
instances. `PROJECT.json` lists the components, the runs, a mutant of the model
for every property, the source lines each definition models, the findings and
the hazards.

## The system

A Go HTTP service over one SQLite file. Controllers register aircraft types,
file flight plans and move them through a lifecycle, feed surveillance reports,
and hand flights over between sectors; after every report the service recomputes
the table of predicted losses of separation.

| component | state | operations | calls |
|---|---|---|---|
| `model` | none | enums, rows, error sentinels, `IsBusinessError` | |
| `flight` | none | `CanTransition`, `Transition`, `ValidateEnvelope`, `Initiate`, `Accept`, `CancelUnaccepted` | |
| `store` | six tables, one connection, a mutex | one method per statement; `ReplaceConflicts` is a transaction | |
| `service` | none of its own | `RegisterAircraft`, `File`, `Move`, `Report` (with `refresh`), `InitiateHandoff`, `AcceptHandoff`, `Reconcile`; reads | `flight`, `store`, `separation` |
| `httpapi` | none | decode, call the service, map errors to status codes | `service`, `metrics` |
| `main` | the process | open `atc.db`, serve; no recovery | `store`, `httpapi` |
| `separation` | none | `Detect`: pairwise probe over a lookahead window | `trajectory` |
| `trajectory` | none | projection, distance, bearing, route position | |
| `airspace` | in-memory registry | add, look up, `ValidateRoute`, `Adjacent`, point in polygon | `trajectory` |
| `flow` | none | `Occupancy`, `MilesInTrailCheck` | `airspace` |
| `clock` | fake time and timers | `After`, `Advance`, `HasPending` | |
| `metrics`, `report` | none | counters over two reads | |
| `idlib`, `webfs`, `selfcheck` | none | random ids; static files; a fixed smoke test | |

`airspace`, `flow` and the fake clock are used by tests and the smoke test only:
no route of the API reaches them.

### What is hard about it

* **Interleaving.** `net/http` serves each request in a goroutine. The store
  serialises statements (`SetMaxOpenConns(1)`), but the service holds no lock
  across statements: every method reads, decides and writes in separate
  statements, and `Move` and `AcceptHandoff` write back a whole row read earlier.
* **Partial failure.** A statement fails when the client goes away or the disk
  does. Most methods return the error; the count of callsigns, the newest report,
  the list of handoffs and the event log swallow it and go on.
* **Crashes.** Only single statements are atomic. A stop can fall between the two
  writes of `AcceptHandoff`, or between storing a report and refreshing the
  conflicts. `main` opens the database and serves; `Reconcile` runs only when
  somebody posts to `/admin/rebuild`.
* **Waiting.** `ReplaceConflicts` holds a mutex while it waits for the only
  connection, and a list keeps the connection while it is read row by row.
* **Geometry at samples.** The probe and the sector entry look at samples only,
  and the polygons, minima and clocks have boundaries where one comparison decides.
* **Maps.** `airspace` and `flow` iterate over Go maps, whose order is any.
* **Derived data.** The conflicts are recomputed by reports and rebuilds, not by
  the moves that change which flights are ACTIVE.

### What makes each component correct

* Lifecycle: a flight moves along the lifecycle only, a terminated one stays so;
  the suspended flag agrees with the state.
* Store and filing: callsigns are unique; plans refer to registered types and fit
  their envelope; all rows refer to rows that exist.
* Surveillance: reports of a flight are stored in order and only while it is
  ACTIVE; conflicts are those of the newest reports of ACTIVE flights, each backed
  by stored reports.
* Handoff: one pending offer per flight; a settled offer never opens again; an offer is
  completed only after control has moved, also across a restart. (A cancelled one may
  have moved control too, see the disagreements.)
* Pool: the table of conflicts is replaced as a whole or not at all; connection and
  mutex are returned on every path; every call ends.
* Probe: a pair is reported if and only if some sample loses both minima; the order
  of the two flights does not matter; what falls between two samples is a graze.
* Trajectory: where a flight is and when agree; an entry is reported one step late at
  most.
* Airspace: the index answers for the airways; a valid route stays valid as long as
  its legs are short or declared; sectors that tile a volume share no point and leave
  none out.
* Flow: a flight is counted only where it is, and none is left out; spacing of
  neighbours gives spacing of all.
* Fake clock: every timer fires once, on time.
* API: an answer of 404 or 422 means nothing has changed; every request is
  answered.

## Modules

| module | models | state and actions |
|---|---|---|
| `Flight` | `internal/flight`, enums of `model` | pure rules as operators on rows |
| `Store` | `internal/store`, rows of `model` | one variable per table, one operator per statement |
| `Service` | `internal/service`, the POST routes of `httpapi`, `main` | `req[w]`, the request of handler `w`; one action per statement |
| `FlightLifecycle` | what is promised of a flight | abstract specification |
| `HandoffProtocol` | what is promised of control | abstract specification |
| `ServiceSafety` | the properties of the service | refinement mappings to the two above |
| `MCService` | values for the constants of the runs | checks `LossPairs` against `Separation` |
| `ServiceProofs` | theorems about rows, for any requests | |
| `ServiceSteps` | lemmas: what each step does to the fields of requests and tables | |
| `HandlerProofs` | theorems for any number of handlers | |
| `SerialProofs` | theorems for one request at a time, both refinements | |
| `Pool` | `internal/store` below the statements | `call[c]`, `conn`, `mu`, `txn`; one action per wait and per statement |
| `ConflictTable` | what the store promises of the conflicts | abstract specification that `Pool` implements |
| `PoolProofs` | theorems | |
| `Grid` | distances | operators |
| `Projection` | `ProjectFromTrack`, `InitialBearing` | operators |
| `Trajectory` | `PositionAtTime`, `Interpolate` | operators |
| `Separation` | `internal/separation` but for `Detect` | operators |
| `Sectors` | `InsideSector`, `PointInPolygon` | operators |
| `Analysis` | `Detect`, `PredictSectorEntry`, `internal/flow`, `internal/selfcheck` | `call`, the frame of the one call that runs; one action per iteration of a loop |
| `AnalysisSafety`, `MCAnalysis` | properties and inputs of `Analysis` | |
| `AnalysisProofs` | theorems | |
| `Airspace` | the registry of `internal/airspace` | its four maps; one action per `Add...` |
| `AirspaceSafety`, `MCAirspace` | properties and values of `Airspace` | |
| `AirspaceProofs` | theorems | |
| `FakeClock` | `clock.Fake`, with its properties | `now`, the array behind `pending`, the running `Advance`, the channels |
| `ClockProofs` | theorems | |

`Service` extends `Store`, which extends `Flight`. `ServiceSafety` extends
`Service` and instantiates the two abstract modules. `Separation` extends
`Projection`, which extends `Grid`, as `Trajectory` and `Sectors` do; `Analysis`
extends all of them. `Store` and `Pool` are the same code at two depths: `Store`
takes every statement and the transaction as one step, `Pool` shows that callers
cannot tell the difference.

### How a method becomes actions

A *handler* is a slot for one request in flight; its record holds the statement
it will run next (`pc`) and the Go method's local variables: its copy of the
plan (`row`), of the handoff (`hand`), the report, the list that `Reconcile` works
off (`hs`), and what `refresh` has still to read and has read (`todo`, `seen`).
The action named after a method takes the request in and runs its first
statement, then the Go code up to the next one; each further action runs one
statement. For example `AcceptHandoff` (read the handoff, check and change the
copy), `AcceptFlight` (read the plan, change the copy), `AcceptPutFlight`,
`AcceptPutHandoff`. Every early return is a disjunct that answers.

`DbError` lets any statement with a checked error fail, `IgnoredError` any whose
error is swallowed; both only where `Faults` is TRUE. `Restart` loses every request
and keeps the tables. A failed statement has no effect: SQLite rolls it back.

### How a loop becomes actions

The functions of `separation`, `trajectory`, `flow` and `selfcheck` are pure. A
call is a frame with its arguments, the variables of its outer loop and the result
so far; each iteration is an action, the inner loops are operators. Iteration
over a Go map takes any element that is left. `selfcheck.Run` calls two of them:
its frame is the caller of theirs.

`FakeClock` splits `Advance` at every place where the code outside the mutex could
see a difference: the receivers run beside the sends. `kept := f.pending[:0]` shares
the array with `f.pending`, so the model has one array that is read and written by
the same loop.

`Pool` has one action per wait (`Lock`, `BeginTx`, `Query`, `Acquire`), per statement of
the transaction, and per row of a list. `GiveUp` is the end of a request's context
while it waits, `TxFails` and the second outcome of `Commit` a failure, `Crash` a stop.

### What is abstracted

* Plan ids and timestamps are numbers standing for their place in the text order
  in which the store sorts and the service compares them.
* `Geo` stands for position, level, heading and rates, `LossPairs` for the pairs
  for which `detectPair` returns a conflict. Type, time and distances of a conflict
  are not kept there. `ProbeAssumption` of `MCService` has TLC compute that the
  pairs of the runs are what `Separation!detectPair` says of two such reports.
* The sphere is a plane, in units of 1/300 nm (`Analysis`), 1/100 degree (polygons of
  `Airspace`) or 100 nm (its waypoints). Headings are multiples of 90 degrees and legs run along the axes;
  bearings are vectors and take any direction. Speeds and times are such that
  positions are whole. On this grid the code's floating-point comparisons are
  exact; what rounding does to values within an ulp of a boundary is not modelled.
  That includes the division of `PointInPolygon` (`airspace.go:129`): a slanted edge that
  two sectors list from different ends may round differently for a position on it, where
  `WestOf` multiplies crosswise and has no remainder.
* Cruise speeds are not negative. Infinities and NaNs of `PositionAtTime` are.
* That a failed `Commit` leaves the transaction open in SQLite, which depends on the
  driver, is not modelled: `Pool` lets a failed commit end the transaction.
* An aircraft type is the set of cruises that `ValidateEnvelope` admits.
* `idlib.New` (48 random bits) never repeats an id.
* The event log is a set: two equal events of one flight count as one.
* `wrote` of a request (has changed a table) and `revised` of the registry (airways that
  were registered again without a leg they had) are history: no guard reads them.
* Requests that fail before their first statement are one action, `Malformed`;
  so is a first statement that fails with 500, which changes nothing either.
  Reads (`GET` routes) are left out, they change nothing.

## Runs

The runs of the service are instances of `MCService`. Constants bound them: `PlanId`, `HandoffId`,
`Ts`, `Geo` and `Sector` the data, `Filings` and `Targets` what clients send, `Ops` the
kinds of requests, `MaxCrashes` the restarts. `InitialPlans` puts flights where
the question starts. Once every id of the instance is used nothing new is filed or
offered; nothing else is cut off, and every run explores its instance to the end. Deadlock is
checked in every run.

| run | handlers | instance | shows |
|---|---|---|---|
| `filing` | 2, faults | 2 types, 2 plans, fresh ids | references, unique callsigns and envelopes survive check-then-write races |
| `stale_copies` | 2 | 2 plans, 3 handoffs, client-chosen ids, 2 sectors | state and flag agree although whole rows are overwritten; pending offers of a flight never outnumber the handlers, busy or idle |
| `surveillance` | 2, faults, 1 restart | 2 flights, 2 timestamps, 2 positions | conflicts keep their evidence, refusals change nothing |
| `handoff_failures` | 2, faults, 1 restart | 1 flight, 2 handoffs, 2 sectors | settled handoffs stay settled |
| `serial_flights` | 1, 1 restart | 2 plans, 2 timestamps, whole lifecycle | lifecycle refinement, exact refresh, ordered reports, honest log |
| `serial_handoffs` | 1, 1 restart | 2 plans, 3 handoffs, 2 sectors | protocol refinement, one pending offer |
| `answers` | 2, fair | 2 flights, 1 handoff | every request is answered, a rebuild settles what it picked |

| run | instance | shows |
|---|---|---|
| `analysis` | 5760 pictures of two flights around FL410 and 64 of three, 960 sector entries, 204 traffic situations, 1262 queues | the probe, the sector entry and the monitors agree with what is there at every second |
| `airspace` | 2 sectors, 2 waypoints, 2 airways, each registered and registered again; 5 routes, 44 positions | the index, valid routes, unambiguous tilings |
| `fake_clock` | 3 timers, durations 0 to 2, clock up to 3 | timers fire once, on time |
| `pool` | 3 callers, 2 conflicts, failures, a stop at any time | atomic replacement, no leak, no wait for ever |

Why the bounds suffice: every race of interest is between two requests (a reader
whose copy is stale and a writer), so two handlers; a conflict needs two flights;
an out-of-order report two timestamps, and a changed verdict two positions; a
second offer after a settled one and a third beside two racing ones need three
handoff ids; one restart can fall between any two statements. The symmetry of
handlers and of handoff ids is used in runs without liveness; no action orders
either (a rebuild's order is that of random ids).

In `analysis` the inputs are chosen so that each comparison of the code is met from
both sides and on the boundary: pairs that lose and miss each minimum, climb
and descend through FL410, meet head-on between two samples, stand in one place;
routes with a node filed twice, with legs without speed, shorter than a step;
sectors that share an edge, a level or everything; gaps of exactly the required
distance. The lookahead is six steps, enough for a pair to lose separation, in the middle,
at the end or after it. The airspace tiles are cut along a slanted line, whose ends are
listed among the corners of the whole, and positions are asked for on vertices, cuts and
both levels of the band. Three timers are what it
takes for a kept timer to overwrite one that fired between two others. Three callers
are a holder of the mutex, a holder of the connection and one more who waits.

Properties of the service hold with two handlers unless marked serial. Those of the serial runs are
what the code guarantees only to clients that wait for each answer. With
`Handler = {w1, w2}` both `AtMostOnePending` (two offers list the handoffs before
either writes) and `ReportsInOrder` (two reports read the newest one before either
writes) are violated; `PendingBounded` is what remains of the first: no more pending
handoffs of a flight than requests that can be served at once. They stay pending after
the requests that raced are answered, so nothing bounds them by the requests in flight
at the moment. When statements fail, that is lost too: `InitiateHandoff` takes an error of the list for an empty list
(`service.go:133`), and a refresh skips the flights whose report it cannot read
(`service.go:111`), so `AtMostOnePending`, `PendingBounded` and `RefreshExact` are checked
without failures.

### Liveness and fairness

`FairSpec` adds `WF_vars(Proceed(w))` for each handler: a goroutine that holds a
request keeps running, since the Go scheduler is fair, the connection is
handed to waiters in turn, and no statement waits for another request's next
statement. Nothing obliges a client to send a request, and no fairness is assumed
of `Arrive`, faults or restarts; the liveness run has neither faults nor restarts,
so what ends a request is the handler itself. That `detectPair` terminates is
assumed, not shown.

`Pool` assumes that a statement that runs ends (WF), and that whoever waits for the
connection or the mutex gets it if it is free again and again (SF): the pool serves
waiting requests at random and a Go mutex hands itself over to whoever has waited
for a millisecond. WF would not do, since others may take it each time. Failures,
the end of a context and stops are never required. `Analysis` assumes WF of the
steps of a call; `FakeClock` of the steps of a running `Advance` and of the receivers of
channels that hold a value. Nobody has to call anything.

### Disagreements between the code and its documentation

`race_terminated` checks a sentence of the source, and TLC finds a behaviour of the
code against it: with two handlers, an accept writes back an ACTIVE copy over
TERMINATED. The quote is in `PROJECT.json`.

More were found while modelling; they have no run.

The service:

* Two refreshes interleave, and the one that read fewer reports writes last: with no
  request in flight the table misses a conflict (`service.go:120`, against
  `BENZHI_README.md:3`).
* `Move` does not refresh, so the conflicts of a flight that is suspended or terminated
  stay until some flight's next report (`service.go:62`; `model.go:24` "is excluded from
  conflict detection", `model.go:226` "between two active flights").
* `main` never calls `Reconcile`, so an offer survives a restart and can be accepted
  after it (`main.go:32`; `model.go:54` "is rolled back to this state").
* A stop between the two writes of an accept, followed by a rebuild, cancels a handoff
  whose transfer is durable (`service.go:160`; `model.go:55` "the transfer never became
  durable"). `HandoffProtocol` allows it.
* A rebuild that listed a handoff before it was accepted writes CANCELLED over COMPLETED
  (`reconcile.go:17`; `model.go:54` "an un-accepted handoff"). `HandoffSettles` excludes
  only that it is pending again.
* A plan filed under the id of an existing one replaces it: the flight is FILED again,
  whatever its state was (`service.go:52`, against the edges of `state.go:8`). A type that
  is registered again leaves plans that no longer fit it (`service.go:30`).
* `GET /metrics` counts plans and conflicts in two reads (`handlers.go:17`).

The analysis packages:

* Conflicts come in pair order, not "earliest-first" (`separation.go:72`).
* The vertical minimum is that of the current levels, so a pair that climbs through
  FL410 is judged by 1000 ft above it (`separation.go:88`; the package comment says
  "1000ft when both aircraft are at or below FL410"). `ProbeExact` says for which
  pairs the verdict can differ.
* `CPATs`, "the time of closest approach" (`model.go:228`), is the first sample at which both
  minima are lost (`separation.go:109`, `:135`), also for pairs that go on converging.
  `ProbeExact` takes no side: it asks for a sample that loses both minima, and that none
  of the closest ones is over by then.
* Two flights in one place that both fly north are OPPOSITE (`separation.go:199`).
* `Advance` fires in the order of registration, not "in deadline order"
  (`clock.go:72`); `DeadlineOrder` is what holds of the times received.
* `Occupancy` lists the sectors in the order of a map, not "ordered by sector id"
  (`flow.go:19`), and `SectorsList` has no "stable order" (`airspace.go:77`).
* `Occupancy` counts a flight in one sector only, the first that the map yields
  (`airspace.go:97`), where sectors overlap, which `airspace.go:94` calls a
  misconfiguration, or share a level, which `model.go:104` includes in both. By its comment
  it is counted in each: "when its position is inside the sector volume" (`flow.go:20`).
  `FlightsCounted` holds of both readings.
* With a step of zero `PredictSectorEntry` never ends (`trajectory.go:206`), unless the
  first sample is inside; the probe has a default for its step (`separation.go:90`).
* `MilesInTrailCheck` takes the farthest flight for the leader (`flow.go:68`); among
  flights approaching a fix the closest one leads. The gaps are the same.
* An airway that is registered again keeps its old legs: a leg may pass as "covered by a
  declared airway" that no airway has (`airspace.go:58`, `:165`). The properties of routes say
  nothing of such legs, so that the index may as well be cleared of them.
* Of a polygon's boundary one half is inside (`airspace_test.go:29` says
  "boundary inclusive"); the tolerance of `Adjacent` is 0.02 degrees where its comment says
  0.01, and sides that touch without a common vertex do not count (`airspace.go:194`).
* The node a route ends with is filed twice: its level is never reached, because a last
  leg of no length has fraction 0 (`trajectory.go:175`).

And in the service: `Move` can overwrite the sector that
a concurrent accept has just set (`service.go:71`; the mirror image of
`race_terminated`); a CLEARED flight becomes ACTIVE without a report, although
`model.go:20` says it has one; `AcceptHandoff` does not ask whether the flight is
still ACTIVE (`model.go:215`) and `InitiateHandoff` not whether the offering sector has
control (`model.go:45`); the callsign of a terminated flight stays taken
(`model.go:290` speaks of active flights).

## Proofs

`ServiceProofs` proves, for every value of the constants (any number of handlers,
flights, types and handoffs, with or without faults and restarts):

* `TypeCorrect`: `Spec => []TypeOK`. `TypeOK` is not inductive: a handler may hold None
  where the next statement writes its copy into a table. `TypeInv` adds `Holding`:
  which local variables are loaded at which statement.
* `CallsignsUnique`: `Spec => []CallsignUnique`. Inductive given the types. The
  argument is the constraint checked at every write, not the check in `File`.
* `SuspendedFlagCorrect`: `Spec => []SuspendedFlag`. `FlagInv` says the same of every
  copy a handler holds, since a stale copy is written back.
* `EnvelopesRespected`: `Spec => []EnvelopeRespected`. `FitInv` says of every stored plan
  and every checked copy that its type is registered and, when clients do not
  choose ids, admits its cruise; it is stable because types are only added.

The proofs rest on the assumptions named in `Store` and `Service`:
`OrderAssumption`, `NoneAssumption`, `ServiceAssumption` (filings are FILED plans)
and `InitialAssumption` (the database that is opened satisfies what an earlier run
of the program left). TLC evaluates all of them on every run.

The layout: one lemma for the initial state and one per group of actions
(`ArriveType`, `ProceedType`, `FailureType`, `RestartType`) show `TypeInv` inductive. A
second pass over the actions (`NextRow`) sums up what a step can do to plans, types
and copies as `RowStep`; the last three theorems use `RowStep` only.

`PoolProofs` proves, for any number of callers, conflicts and batches, with failing
statements, contexts that end and stops of the process:

* `PoolSafe`: `Spec => []NothingLeaks`: the connection and the mutex are held by exactly
  the calls between taking and returning them.
* `StoreKeepsPromise`: `Spec => ReplacedAsAWhole`: `Pool` implements `ConflictTable`. A
  successful `Commit` is the abstract `Replace`, a rollback, a failed commit or giving up
  before the transaction is `Refuse`, `CloseRows` is `List`, an arrival is `Ask` or
  `NewCall`, a stop is `Stop`; everything else stutters.

The inductive invariant `IInv` has three parts. `TypeInv` gives every statement its
frame. `Owned` says who holds connection and mutex; it is what keeps the callers apart:
only the owner of the connection touches the table or the transaction (`Quiet`).
`Informed` says what a call knows in the middle of its loops: the transaction holds
exactly the rows that were inserted, and the rows a list has read are a beginning of the
table in the order of ids. Without it neither is `Commit` known to write what was asked
for nor `CloseRows` to return all of the table. The only assumption is
`PoolAssumption`: ids are ordered, and None is neither a caller nor a set of conflicts.

### Interleaved requests

`HandlerProofs` proves, for any number of handlers, with failing statements and
restarts unless the theorem says otherwise. It rests on `ServiceSteps`, which says once
and for all what a step may do to the fields of a request and to the tables
(`NextStep`): it leaves the tables alone (`Reads`, 13 kinds of step) or changes one of
them (`Writes`, 10 kinds). The theorems then argue about these kinds instead of the
actions, with their guards and errors, one by one.

* `ReferencesIntact`: `Spec => []ReferentialIntegrity`. `RefInv` adds that everything a
  request holds in its local variables names stored plans too (`Refers`), since it is
  inserted later; plans are never deleted.
* `ConflictsBacked`: `Spec => []ConflictEvidence`. `EvidenceInv` adds that what `refresh`
  has seen is the geometry of stored reports; reports are never deleted.
* `RejectionsChangeNothing`: `Spec => RejectedChangesNothing`. `AnswerInv` says at which
  statements a request can still be refused, and that it has written nothing there.
* `HandoffsSettle`: `Spec => HandoffSettles`. `HandoffInv` ties each copy of a handoff to
  the stored row: same flight and sectors, and never pending when it is written
  back (`Copied`); an id that is drawn is drawn by one handler (`Fresh`).
* `PendingIsBounded`: `~Faults`, finitely many handlers: `Spec => []PendingBounded`, a bound by
  the handlers there are, not by those that serve a request at the moment.
  `BoundInv` counts with the pending rows the handlers that have checked and will still
  insert one: both together are at most the handlers. With faults it is false: `Handoffs`
  swallows the error of its list (`service.go:133`), and the check sees none.

### One request at a time

`SerialProofs` states what the code promises if requests do not overlap (`Alone`: there
is one handler at most): one client that waits for each answer. No lock enforces it, and
`race_terminated` shows what is lost when requests overlap. Restarts between any two
statements are included.

* `OnePending` (`~Faults`): `AtMostOnePending`, from `PendingBounded`.
* `LifecycleFollowed` (ids drawn by the server): `Spec => FollowsLifecycle`, the refinement
  of `FlightLifecycle`. `FlightInv`: the copy a request holds of its plan is the stored row
  with its own change.
* `EventsStayBehind` (ids drawn by the server): `EventsBehindState`, with `Behind`.
* `ReportsOrdered` (`~Faults`): `ReportsInOrder`. `ReportInv`: a flight with reports has a
  newest one, and a report about to be stored is newer. With faults the read of the
  newest report may fail unseen.
* `RefreshIsExact` (`~Faults`): `RefreshExact`. `ViewInv`: what `refresh` has listed and
  read is what the tables hold.
* `ProtocolFollowed` (`~Faults`, ids drawn by the server): `Spec => FollowsProtocol`, the
  refinement of `HandoffProtocol`. It takes `FlightInv`, `HandoffInv` and `OfferInv` (the
  copy of a handoff is the stored row as it will be written). `PutFlight` of an accept maps
  to the transfer of control, `PutHandoff` to the completion; between the two the
  process may stop, and the abstract offer is still open.

`~Faults` means that no statement fails, `~ExplicitIds` that clients name no ids. No
hypothesis can be dropped: with `Faults` set to TRUE TLC finds a counterexample to each of
the theorems that assume `~Faults` in the runs `serial_flights` and `serial_handoffs`
(an error of `LatestTrack` or `Handoffs` is swallowed), with `ExplicitIds` set to TRUE
one to each that assumes `~ExplicitIds` (a plan is filed again over the one in the air).

### Fake clock

`ClockProofs`, for any timers, durations and horizon, from `ClockAssumption` (durations
are not negative, None is no value):

* `ClockTypeCorrect`: `ClockOK`. `TypeInv` adds the frame of `Advance`, and that what is
  kept and unread lies inside the array.
* `OneHomeHolds`: `OneHome`. `HomeInv` says that the places of a timer (a slot that was kept
  or is unread, the list to fire, the channel, the receiver) exclude each other and
  that no timer has two slots. The counts of `OneHome` follow from it. The heart is
  the filter step: it writes to a slot that was already read.
* `OnTimeHolds`: `OnTime`. `DueInv`: what was kept is not due, what is to fire is due.
* `DeadlinesRespected`: `DeadlineOrder`. `OrderInv`: a timer that was told a time has a
  deadline no later than any that waits, or is told no later time.

### Airspace

`AirspaceProofs`, for any registrations, routes, sectors and positions, from
`RoutesAssumption`, `PlacesAssumption` and `VolumesAssumption` (coordinates and levels are
integers: the grid of the model; a polygon is a list of corners, of any length):

* `IndexIsExact`: `IndexExact`, inductive with the types and `Named` (the index names
  registered airways).
* `LongLegsAreDeclared`: `LongLegsOnAirways`, from `IndexExact`.
* `RoutesStayValid`: `ValidRouteStays`, from `IndexExact` after the step: a leg beyond the
  maximum that some airway declares is in the index; the other conditions of a leg
  depend on its two waypoints only. The proof does not use that the index only grows.
* `PolygonsAreOutlines`: `OutlineBlind`. The loop of `pointInPolygon` toggles once for every
  edge it crosses, so inside means that the crossed edges are odd in number. An edge
  is crossed from either end (`EdgeEitherWay`), and turning or reversing the list maps
  its edges one to one (`SameInside`, with `RotatedInside` and `ReversedInside`), so the
  number stays. Adjacency compares sets of neighbouring corners (`SameNeighbours`).
* `TilesAreUnambiguous`: `TilingUnambiguous`, from `TilesAssumption`: the whole is cut along
  the line between its first corner and another, and each part lies on one side of it. The
  edges of the two parts are those of the whole and the cut, once each way (`Parities`);
  so the whole is crossed an odd number of times if and only if one of the parts is, and
  the other is not (`CutInTwo`, wherever the line runs). That a position is in both is
  excluded by the sides (`Apart`): of a polygon beyond the line, none of the edges at the
  latitude of the position lies to the east of it, or all do (`EdgeBeside`), and in either
  case an even number is crossed (`AllOrNone`). Neither needs convexity. The assumption
  on the sides cannot be dropped: parts that overlap are ambiguous.

### Analysis

`AnalysisProofs`, for any pictures, flights, traffic, queues and parameters of the
probe that satisfy the assumptions of `AnalysisSafety`. `PicturesAssumption`,
`FlightsAssumption`, `TrafficAssumption` and `QueuesAssumption`: the flights of one picture,
and of one traffic list, are different flights, as the service lists them from a table
keyed by id; speeds, levels, steps and horizons are not negative. `RoutesAssumption` and
`SpeedsAssumption` keep routes and tracks on the grid, where the code has real numbers:
legs run along an axis and take whole seconds, speeds are whole numbers of units in a
second. `FloatAssumption` of `Trajectory`: NaN and Inf are not numbers, and NaN is neither a
position nor a fraction.

* `ProbeIsExact`: `ProbeExact`. `DetectInv` says that the pairs up to `i`, `j` are probed and
  that the result holds the conflicts of those pairs and no others; `PairConflict` what
  `detectPair` returns; `SameSamples` that stepping through the window meets
  the multiples of the step; `Levels` and `Sides` which flights change their side of FL410.
* `OrderDoesNotMatter`: `OrderBlind`, from `PairSymmetric` and `LabelSymmetric`: both are
  facts about any two reports, not only about those of the pictures.
* `OppositeIsHeadOn`: `OppositeCloses`. The label needs each heading within 25 degrees of
  the bearing to the other flight; on the grid the relative velocity then has a
  negative product with the relative position.
* `CloseEncountersAreFound`: `CloseEncountersFound`. Between two samples the relative
  position moves along a line (`Relative`), on which the square of the distance is
  convex: weighed by the seconds to the other sample, the squares at the two samples
  exceed the one at an instant between them by the product of those seconds and the
  square of the relative speed (`OneCoordinate`). That is at most the square of half of
  what the flights travel in a step (`Added`), so one of the samples is inside the minimum
  (`NearSample`). The property rounds that half up: rounded down it is false for odd steps.
* `FlightsAreOnSchedule`: `OnSchedule`, from `EntryInv`. `SecondsBefore` is a recursive
  function over the legs. No induction rule can be cited, so that it satisfies its
  own equation on every route is shown by minimal counterexample: were there none that does,
  there would be a smallest number of legs without one (`SumExists`, `SumUnique`,
  `SecondsStep`). `StopsOnce` says which leg the loop of `PositionAtTime` stops at,
  `OnLeg` where on it the flight is (`AlongAxis`), or that it is at its end.
* `EntriesAreExact`: `EntryExact`. `EntryInv`: the samples so far are multiples of the step
  and none was inside.
* `TrailsAreSafe`: `TrailSafe`. `TrailInv` says the property of the flights up to `i`, by
  which the induction over the queue is one over the steps of the loop.
* `FlightsAreCounted`: `FlightsCounted`. `OccupancyInv`: the first `k` flights are counted
  (`Counted`), each once and in exactly one of the sectors it is inside of, and the
  sectors that are not left are listed with their load (`Listed`). Order of the maps is
  any.
* `AlertsAreExact`: `AlertExact`, from `OccupancyInv`, `DetectInv` and `SmokeInv` (the smoke
  test passes its own traffic and tracks). It assumes `StepSec` between 4 and 41 and no
  longer than the window: the two flights of the smoke test are within 5 nm from second 4
  to second 41, so the default of 12 seconds, which `separation.New` sets and
  `selfcheck.Run` uses (`selfcheck.go:21`), has a sample there, and a step of 42 has none.

### Only model-checked

Every safety invariant and action property of the passing runs, and each refinement, is
stated by a theorem. What stays with TLC is liveness (`RequestsAnswered`,
`RebuildSettles`, `DueReceived`, `CallsReturn`, `EveryCallEnds`): the prover has neither
fairness nor ENABLED. `TerminatedIsFinal`, which the code violates, is a counterexample of
TLC.

## Not modelled, and the plan

Not modelled: `metrics` and `report` (they count what two reads returned and change
nothing), `webfs` (static files), the `GET` routes that return a row as stored, JSON
encoding, the real clock and the clock in a context, `idlib.SeqID`, and the types
`Clearance`, `FlowRestriction` and `TrajectoryPoint`, which no code uses. Floating-point
trigonometry is out of TLC's reach. Timestamps are ordered as text, as the code does;
that two such texts may name instants in the other order (`service.go:88`) has no model,
because nothing the code does depends on instants.

What is left of the plan:

1. Tilings of more than two parts: `CutInTwo` applied part by part.
2. Cuts between any two corners: `RotatedInside` moves the first of them to the front.
3. The order of timestamps as text, once something the code does depends on instants.
