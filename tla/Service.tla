------------------------------- MODULE Service ------------------------------
(***************************************************************************)
(* The HTTP handlers and the service methods they call.                    *)
(*                                                                         *)
(* net/http runs every request in a goroutine of its own and the service   *)
(* holds no lock across its store calls, so the requests interleave        *)
(* between any two statements.  A Handler is a slot for one request in     *)
(* flight.  The action with the name of a service method takes a request   *)
(* in and runs it up to and including its first statement; each action     *)
(* that follows runs one more statement with the Go code between it and    *)
(* the next.  With one handler the requests are served one at a time.      *)
(***************************************************************************)
EXTENDS Store

CONSTANTS
  Handler,          \* requests that can be in flight together
  Ops,              \* kinds of requests the clients of this instance send
  Filings,          \* contents of the flight plans that clients file
  Targets,          \* states that clients move flights to
  ExplicitIds,      \* whether clients may choose the ids of what they create
  LossPairs,        \* pairs of Geo for which detectPair reports a conflict
  Faults,           \* whether a statement may fail
  MaxCrashes,       \* bound on the restarts of the process
  InitialAircraft,  \* contents of the database file the process opens
  InitialPlans

VARIABLES
  req,              \* the request each handler is serving, or its answer
  boot              \* number of restarts of the process

vars == <<aircraft, plans, tracks, handoffs, conflicts, events, req, boot>>

AllOps == {"Register", "File", "Move", "Report", "Initiate", "Accept",
           "Reconcile", "Malformed"}

ASSUME ServiceAssumption ==
  /\ Ops \subseteq AllOps
  /\ Filings \subseteq {r \in PlanRow : r.state = "FILED"}
  /\ Targets \subseteq FlightState
  /\ ExplicitIds \in BOOLEAN
  /\ LossPairs \subseteq Geo \X Geo
  /\ Faults \in BOOLEAN
  /\ MaxCrashes \in Nat

\* The database file was written by an earlier run of the program.
ASSUME InitialAssumption ==
  /\ InitialAircraft \in [AircraftId -> AircraftRow \cup {None}]
  /\ InitialPlans \in [PlanId -> PlanRow \cup {None}]
  /\ \A p \in PlanId : InitialPlans[p] # None =>
       LET row == InitialPlans[p] IN
         /\ InitialAircraft[row.ac] # None
         /\ row.cruise \in InitialAircraft[row.ac].envelope
         /\ row.suspended = (row.state = "SUSPENDED")
  /\ \A p, q \in PlanId :
       /\ InitialPlans[p] # None
       /\ InitialPlans[q] # None
       /\ InitialPlans[p].callsign = InitialPlans[q].callsign
       => p = q

Label ==
  {"idle", "file_type", "file_put", "move_put", "move_event",
   "report_latest", "report_add", "refresh_flights", "refresh_track",
   "refresh_replace", "initiate_list", "initiate_put", "accept_flight",
   "accept_putflight", "accept_puthandoff", "reconcile_put"}

\* 2xx, 404, 422, and 400 or 500; "none" before the first answer.
Status == {"none", "ok", "notfound", "rejected", "failed"}

Request ==
  [pc    : Label,
   resp  : Status,                         \* answer to the last request
   wrote : BOOLEAN,                        \* history: it has changed a table
   plan  : PlanId \cup {None},             \* the plan it names
   row   : PlanRow \cup {None},            \* its copy of a flight plan
   hid   : HandoffId \cup {None},          \* the handoff it names
   hand  : HandoffRow \cup {None},         \* its copy of the handoff
   track : Track \cup {None},              \* the report it carries
   hs    : SUBSET [id: HandoffId, row: HandoffRow],  \* Reconcile's to-do list
   todo  : SUBSET PlanId,                  \* refresh: plans still to read
   seen  : SUBSET [plan: PlanId, geo: Geo]]  \* refresh: what it has read

Idle == [pc |-> "idle", resp |-> "none", wrote |-> FALSE, plan |-> None,
         row |-> None, hid |-> None, hand |-> None, track |-> None,
         hs |-> {}, todo |-> {}, seen |-> {}]

TypeOK ==
  /\ TablesOK
  /\ req \in [Handler -> Request]
  /\ boot \in Nat

Init ==
  /\ aircraft = InitialAircraft
  /\ plans = InitialPlans
  /\ tracks = [p \in PlanId |-> {}]
  /\ handoffs = [h \in HandoffId |-> None]
  /\ conflicts = {}
  /\ events = {}
  /\ req = [w \in Handler |-> Idle]
  /\ boot = 0

-----------------------------------------------------------------------------
(* Handlers                                                                *)

\* w is free to take a request of kind op.
Takes(w, op) == op \in Ops /\ req[w].pc = "idle"

At(w, label) == req[w].pc = label

Begin(w, r) == req' = [req EXCEPT ![w] = r]

Answer(w, status) == req' = [req EXCEPT ![w] = [Idle EXCEPT !.resp = status]]

\* Ids that idlib.New can return: 48 random bits, taken as never drawn twice.
FreshPlanIds ==
  {p \in PlanId : plans[p] = None /\ \A v \in Handler : req[v].plan # p}

FreshHandoffIds ==
  {h \in HandoffId : handoffs[h] = None /\ \A v \in Handler : req[v].hid # h}

\* Prefixed keeps an id the client sent and draws a fresh one otherwise.
FilingIds == IF ExplicitIds THEN PlanId ELSE FreshPlanIds

RegistrationIds ==
  IF ExplicitIds THEN AircraftId ELSE {a \in AircraftId : aircraft[a] = None}

-----------------------------------------------------------------------------
(* Requests that fail before the first statement: a body that is not JSON, *)
(* an aircraft type without a code, a plan without a callsign, a report    *)
(* without a plan or a timestamp.                                          *)

Malformed(w) ==
  /\ Takes(w, "Malformed")
  /\ Answer(w, "failed")
  /\ UNCHANGED <<tables, boot>>

-----------------------------------------------------------------------------
(* POST /aircraft-types *)

RegisterAircraft(w) ==
  /\ Takes(w, "Register")
  /\ \E a \in RegistrationIds, row \in AircraftRow : PutAircraft(a, row)
  /\ Answer(w, "ok")
  /\ UNCHANGED <<plans, tracks, handoffs, conflicts, events, boot>>

-----------------------------------------------------------------------------
(* POST /flight-plans *)

SkipEnvelope(row) == aircraft[row.ac] # None
NoTypeCheck(row) == TRUE

ValidateEnvelope(row) ==
  /\ aircraft[row.ac] # None
  /\ row.cruise \in aircraft[row.ac].envelope

FileRequest(w, p, row) ==
  Begin(w, [Idle EXCEPT !.pc = "file_type", !.plan = p, !.row = row])

File(w) ==
  /\ Takes(w, "File")
  /\ \E p \in FilingIds, row \in Filings :
       IF CallsignExists(row.callsign)
       THEN Answer(w, "rejected")
       ELSE FileRequest(w, p, row)
  /\ UNCHANGED <<tables, boot>>

FileAircraft(w) ==
  LET row == req[w].row IN
  /\ At(w, "file_type")
  /\ \/ aircraft[row.ac] = None /\ Answer(w, "notfound")
     \/ aircraft[row.ac] # None /\ ~ValidateEnvelope(row) /\ Answer(w, "rejected")
     \/ ValidateEnvelope(row) /\ req' = [req EXCEPT ![w].pc = "file_put"]
  /\ UNCHANGED <<tables, boot>>

\* PutFlight, here and below, fails with 500 when another row has the callsign.
FilePut(w) ==
  LET p == req[w].plan  row == req[w].row IN
  /\ At(w, "file_put")
  /\ \/ CallsignFree(p, row.callsign) /\ PutFlight(p, row) /\ Answer(w, "ok")
     \/ ~CallsignFree(p, row.callsign) /\ UNCHANGED plans /\ Answer(w, "failed")
  /\ UNCHANGED <<aircraft, tracks, handoffs, conflicts, events, boot>>

-----------------------------------------------------------------------------
(* POST /flight-plans/{id}/transition *)

Move(w) ==
  /\ Takes(w, "Move")
  /\ \E p \in PlanId, to \in Targets :
       \/ plans[p] = None /\ Answer(w, "notfound")
       \/ /\ plans[p] # None /\ ~CanTransition(plans[p].state, to)
          /\ Answer(w, "rejected")
       \/ /\ plans[p] # None /\ CanTransition(plans[p].state, to)
          /\ Begin(w, [Idle EXCEPT !.pc = "move_put", !.plan = p,
                                   !.row = Transition(plans[p], to)])
  /\ UNCHANGED <<tables, boot>>

MovePut(w) ==
  LET p == req[w].plan  row == req[w].row IN
  /\ At(w, "move_put")
  /\ \/ /\ CallsignFree(p, row.callsign)
        /\ PutFlight(p, row)
        /\ req' = [req EXCEPT ![w].pc = "move_event", ![w].wrote = TRUE]
     \/ ~CallsignFree(p, row.callsign) /\ UNCHANGED plans /\ Answer(w, "failed")
  /\ UNCHANGED <<aircraft, tracks, handoffs, conflicts, events, boot>>

MoveEvent(w) ==
  /\ At(w, "move_event")
  /\ Event(req[w].plan, req[w].row.state)
  /\ Answer(w, "ok")
  /\ UNCHANGED <<aircraft, plans, tracks, handoffs, conflicts, boot>>

-----------------------------------------------------------------------------
(* POST /track-reports *)

NeverOutOfOrder(p, t) == FALSE

OutOfOrder(p, t) == \E old \in LatestTrack(p) : old.ts >= t.ts

Airborne(row) == row.state = "ACTIVE"

Report(w) ==
  /\ Takes(w, "Report")
  /\ \E p \in PlanId, t \in Track :
       \/ plans[p] = None /\ Answer(w, "notfound")
       \/ plans[p] # None /\ ~Airborne(plans[p]) /\ Answer(w, "rejected")
       \/ /\ plans[p] # None /\ Airborne(plans[p])
          /\ Begin(w, [Idle EXCEPT !.pc = "report_latest", !.plan = p,
                                   !.track = t])
  /\ UNCHANGED <<tables, boot>>

ReportLatest(w) ==
  /\ At(w, "report_latest")
  /\ IF OutOfOrder(req[w].plan, req[w].track)
     THEN Answer(w, "rejected")
     ELSE req' = [req EXCEPT ![w].pc = "report_add"]
  /\ UNCHANGED <<tables, boot>>

ReportAdd(w) ==
  LET p == req[w].plan  t == req[w].track IN
  /\ At(w, "report_add")
  /\ \/ /\ TrackFree(p, t)
        /\ AddTrack(p, t)
        /\ req' = [req EXCEPT ![w].pc = "refresh_flights", ![w].wrote = TRUE]
     \/ ~TrackFree(p, t) /\ UNCHANGED tracks /\ Answer(w, "failed")
  /\ UNCHANGED <<aircraft, plans, handoffs, conflicts, events, boot>>

-----------------------------------------------------------------------------
(* refresh: the tail of Report and of Reconcile.  It lists the plans, then *)
(* reads the latest report of each ACTIVE one in id order, then replaces   *)
(* the conflicts.                                                          *)

Detect(seen) ==
  {c \in ConflictRow : /\ c.a < c.b
                       /\ \E s, t \in seen : /\ s.plan = c.a /\ t.plan = c.b
                                             /\ <<s.geo, t.geo>> \in LossPairs}

ActivePlans == {p \in PlanId : plans[p] # None /\ plans[p].state = "ACTIVE"}

\* The plan whose latest report refresh reads next.
NextPlan(w, p) == p \in req[w].todo /\ \A q \in req[w].todo : p <= q

ListAgain(rest) == IF rest = {} THEN "refresh_flights" ELSE "refresh_track"

\* Where refresh goes when the plans in rest remain to be read.
AfterRead(rest) == IF rest = {} THEN "refresh_replace" ELSE "refresh_track"

RefreshFlights(w) ==
  /\ At(w, "refresh_flights")
  /\ req' = [req EXCEPT ![w].pc = AfterRead(ActivePlans),
                        ![w].todo = ActivePlans]
  /\ UNCHANGED <<tables, boot>>

TrackOrFail(w) ==
  /\ At(w, "refresh_track")
  /\ \E p \in PlanId :
       /\ NextPlan(w, p)
       /\ IF LatestTrack(p) = {}
          THEN Answer(w, "notfound")
          ELSE req' = [req EXCEPT
            ![w].pc = AfterRead(req[w].todo \ {p}),
            ![w].todo = @ \ {p},
            ![w].seen = @ \cup {[plan |-> p, geo |-> t.geo] : t \in LatestTrack(p)}]
  /\ UNCHANGED <<tables, boot>>

RefreshTrack(w) ==
  /\ At(w, "refresh_track")
  /\ \E p \in PlanId :
       /\ NextPlan(w, p)
       /\ req' = [req EXCEPT
            ![w].pc = AfterRead(req[w].todo \ {p}),
            ![w].todo = @ \ {p},
            ![w].seen = @ \cup {[plan |-> p, geo |-> t.geo] : t \in LatestTrack(p)}]
  /\ UNCHANGED <<tables, boot>>

RefreshReplace(w) ==
  /\ At(w, "refresh_replace")
  /\ ReplaceConflicts(Detect(req[w].seen))
  /\ Answer(w, "ok")
  /\ UNCHANGED <<aircraft, plans, tracks, handoffs, events, boot>>

-----------------------------------------------------------------------------
(* POST /handoffs *)

NeverPending(p) == FALSE

HandoffPending(p) ==
  \E h \in HandoffId : /\ handoffs[h] # None
                       /\ handoffs[h].plan = p
                       /\ handoffs[h].state = "INITIATED"

InitiateHandoff(w) ==
  /\ Takes(w, "Initiate")
  /\ \E p \in PlanId, from, to \in Sector, h \in FreshHandoffIds :
       \/ plans[p] = None /\ Answer(w, "notfound")
       \/ plans[p] # None /\ ~Airborne(plans[p]) /\ Answer(w, "rejected")
       \/ /\ plans[p] # None /\ Airborne(plans[p])
          /\ Begin(w, [Idle EXCEPT !.pc = "initiate_list", !.plan = p, !.hid = h,
                         !.hand = [plan |-> p, from |-> from, to |-> to,
                                   state |-> "INITIATED"]])
  /\ UNCHANGED <<tables, boot>>

\* The checks of Initiate come after the list of handoffs has been read.
AfterList(w) ==
  IF CanInitiate(req[w].hand.from, req[w].hand.to)
  THEN req' = [req EXCEPT ![w].pc = "initiate_put"]
  ELSE Answer(w, "rejected")

InitiateList(w) ==
  /\ At(w, "initiate_list")
  /\ IF HandoffPending(req[w].plan) THEN Answer(w, "rejected") ELSE AfterList(w)
  /\ UNCHANGED <<tables, boot>>

InitiatePut(w) ==
  /\ At(w, "initiate_put")
  /\ PutHandoff(req[w].hid, req[w].hand)
  /\ Answer(w, "ok")
  /\ UNCHANGED <<aircraft, plans, tracks, conflicts, events, boot>>

-----------------------------------------------------------------------------
(* POST /handoffs/{id}/accept *)

AcceptHandoff(w) ==
  /\ Takes(w, "Accept")
  /\ \E h \in HandoffId :
       \/ handoffs[h] = None /\ Answer(w, "notfound")
       \/ handoffs[h] # None /\ ~CanAccept(handoffs[h]) /\ Answer(w, "rejected")
       \/ /\ handoffs[h] # None /\ CanAccept(handoffs[h])
          /\ Begin(w, [Idle EXCEPT !.pc = "accept_flight", !.hid = h,
                         !.plan = handoffs[h].plan, !.hand = Accept(handoffs[h])])
  /\ UNCHANGED <<tables, boot>>

KeepControl(p, h) == [p EXCEPT !.sector = h.from]

TakeControl(p, h) == [p EXCEPT !.sector = h.to]

AcceptFlight(w) ==
  LET p == req[w].plan IN
  /\ At(w, "accept_flight")
  /\ IF plans[p] = None
     THEN Answer(w, "notfound")
     ELSE req' = [req EXCEPT ![w].pc = "accept_putflight",
                             ![w].row = TakeControl(plans[p], req[w].hand)]
  /\ UNCHANGED <<tables, boot>>

AcceptPutFlight(w) ==
  LET p == req[w].plan  row == req[w].row IN
  /\ At(w, "accept_putflight")
  /\ \/ /\ CallsignFree(p, row.callsign)
        /\ PutFlight(p, row)
        /\ req' = [req EXCEPT ![w].pc = "accept_puthandoff", ![w].wrote = TRUE]
     \/ ~CallsignFree(p, row.callsign) /\ UNCHANGED plans /\ Answer(w, "failed")
  /\ UNCHANGED <<aircraft, tracks, handoffs, conflicts, events, boot>>

AcceptPutHandoff(w) ==
  /\ At(w, "accept_puthandoff")
  /\ PutHandoff(req[w].hid, req[w].hand)
  /\ Answer(w, "ok")
  /\ UNCHANGED <<aircraft, plans, tracks, conflicts, events, boot>>

-----------------------------------------------------------------------------
(* POST /admin/rebuild.  Reconcile writes back the copies it listed; their *)
(* order is that of random ids.                                            *)

Unsettled ==
  {[id |-> h, row |-> CancelUnaccepted(handoffs[h])] :
     h \in {g \in HandoffId : handoffs[g] # None /\ Unaccepted(handoffs[g])}}

AfterCancel(rest) == IF rest = {} THEN "refresh_flights" ELSE "reconcile_put"

Reconcile(w) ==
  /\ Takes(w, "Reconcile")
  /\ Begin(w, [Idle EXCEPT !.pc = AfterCancel(Unsettled), !.hs = Unsettled])
  /\ UNCHANGED <<tables, boot>>

ReconcilePut(w) ==
  /\ At(w, "reconcile_put")
  /\ \E e \in req[w].hs :
       /\ PutHandoff(e.id, e.row)
       /\ req' = [req EXCEPT ![w].pc = AfterCancel(req[w].hs \ {e}),
                             ![w].hs = @ \ {e}, ![w].wrote = TRUE]
  /\ UNCHANGED <<aircraft, plans, tracks, conflicts, events, boot>>

-----------------------------------------------------------------------------
(* Failures                                                                *)

\* A statement fails (the client went away and its context is cancelled, or
\* the disk failed) and the method returns the error: 500.
DbError(w) ==
  /\ Faults
  /\ req[w].pc \in {"file_type", "file_put", "move_put", "report_add",
       "refresh_flights", "refresh_replace", "initiate_put", "accept_flight",
       "accept_putflight", "accept_puthandoff", "reconcile_put"}
  /\ Answer(w, "failed")
  /\ UNCHANGED <<tables, boot>>

\* A statement fails and the method goes on as if it had found nothing: the
\* count of callsigns, the event, the latest report before a new one is stored
\* and while conflicts are computed, the list of handoffs.
CallsignsUnread(w) ==
  /\ Takes(w, "File")
  /\ \E p \in FilingIds, row \in Filings : FileRequest(w, p, row)

EventDropped(w) == At(w, "move_event") /\ Answer(w, "ok")

LatestUnread(w) ==
  At(w, "report_latest") /\ req' = [req EXCEPT ![w].pc = "report_add"]

TrackSkipped(w) ==
  /\ At(w, "refresh_track")
  /\ \E p \in PlanId :
       /\ NextPlan(w, p)
       /\ req' = [req EXCEPT ![w].pc = AfterRead(req[w].todo \ {p}),
                             ![w].todo = @ \ {p}]

HandoffsUnread(w) == At(w, "initiate_list") /\ AfterList(w)

IgnoredError(w) ==
  /\ Faults
  /\ \/ CallsignsUnread(w)
     \/ EventDropped(w)
     \/ LatestUnread(w)
     \/ TrackSkipped(w)
     \/ HandoffsUnread(w)
  /\ UNCHANGED <<tables, boot>>

\* The process stops and starts again on the same database file; main opens
\* the store and serves, and runs no recovery of its own.
Restart ==
  /\ boot < MaxCrashes
  /\ boot' = boot + 1
  /\ req' = [w \in Handler |-> Idle]
  /\ UNCHANGED tables

-----------------------------------------------------------------------------

\* Requests taken from clients: about flight plans and aircraft types, about
\* flights under way, and about their control.
ArrivePlans(w) == RegisterAircraft(w) \/ File(w)
ArriveFlights(w) == Move(w) \/ Report(w)
ArriveControl(w) == InitiateHandoff(w) \/ AcceptHandoff(w) \/ Reconcile(w)

Arrive(w) == Malformed(w) \/ ArrivePlans(w) \/ ArriveFlights(w) \/ ArriveControl(w)

\* The next statement of the request that w serves.
Proceed(w) ==
  \/ FileAircraft(w) \/ FilePut(w)
  \/ MovePut(w) \/ MoveEvent(w)
  \/ ReportLatest(w) \/ ReportAdd(w)
  \/ RefreshFlights(w) \/ RefreshTrack(w) \/ RefreshReplace(w)
  \/ InitiateList(w) \/ InitiatePut(w)
  \/ AcceptFlight(w) \/ AcceptPutFlight(w) \/ AcceptPutHandoff(w)
  \/ ReconcilePut(w)

Next ==
  \/ \E w \in Handler : Arrive(w) \/ Proceed(w) \/ DbError(w) \/ IgnoredError(w)
  \/ Restart

Spec == Init /\ [][Next]_vars

\* A goroutine that holds a request runs on until it has answered it; nobody
\* has to send a request.
FairSpec == Spec /\ \A w \in Handler : WF_vars(Proceed(w))
=============================================================================
