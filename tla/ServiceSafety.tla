---------------------------- MODULE ServiceSafety ---------------------------
(***************************************************************************)
(* The properties of the service.  The first group holds for any number of *)
(* handlers, with crashes and failing statements; the second for requests  *)
(* served one at a time; the last is what the source says and the service  *)
(* does not do.                                                            *)
(***************************************************************************)
EXTENDS Service, FiniteSets

Filed(p) == plans[p] # None

Offered(h) == handoffs[h] # None

PendingHandoff(h) == Offered(h) /\ handoffs[h].state = "INITIATED"

-----------------------------------------------------------------------------
(* Any number of handlers                                                  *)

\* The tables declare no foreign keys; every reference between rows is kept
\* valid by the order in which the handlers read and write: a plan names a
\* registered aircraft type, and reports, handoffs, events and conflicts name
\* filed plans.
ReferentialIntegrity ==
  /\ \A p \in PlanId : Filed(p) => aircraft[plans[p].ac] # None
  /\ \A p \in PlanId : tracks[p] # {} => Filed(p)
  /\ \A h \in HandoffId : Offered(h) => Filed(handoffs[h].plan)
  /\ \A e \in events : Filed(e.plan)
  /\ \A c \in conflicts : Filed(c.a) /\ Filed(c.b)

\* No two stored plans have one callsign, although File checks and inserts in
\* two statements with other requests between them (File, Store.PutFlight).
CallsignUnique ==
  \A p, q \in PlanId :
    Filed(p) /\ Filed(q) /\ plans[p].callsign = plans[q].callsign => p = q

\* Outside FILED, where the client's value is stored as it came, the suspended
\* flag of every stored plan says whether its state is SUSPENDED, whichever of
\* Move and AcceptHandoff wrote the row last and however stale its copy was.
SuspendedFlag ==
  \A p \in PlanId : Filed(p) /\ plans[p].state # "FILED" =>
    plans[p].suspended = (plans[p].state = "SUSPENDED")

\* Every stored conflict is between two different plans in id order and is
\* backed by two stored reports, one of each plan, that lose separation: a
\* table mixed from two refreshes, or computed from a report that was never
\* stored, would have a conflict without evidence (refresh, ReplaceConflicts).
ConflictEvidence ==
  \A c \in conflicts :
    /\ c.a < c.b
    /\ \E t \in tracks[c.a], u \in tracks[c.b] : <<t.geo, u.geo>> \in LossPairs

\* When clients do not choose ids, every stored plan cruises inside the
\* envelope of its aircraft type, although the type is read one statement
\* before the plan is written (File, ValidateEnvelope).
EnvelopeRespected ==
  ~ExplicitIds => \A p \in PlanId : Filed(p) =>
    plans[p].cruise \in aircraft[plans[p].ac].envelope

\* A handoff that has left INITIATED never returns to it, and its flight and
\* its sectors never change, although Accept and Reconcile write back whole
\* rows they read earlier.
HandoffSettles ==
  [][\A h \in HandoffId : Offered(h) =>
       LET old == handoffs[h]  new == handoffs'[h] IN
         /\ [new EXCEPT !.state = old.state] = old
         /\ old.state # "INITIATED" => new.state # "INITIATED"]_vars

\* A request answered 404 or 422 has changed nothing: every business error is
\* found before the first write, so a client may correct it and retry
\* (httpapi.fail, model.IsBusinessError and the order of calls in each method).
RejectedChangesNothing ==
  [][\A w \in Handler :
       req'[w].resp \in {"notfound", "rejected"} /\ req[w].pc # "idle" =>
         ~req[w].wrote /\ UNCHANGED tables]_vars

\* However requests race, a flight never has more pending handoffs than the
\* number of requests the server handles at once (Handler, its slots, whether
\* they are busy or not): the check InitiateHandoff makes is stale when it
\* writes, but a handler that finds a pending handoff adds no other.  Offers
\* that raced stay pending after they were answered, so the requests in flight
\* at the moment are no bound.
PendingBounded ==
  \A p \in PlanId :
    Cardinality({h \in HandoffId : PendingHandoff(h) /\ handoffs[h].plan = p})
      <= Cardinality(Handler)

\* Every request is answered: no handler loops or waits for another.
RequestsAnswered ==
  \A w \in Handler : (req[w].pc # "idle") ~> (req[w].pc = "idle")

\* Whatever Reconcile set out to cancel is settled in the end, even when an
\* Accept of the same handoff runs beside it.
RebuildSettles ==
  \A w \in Handler, h \in HandoffId :
    (At(w, "reconcile_put") /\ h \in {e.id : e \in req[w].hs})
      ~> ~PendingHandoff(h)

-----------------------------------------------------------------------------
(* One request at a time                                                   *)

\* A flight has at most one pending handoff (InitiateHandoff).
AtMostOnePending ==
  \A g, h \in HandoffId :
    PendingHandoff(g) /\ PendingHandoff(h) /\ handoffs[g].plan = handoffs[h].plan
      => g = h

\* The flights go through the lifecycle of FlightLifecycle.
Phases == [p \in PlanId |-> IF Filed(p) THEN plans[p].state ELSE "NONE"]
Lifecycle == INSTANCE FlightLifecycle WITH state <- Phases
FollowsLifecycle == Lifecycle!Spec

\* Control is transferred by the protocol of HandoffProtocol.
Sectors == [p \in PlanId |-> IF Filed(p) THEN plans[p].sector ELSE None]
Offers ==
  [h \in HandoffId |->
     IF Offered(h)
     THEN [plan  |-> handoffs[h].plan, to |-> handoffs[h].to,
           state |-> handoffs[h].state]
     ELSE None]
\* None is neither a sector nor an offer.
ASSUME OfferAssumption ==
  /\ None \notin Sector
  /\ None \notin [plan: PlanId, to: Sector, state: HandoffState]

Protocol == INSTANCE HandoffProtocol WITH sector <- Sectors, offer <- Offers
FollowsProtocol == Protocol!Spec

\* What the conflicts table should hold: the pairs of ACTIVE flights whose
\* newest reports lose separation.
Newest(p, t) == t \in tracks[p] /\ ~ \E u \in tracks[p] : u.ts > t.ts
InConflict(a, b) ==
  /\ a < b
  /\ \A p \in {a, b} : Filed(p) /\ plans[p].state = "ACTIVE"
  /\ \E t \in tracks[a], u \in tracks[b] :
       Newest(a, t) /\ Newest(b, u) /\ <<t.geo, u.geo>> \in LossPairs
TrueConflicts == {c \in ConflictRow : InConflict(c.a, c.b)}

\* A report or a rebuild answered 2xx leaves exactly the true conflicts in the
\* table (refresh).
RefreshExact ==
  [][\A w \in Handler : At(w, "refresh_replace") /\ req'[w].resp = "ok" =>
       conflicts' = TrueConflicts]_vars

\* A stored report is newer than all earlier ones of its flight, and the flight
\* was ACTIVE when it was stored (Report).
ReportsInOrder ==
  [][\A p \in PlanId : \A t \in tracks'[p] \ tracks[p] :
       /\ Filed(p) /\ plans[p].state = "ACTIVE"
       /\ \A u \in tracks[p] : u.ts < t.ts]_vars

Rank == [FILED |-> 0, ACCEPTED |-> 1, CLEARED |-> 2, ACTIVE |-> 3,
         SUSPENDED |-> 3, TERMINATED |-> 4]

\* The event log never runs ahead of the flights: a flight has got at least as
\* far as every event logged for it says (Move writes the plan first).
EventsBehindState ==
  \A e \in events : Rank[plans[e.plan].state] >= Rank[e.kind]

-----------------------------------------------------------------------------
(* What the source says and the service does not do                        *)

\* A flight that "has landed or left controlled airspace" (FlightTerminated)
\* stays TERMINATED.
TerminatedIsFinal ==
  [][\A p \in PlanId : Filed(p) /\ plans[p].state = "TERMINATED" =>
       plans'[p].state = "TERMINATED"]_vars

=============================================================================
