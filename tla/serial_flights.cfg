CONSTANTS
  Handler = {w1}
  Ops = {"File", "Move", "Report", "Reconcile"}
  Filings <- PlainFilings
  Targets = {"ACCEPTED", "CLEARED", "ACTIVE", "SUSPENDED", "TERMINATED"}
  ExplicitIds = FALSE
  Faults = FALSE
  MaxCrashes = 1
  PlanId = {1, 2}
  Callsign = {"AAL1", "BAW2"}
  AircraftId = {"jet"}
  Cruise = {"m78"}
  Sector = {"s1"}
  Ts = {1, 2}
  Geo = {"near", "far"}
  HandoffId = {h1}
  None = None
  InitialAircraft <- JetOnly
  InitialPlans <- OneCleared
  LossPairs <- BothNear

SPECIFICATION Spec
INVARIANTS
  EventsBehindState
PROPERTIES
  FollowsLifecycle
  RefreshExact
  ReportsInOrder
