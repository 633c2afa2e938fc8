CONSTANTS
  Handler = {w1, w2}
  Ops = {"File", "Move", "Accept", "Initiate", "Reconcile"}
  Filings <- PlainFilings
  Targets = {"SUSPENDED"}
  ExplicitIds = TRUE
  Faults = FALSE
  MaxCrashes = 0
  PlanId = {1, 2}
  Callsign = {"AAL1", "BAW2"}
  AircraftId = {"jet"}
  Cruise = {"m78"}
  Sector = {"s1", "s2"}
  Ts = {1}
  Geo = {"near"}
  HandoffId = {h1, h2, h3}
  None = None
  InitialAircraft <- JetOnly
  InitialPlans <- OneActive
  LossPairs <- BothNear

SPECIFICATION Spec
SYMMETRY SymmetryHandoffs
INVARIANTS
  SuspendedFlag
  PendingBounded
