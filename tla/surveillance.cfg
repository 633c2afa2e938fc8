CONSTANTS
  Handler = {w1, w2}
  Ops = {"Move", "Report", "Reconcile"}
  Filings <- NoFilings
  Targets = {"SUSPENDED"}
  ExplicitIds = FALSE
  Faults = TRUE
  MaxCrashes = 1
  PlanId = {1, 2}
  Callsign = {"AAL1", "BAW2"}
  AircraftId = {"jet"}
  Cruise = {"m78"}
  Sector = {"s1"}
  Ts = {1, 2}
  Geo = {"near", "far"}
  HandoffId = {h1}
  None = None
  InitialAircraft <- JetOnly
  InitialPlans <- TwoActive
  LossPairs <- BothNear

SPECIFICATION Spec
SYMMETRY Symmetry
INVARIANTS
  ConflictEvidence
PROPERTIES
  RejectedChangesNothing
