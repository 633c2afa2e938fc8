CONSTANTS
  Handler = {w1, w2}
  Ops = {"Move", "Initiate", "Accept", "Reconcile"}
  Filings <- NoFilings
  Targets = {"ACTIVE", "SUSPENDED"}
  ExplicitIds = FALSE
  Faults = TRUE
  MaxCrashes = 1
  PlanId = {1}
  Callsign = {"AAL1", "BAW2"}
  AircraftId = {"jet"}
  Cruise = {"m78"}
  Sector = {"s1", "s2"}
  Ts = {1}
  Geo = {"near"}
  HandoffId = {h1, h2}
  None = None
  InitialAircraft <- JetOnly
  InitialPlans <- OneActive
  LossPairs <- BothNear

SPECIFICATION Spec
SYMMETRY SymmetryHandoffs
INVARIANTS
  TypeOK
PROPERTIES
  HandoffSettles
