CONSTANTS
  Handler = {w1}
  Ops = {"File", "Move", "Initiate", "Accept", "Reconcile"}
  Filings <- PlainFilings
  Targets = {"SUSPENDED", "TERMINATED"}
  ExplicitIds = FALSE
  Faults = FALSE
  MaxCrashes = 1
  PlanId = {1, 2}
  Callsign = {"AAL1", "BAW2"}
  AircraftId = {"jet"}
  Cruise = {"m78"}
  Sector = {"s1", "s2"}
  Ts = {1}
  Geo = {"near"}
  HandoffId = {h1, h2, h3}
  None = None
  InitialAircraft <- JetOnly
  InitialPlans <- OneActive
  LossPairs <- BothNear

SPECIFICATION Spec
SYMMETRY SymmetryHandoffs
INVARIANTS
  AtMostOnePending
PROPERTIES
  FollowsProtocol
