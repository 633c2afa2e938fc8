CONSTANTS
  Handler = {w1, w2}
  Ops = {"Report", "Initiate", "Accept", "Reconcile"}
  Filings <- NoFilings
  Targets = {}
  ExplicitIds = FALSE
  Faults = FALSE
  MaxCrashes = 0
  PlanId = {1, 2}
  Callsign = {"AAL1", "BAW2"}
  AircraftId = {"jet"}
  Cruise = {"m78"}
  Sector = {"s1", "s2"}
  Ts = {1}
  Geo = {"near"}
  HandoffId = {h1}
  None = None
  InitialAircraft <- JetOnly
  InitialPlans <- TwoActive
  LossPairs <- BothNear

SPECIFICATION FairSpec
PROPERTIES
  RequestsAnswered
  RebuildSettles
