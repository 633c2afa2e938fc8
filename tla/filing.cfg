CONSTANTS
  Handler = {w1, w2}
  Ops = {"Register", "File", "Malformed"}
  Filings <- MixedFilings
  Targets = {}
  ExplicitIds = FALSE
  Faults = TRUE
  MaxCrashes = 0
  PlanId = {1, 2}
  Callsign = {"AAL1", "BAW2"}
  AircraftId = {"jet", "prop"}
  Cruise = {"m78"}
  Sector = {"s1"}
  Ts = {1}
  Geo = {"near"}
  HandoffId = {h1}
  None = None
  InitialAircraft <- JetOnly
  InitialPlans <- NoPlans
  LossPairs <- BothNear

SPECIFICATION Spec
SYMMETRY Symmetry
INVARIANTS
  ReferentialIntegrity
  CallsignUnique
  EnvelopeRespected
