CONSTANTS
  Handler = {w1, w2}
  Ops = {"Move", "Accept", "Initiate"}
  Filings <- NoFilings
  Targets = {"TERMINATED"}
  ExplicitIds = FALSE
  Faults = FALSE
  MaxCrashes = 0
  PlanId = {1}
  Callsign = {"AAL1", "BAW2"}
  AircraftId = {"jet"}
  Cruise = {"m78"}
  Sector = {"s1", "s2"}
  Ts = {1}
  Geo = {"near"}
  HandoffId = {h1}
  None = None
  InitialAircraft <- JetOnly
  InitialPlans <- OneActive
  LossPairs <- BothNear

SPECIFICATION Spec
PROPERTIES
  TerminatedIsFinal
