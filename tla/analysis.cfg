SPECIFICATION FairSpec
CONSTANTS
  Inf = Inf
  NaN = NaN
  None = None
  ProberStep = 0
  ProberLookahead = 72
  Pictures <- AllPictures
  Flights <- AllFlights
  Traffic <- AllTraffic
  Queues <- AllQueues
INVARIANTS
  ProbeExact
  OrderBlind
  CloseEncountersFound
  OppositeCloses
  OnSchedule
  EntryExact
  FlightsCounted
  AlertExact
  TrailSafe
PROPERTY CallsReturn
