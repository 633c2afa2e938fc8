SPECIFICATION Spec
CONSTANTS
  SectorId = {"s1", "s2"}
  WaypointId = {"P", "Q"}
  AirwayId = {"A1", "A2"}
  Volumes <- SomeVolumes
  Places <- Spots
  Courses <- SomeCourses
  Directions = {"FORWARD", "REVERSE", "", "ONEWAY"}
  MaxDirect = 5
  None = None
  Routes <- FiledRoutes
  Points <- Asked
  Whole <- Box
  Tiles <- CutUp
INVARIANTS
  IndexExact
  LongLegsOnAirways
  TilingUnambiguous
  OutlineBlind
PROPERTY ValidRouteStays
