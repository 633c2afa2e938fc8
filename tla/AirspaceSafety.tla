--------------------------- MODULE AirspaceSafety ---------------------------
(***************************************************************************)
(* What the airspace registry promises to those who ask it.                *)
(***************************************************************************)
EXTENDS Airspace

CONSTANTS
  Routes,         \* sequences of waypoints of filed routes
  Points,         \* pairs of a position and a level that are asked for
  Whole,          \* a volume that the tiles cut up
  Tiles           \* the parts it is cut into

\* On which side of the line from u to w a point is.
Side(u, w, p) == (p.x - u.x) * (w.y - u.y) - (w.x - u.x) * (p.y - u.y)

\* The whole, of any number of corners, is cut along the line that joins the
\* first corner and another one, and each part is on one side of that line.
ASSUME TilesAssumption ==
  /\ Tiles \subseteq Volumes
  /\ \E m \in 3 .. Len(Whole.poly) - 1 :
       LET poly == Whole.poly
           n == Len(poly)
           side == [i \in 1 .. n |-> Side(poly[1], poly[m], poly[i])]
       IN  /\ poly[1].x # poly[m].x \/ poly[1].y # poly[m].y
           /\ Tiles = {[Whole EXCEPT !.poly = SubSeq(poly, 1, m)],
                       [Whole EXCEPT !.poly = Append(SubSeq(poly, m, n), poly[1])]}
           /\ \/ (\A i \in 1 .. m : side[i] >= 0) /\ (\A i \in m .. n : side[i] <= 0)
              \/ (\A i \in 1 .. m : side[i] <= 0) /\ (\A i \in m .. n : side[i] >= 0)

ASSUME RoutesAssumption == \A r \in Routes : r \in Seq(WaypointId)

\* Coordinates are numbers, and nothing registered is neither a number nor an
\* airway.
ASSUME PlacesAssumption ==
  /\ \A p \in Places : p.x \in Int /\ p.y \in Int
  /\ MaxDirect \in Int
  /\ None \notin Int
  /\ None \notin AirwayRow

\* A sector is a list of vertices, of any length, with a band of levels.
ASSUME VolumesAssumption ==
  /\ None \notin Volumes
  /\ \A v \in Volumes \cup {Whole} :
       /\ v \in [poly : {v.poly}, floor : Int, ceiling : Int, cap : Int]
       /\ v.poly \in Seq({v.poly[i] : i \in DOMAIN v.poly})
       /\ \A i \in DOMAIN v.poly : v.poly[i].x \in Int /\ v.poly[i].y \in Int
  /\ \A pt \in Points : pt.pos.x \in Int /\ pt.pos.y \in Int /\ pt.fl \in Int

-----------------------------------------------------------------------------
(* The index of legs.                                                      *)

DeclaredLegs == UNION {LegsOf(airways[a]) : a \in Registered(airways)}

\* Route validation relies on the index instead of the airways: it has every
\* leg of every airway as registered last, and an entry beyond that, or under
\* the name of an airway that does not have the leg, comes from an airway that
\* was registered again.
IndexExact ==
  /\ DeclaredLegs \subseteq DOMAIN segmentKey
  /\ \A l \in DOMAIN segmentKey :
       \/ l \in LegsOf(airways[segmentKey[l]])
       \/ segmentKey[l] \in revised

\* A leg no longer than the maximum, or one of an airway as registered last.
Covered(from, to) ==
  LegDistance2(from, to) > MaxDirect * MaxDirect => <<from, to>> \in DeclaredLegs

\* A route that is valid stays valid whatever is registered later, by the
\* same or other users of the registry, unless one of its waypoints is moved
\* or no airway covers one of its legs any more.  Of a route that goes on over
\* such a leg nothing is said: ValidateRoute accepts it, since the index is
\* never cleared, and the documentation does not.
ValidRouteStays ==
  [][\A r \in Routes : ValidateRoute(r) =>
       \/ ValidateRoute(r)'
       \/ \E i \in DOMAIN r : waypoints'[r[i]] # waypoints[r[i]]
       \/ \E i \in 1 .. Len(r) - 1 : ~ Covered(r[i], r[i + 1])']_vars

\* A valid route can be flown leg by leg: every leg has a distance, and one
\* longer than the maximum is a leg of an airway, unless an airway was
\* registered again.
LongLegsOnAirways ==
  revised = {} =>
    \A r \in Routes : ValidateRoute(r) =>
      \A i \in 1 .. Len(r) - 1 :
        /\ LegDistance2(r[i], r[i + 1]) # None
        /\ Covered(r[i], r[i + 1])

-----------------------------------------------------------------------------
(* Sector volumes.                                                         *)

InUse == {sectors[s] : s \in Registered(sectors)}

\* Sectors that tile a volume leave no gap and no overlap: every position of
\* the volume, those on the cuts and the corners included, is in the one tile
\* that is registered for it, so SectorForPosition has no choice to make; and
\* no position outside the volume is in any.
TilingUnambiguous ==
  InUse \subseteq Tiles /\ Cardinality(InUse) = Cardinality(Registered(sectors)) =>
    \A pt \in Points :
      LET found == SectorForPosition(pt.pos, pt.fl)
      IN  /\ Cardinality(found) <= 1
          /\ found # {} => InsideSector(Whole, pt.pos, pt.fl)
          /\ InsideSector(Whole, pt.pos, pt.fl) /\ InUse = Tiles => found # {}

Rotated(poly) == Append(Tail(poly), Head(poly))
Reversed(poly) == [i \in DOMAIN poly |-> poly[Len(poly) + 1 - i]]

\* A polygon is an outline: where the list of its vertices starts and which
\* way round it goes changes neither what is inside nor what is adjacent.
OutlineBlind ==
  \A s \in Registered(sectors) :
    LET v == sectors[s]
    IN  v.poly # <<>> => \A poly \in {Rotated(v.poly), Reversed(v.poly)} :
          /\ \A pt \in Points :
               PointInPolygon(v.poly, pt.pos) <=> PointInPolygon(poly, pt.pos)
          /\ \A t \in Registered(sectors) :
               Adjacent(t, s) <=> s # t /\ AdjacentVolumes([v EXCEPT !.poly = poly], sectors[t])
=============================================================================
