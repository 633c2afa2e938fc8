------------------------------ MODULE Airspace ------------------------------
(***************************************************************************)
(* The airspace registry: the maps of package airspace and the index of    *)
(* airway legs.  The questions asked of it are operators.  `revised' is    *)
(* history: the airways that were registered again without a leg they had. *)
(***************************************************************************)
EXTENDS Sectors

CONSTANTS
  SectorId, WaypointId, AirwayId,
  Volumes,        \* sectors that are registered
  Places,         \* positions of waypoints
  Courses,        \* sequences of waypoints of airways
  Directions,     \* directions of airways
  MaxDirect,      \* MaxDirectNM in units of Places
  None            \* nothing registered

ASSUME CoursesAssumption == \A c \in Courses : c \in Seq(WaypointId)

VARIABLES sectors, waypoints, airways, segmentKey, revised

vars == <<sectors, waypoints, airways, segmentKey, revised>>

Leg == WaypointId \X WaypointId

AirwayRow == [course : Courses, dir : Directions]

Init ==
  /\ sectors = [s \in SectorId |-> None]
  /\ waypoints = [w \in WaypointId |-> None]
  /\ airways = [a \in AirwayId |-> None]
  /\ segmentKey = [l \in {} |-> None]
  /\ revised = {}

AddSector(s, volume) ==
  /\ sectors' = [sectors EXCEPT ![s] = volume]
  /\ UNCHANGED <<waypoints, airways, segmentKey, revised>>

AddWaypoint(w, place) ==
  /\ waypoints' = [waypoints EXCEPT ![w] = place]
  /\ UNCHANGED <<sectors, airways, segmentKey, revised>>

-----------------------------------------------------------------------------
(* Deviations, each one a plausible slip in the code.                      *)

\* The index is built anew, from this airway only.
ReindexAlone(legs, a) == [l \in legs |-> a]

\* What the index has under the name of the airway is taken out first, also
\* where another airway has the leg too.
ReindexForgets(legs, a) ==
  [l \in legs \cup {k \in DOMAIN segmentKey : segmentKey[k] # a} |->
     IF l \in legs THEN a ELSE segmentKey[l]]

-----------------------------------------------------------------------------
(* AddAirway.  A direction that is none of the four indexes no leg.        *)

Forward(row) == {<<row.course[i], row.course[i + 1]>> : i \in 1 .. Len(row.course) - 1}

Reverse(legs) == {<<l[2], l[1]>> : l \in legs}

LegsOf(row) ==
  CASE row.dir = "FORWARD"      -> Forward(row)
    [] row.dir = "REVERSE"      -> Reverse(Forward(row))
    [] row.dir \in {"BOTH", ""} -> Forward(row) \cup Reverse(Forward(row))
    [] OTHER                    -> {}

\* The legs of the airway are entered; nothing is ever taken out.
Reindex(legs, a) ==
  [l \in DOMAIN segmentKey \cup legs |-> IF l \in legs THEN a ELSE segmentKey[l]]

AddAirway(a, row) ==
  \/ /\ Len(row.course) < 2
     /\ UNCHANGED vars
  \/ /\ Len(row.course) >= 2
     /\ airways' = [airways EXCEPT ![a] = row]
     /\ segmentKey' = Reindex(LegsOf(row), a)
     /\ revised' = IF airways[a] # None /\ ~ LegsOf(airways[a]) \subseteq LegsOf(row)
                   THEN revised \cup {a} ELSE revised
     /\ UNCHANGED <<sectors, waypoints>>

-----------------------------------------------------------------------------
(* The questions.                                                          *)

Registered(table) == {k \in DOMAIN table : table[k] # None}

SectorForPosition(pt, fl) ==
  SectorsFor([s \in Registered(sectors) |-> sectors[s]], pt, fl)

\* Not found, or the square of the distance.
LegDistance2(from, to) ==
  IF None \in {waypoints[from], waypoints[to]} THEN None
  ELSE Distance2(waypoints[from], waypoints[to])

\* An airway is flown against its direction.
ValidLegEitherWay(from, to) ==
  /\ None \notin {waypoints[from], waypoints[to]}
  /\ from # to
  /\ \/ {<<from, to>>, <<to, from>>} \cap DOMAIN segmentKey # {}
     \/ Distance2(waypoints[from], waypoints[to]) <= MaxDirect * MaxDirect

ValidLeg(from, to) ==
  /\ None \notin {waypoints[from], waypoints[to]}
  /\ from # to
  /\ \/ <<from, to>> \in DOMAIN segmentKey
     \/ Distance2(waypoints[from], waypoints[to]) <= MaxDirect * MaxDirect

ValidateRoute(route) ==
  /\ Len(route) >= 2
  /\ \A i \in 1 .. Len(route) - 1 : ValidLeg(route[i], route[i + 1])

\* Vertices closer than 0.02 degrees on both axes, in hundredths of a degree.
SameVertex(p, q) == Abs(p.x - q.x) < 2 /\ Abs(p.y - q.y) < 2

AdjacentVolumes(v, u) ==
  \E i \in DOMAIN v.poly, j \in DOMAIN u.poly : SameVertex(v.poly[i], u.poly[j])

Adjacent(s, t) ==
  /\ s # t
  /\ None \notin {sectors[s], sectors[t]}
  /\ AdjacentVolumes(sectors[s], sectors[t])

-----------------------------------------------------------------------------
Next ==
  \/ \E s \in SectorId, volume \in Volumes : AddSector(s, volume)
  \/ \E w \in WaypointId, place \in Places : AddWaypoint(w, place)
  \/ \E a \in AirwayId, row \in AirwayRow : AddAirway(a, row)

Spec == Init /\ [][Next]_vars
=============================================================================
