--------------------------- MODULE AirspaceProofs ---------------------------
(***************************************************************************)
(* Theorems about the index of airway legs and the routes it decides       *)
(* about, for any waypoints, airways, courses and routes, and about the    *)
(* volumes of sectors, for polygons of any length.                         *)
(***************************************************************************)
EXTENDS AirspaceSafety, FiniteSetTheorems, FunctionTheorems, SequenceTheorems, TLAPS

-----------------------------------------------------------------------------
(* The index.                                                              *)

TypeInv ==
  /\ waypoints \in [WaypointId -> Places \cup {None}]
  /\ airways \in [AirwayId -> AirwayRow \cup {None}]

\* An entry of the index names an airway that is registered.
Named == \A l \in DOMAIN segmentKey :
           segmentKey[l] \in AirwayId /\ airways[segmentKey[l]] # None

IndexInv == TypeInv /\ Named /\ IndexExact

\* Before anything is registered there are no legs.
LEMMA InitIndex == Init => IndexInv
  <1> SUFFICES ASSUME Init
               PROVE  IndexInv
    OBVIOUS
  <1>1. DOMAIN segmentKey = {}
    BY DEF Init
  <1>2. Registered(airways) = {}
    BY DEF Init, Registered
  <1>3. DeclaredLegs = {}
    BY <1>2 DEF DeclaredLegs
  <1> QED
    BY <1>1, <1>3 DEF Init, IndexInv, TypeInv, Named, IndexExact

\* A new or changed airway keeps the index exact: an entry that still bears its
\* name although it lost the leg makes it a revised one.
LEMMA AddAirwayIndex ==
  ASSUME IndexInv, NEW a \in AirwayId, NEW row \in AirwayRow, AddAirway(a, row)
  PROVE  IndexInv'
  <1>1. CASE UNCHANGED vars
    BY <1>1 DEF vars, IndexInv, TypeInv, Named, IndexExact, DeclaredLegs, Registered
  <1>2. CASE ~UNCHANGED vars
    <2> DEFINE legs == LegsOf(row)
    <2>1. /\ airways' = [airways EXCEPT ![a] = row]
          /\ segmentKey' = Reindex(legs, a)
          /\ revised' = IF airways[a] # None /\ ~ LegsOf(airways[a]) \subseteq legs
                        THEN revised \cup {a} ELSE revised
          /\ waypoints' = waypoints
      BY <1>2 DEF AddAirway
    <2> HIDE DEF legs
    <2>2. /\ DOMAIN segmentKey' = DOMAIN segmentKey \cup legs
          /\ \A l \in DOMAIN segmentKey' :
               segmentKey'[l] = IF l \in legs THEN a ELSE segmentKey[l]
      BY <2>1 DEF Reindex
    <2>3. /\ airways'[a] = row /\ row # None
          /\ \A b \in AirwayId : b # a => airways'[b] = airways[b]
          /\ airways' \in [AirwayId -> AirwayRow \cup {None}]
          /\ DOMAIN airways = AirwayId /\ DOMAIN airways' = AirwayId
      BY <2>1, PlacesAssumption DEF IndexInv, TypeInv
    <2>4. TypeInv'
      BY <2>1, <2>3 DEF IndexInv, TypeInv
    <2>5. Named'
      BY <2>2, <2>3 DEF IndexInv, Named
    <2>6. (DeclaredLegs \subseteq DOMAIN segmentKey)'
      <3> SUFFICES ASSUME NEW b \in AirwayId, airways'[b] # None,
                          NEW l \in LegsOf(airways'[b])
                   PROVE  l \in DOMAIN segmentKey'
        BY <2>3 DEF DeclaredLegs, Registered
      <3>1. CASE b = a
        BY <2>2, <2>3, <3>1 DEF legs
      <3>2. CASE b # a
        <4>1. b \in Registered(airways) /\ l \in LegsOf(airways[b])
          BY <2>3, <3>2 DEF Registered
        <4>2. l \in DeclaredLegs
          BY <4>1 DEF DeclaredLegs
        <4> QED
          BY <2>2, <4>2 DEF IndexInv, IndexExact
      <3> QED
        BY <3>1, <3>2
    <2>7. ASSUME NEW l \in DOMAIN segmentKey'
          PROVE  l \in LegsOf(airways'[segmentKey'[l]]) \/ segmentKey'[l] \in revised'
      <3>1. CASE l \in legs
        BY <2>2, <2>3, <3>1 DEF legs
      <3>2. CASE l \notin legs
        <4>1. /\ l \in DOMAIN segmentKey /\ segmentKey'[l] = segmentKey[l]
              /\ segmentKey[l] \in AirwayId /\ airways[segmentKey[l]] # None
              /\ l \in LegsOf(airways[segmentKey[l]]) \/ segmentKey[l] \in revised
          BY <2>2, <3>2 DEF IndexInv, Named, IndexExact
        <4>2. revised \subseteq revised'
          BY <2>1
        <4>3. CASE segmentKey[l] # a
          BY <2>3, <4>1, <4>2, <4>3
        <4>4. CASE segmentKey[l] = a
          BY <2>1, <3>2, <4>1, <4>2, <4>4
        <4> QED
          BY <4>3, <4>4
      <3> QED
        BY <3>1, <3>2
    <2> QED
      BY <2>4, <2>5, <2>6, <2>7 DEF IndexInv, IndexExact
  <1> QED
    BY <1>1, <1>2

\* Only airways matter to the index.
LEMMA NextIndex ==
  ASSUME IndexInv, [Next]_vars
  PROVE  IndexInv'
  <1>1. CASE \E s \in SectorId, volume \in Volumes : AddSector(s, volume)
    BY <1>1 DEF AddSector, IndexInv, TypeInv, Named, IndexExact, DeclaredLegs, Registered
  <1>2. CASE \E w \in WaypointId, place \in Places : AddWaypoint(w, place)
    BY <1>2 DEF AddWaypoint, IndexInv, TypeInv, Named, IndexExact, DeclaredLegs, Registered
  <1>3. CASE UNCHANGED vars
    BY <1>3 DEF vars, IndexInv, TypeInv, Named, IndexExact, DeclaredLegs, Registered
  <1> QED
    BY <1>1, <1>2, <1>3, AddAirwayIndex DEF Next

\* The tables and the index stay typed, named and exact.
LEMMA IndexInvariant == Spec => []IndexInv
  BY InitIndex, NextIndex, PTL DEF Spec

\* The index has every leg of every airway as registered last, and an entry
\* beyond that comes from an airway that was registered again
\* (Airspace.AddAirway).
THEOREM IndexIsExact == Spec => []IndexExact
  BY IndexInvariant, PTL DEF IndexInv

-----------------------------------------------------------------------------
(* Routes.                                                                 *)

\* A valid leg joins two places that are known.
LEMMA ValidLegPlaces ==
  ASSUME IndexInv, NEW v \in WaypointId, NEW w \in WaypointId, ValidLeg(v, w)
  PROVE  /\ waypoints[v] \in Places /\ waypoints[w] \in Places
         /\ LegDistance2(v, w) = Distance2(waypoints[v], waypoints[w])
         /\ LegDistance2(v, w) \in Int
  <1>1. waypoints[v] # None /\ waypoints[w] # None
    BY DEF ValidLeg
  <1>2. waypoints[v] \in Places /\ waypoints[w] \in Places
    BY <1>1 DEF IndexInv, TypeInv
  <1>3. LegDistance2(v, w) = Distance2(waypoints[v], waypoints[w])
    BY <1>1 DEF LegDistance2
  <1>4. Distance2(waypoints[v], waypoints[w]) \in Int
    BY <1>2, PlacesAssumption DEF Distance2
  <1> QED
    BY <1>2, <1>3, <1>4

\* A leg of a filed route runs between two waypoints.
LEMMA RouteLegs ==
  ASSUME NEW r \in Routes, NEW i \in 1 .. Len(r) - 1
  PROVE  /\ r[i] \in WaypointId /\ r[i + 1] \in WaypointId
         /\ i \in DOMAIN r /\ i + 1 \in DOMAIN r
  BY RoutesAssumption

\* Every leg of a valid route has a distance, and one longer than the maximum
\* is a leg of an airway, unless an airway was registered again
\* (Airspace.ValidateRoute, LegDistance).
THEOREM LongLegsAreDeclared == Spec => []LongLegsOnAirways
  <1>1. ASSUME IndexInv
        PROVE  LongLegsOnAirways
    <2> SUFFICES ASSUME revised = {}, NEW r \in Routes, ValidateRoute(r),
                        NEW i \in 1 .. Len(r) - 1
                 PROVE  /\ LegDistance2(r[i], r[i + 1]) # None
                        /\ LegDistance2(r[i], r[i + 1]) > MaxDirect * MaxDirect
                           => <<r[i], r[i + 1]>> \in DeclaredLegs
      BY DEF LongLegsOnAirways, Covered
    <2> DEFINE far == MaxDirect * MaxDirect
               d == LegDistance2(r[i], r[i + 1])
               leg == <<r[i], r[i + 1]>>
    <2>1. r[i] \in WaypointId /\ r[i + 1] \in WaypointId /\ ValidLeg(r[i], r[i + 1])
      BY RouteLegs DEF ValidateRoute
    <2>2. d = Distance2(waypoints[r[i]], waypoints[r[i + 1]]) /\ d \in Int
      BY <1>1, <2>1, ValidLegPlaces
    <2>3. far \in Int
      BY PlacesAssumption
    <2>4. leg \in DOMAIN segmentKey \/ d <= far
      BY <2>1, <2>2 DEF ValidLeg
    <2> HIDE DEF far, d, leg
    <2>5. d # None /\ (d > far => leg \in DOMAIN segmentKey)
      BY <2>2, <2>3, <2>4, PlacesAssumption
    <2>6. ASSUME leg \in DOMAIN segmentKey
          PROVE  leg \in DeclaredLegs
      <3>1. /\ segmentKey[leg] \in AirwayId /\ airways[segmentKey[leg]] # None
            /\ leg \in LegsOf(airways[segmentKey[leg]])
        BY <1>1, <2>6 DEF IndexInv, Named, IndexExact
      <3>2. segmentKey[leg] \in Registered(airways)
        BY <1>1, <3>1 DEF Registered, IndexInv, TypeInv
      <3> QED
        BY <3>1, <3>2 DEF DeclaredLegs
    <2> QED
      BY <2>5, <2>6 DEF far, d, leg
  <1> QED
    BY <1>1, IndexInvariant, PTL

\* A valid route stays valid whatever is registered later, unless one of its
\* waypoints is moved or no airway covers one of its legs any more
\* (Airspace.AddAirway, ValidateRoute).  It follows from the index having all
\* declared legs; that it also has others is not used.
THEOREM RoutesStayValid == Spec => ValidRouteStays
  <1>1. ASSUME IndexInv, IndexInv', NEW r \in Routes, ValidateRoute(r),
               \A i \in DOMAIN r : waypoints'[r[i]] = waypoints[r[i]],
               \A i \in 1 .. Len(r) - 1 : Covered(r[i], r[i + 1])'
        PROVE  ValidateRoute(r)'
    <2>1. ASSUME NEW i \in 1 .. Len(r) - 1
          PROVE  ValidLeg(r[i], r[i + 1])'
      <3> DEFINE far == MaxDirect * MaxDirect
                 d == Distance2(waypoints'[r[i]], waypoints'[r[i + 1]])
                 leg == <<r[i], r[i + 1]>>
      <3>1. /\ waypoints'[r[i]] = waypoints[r[i]]
            /\ waypoints'[r[i + 1]] = waypoints[r[i + 1]]
            /\ r[i] \in WaypointId /\ r[i + 1] \in WaypointId
        BY <1>1, RouteLegs
      <3>2. ValidLeg(r[i], r[i + 1])
        BY <1>1 DEF ValidateRoute
      <3>3. /\ waypoints'[r[i]] # None /\ waypoints'[r[i + 1]] # None
            /\ r[i] # r[i + 1]
        BY <3>1, <3>2 DEF ValidLeg
      <3>4. LegDistance2(r[i], r[i + 1])' = d
        BY <3>3 DEF LegDistance2
      <3>5. d \in Int /\ far \in Int
        <4>1. d = LegDistance2(r[i], r[i + 1]) /\ d \in Int
          BY <1>1, <3>1, <3>2, ValidLegPlaces
        <4> QED
          BY <4>1, PlacesAssumption
      <3>6. d > far => leg \in DeclaredLegs'
        BY <1>1, <3>4 DEF Covered
      <3>7. DeclaredLegs' \subseteq DOMAIN segmentKey'
        BY <1>1 DEF IndexInv, IndexExact
      <3> HIDE DEF far, d, leg
      <3>8. leg \in DOMAIN segmentKey' \/ d <= far
        BY <3>5, <3>6, <3>7
      <3> QED
        BY <3>3, <3>8 DEF ValidLeg, far, d, leg
    <2> QED
      BY <1>1, <2>1 DEF ValidateRoute
  <1>2. IndexInv /\ IndexInv' =>
          [\A r \in Routes : ValidateRoute(r) =>
             \/ ValidateRoute(r)'
             \/ \E i \in DOMAIN r : waypoints'[r[i]] # waypoints[r[i]]
             \/ \E i \in 1 .. Len(r) - 1 : ~ Covered(r[i], r[i + 1])']_vars
    BY <1>1
  <1> QED
    BY <1>2, IndexInvariant, PTL DEF ValidRouteStays

-----------------------------------------------------------------------------
(* Polygons.                                                               *)

IsPoint(p) == p.x \in Int /\ p.y \in Int

\* A list of vertices.
IsOutline(poly) ==
  /\ Len(poly) \in Nat
  /\ DOMAIN poly = 1 .. Len(poly)
  /\ \A i \in 1 .. Len(poly) : IsPoint(poly[i])

\* The edge from p to q lies to the east of pt.
EastOf(p, q, pt) == Spans(p, q, pt) /\ WestOf(p, q, pt)

Edges(poly, pt) ==
  {i \in 1 .. Len(poly) : EastOf(poly[i], poly[Before(poly, i)], pt)}

\* The edges that are counted.
LEMMA CountedEdges ==
  ASSUME NEW poly, NEW pt
  PROVE  PointInPolygon(poly, pt) <=>
           Len(poly) >= 3 /\ Cardinality(Edges(poly, pt)) % 2 = 1
  BY DEF PointInPolygon, Edges, EastOf

\* An edge has no direction.
LEMMA EdgeEitherWay ==
  ASSUME NEW p, NEW q, NEW pt, IsPoint(p), IsPoint(q), IsPoint(pt)
  PROVE  EastOf(p, q, pt) <=> EastOf(q, p, pt)
  <1> DEFINE px == p.x
             py == p.y
             qx == q.x
             qy == q.y
             tx == pt.x
             ty == pt.y
  <1>1. px \in Int /\ py \in Int /\ qx \in Int /\ qy \in Int /\ tx \in Int /\ ty \in Int
    BY DEF IsPoint
  <1> HIDE DEF px, py, qx, qy, tx, ty
  <1>2. (tx - px) * (qy - py) - (qx - px) * (ty - py)
          = (px - qx) * (ty - qy) - (tx - qx) * (py - qy)
    BY <1>1
  <1> DEFINE l1 == (tx - px) * (qy - py)
             r1 == (qx - px) * (ty - py)
             l2 == (tx - qx) * (py - qy)
             r2 == (px - qx) * (ty - qy)
  <1>3. l1 \in Int /\ r1 \in Int /\ l2 \in Int /\ r2 \in Int /\ l1 - r1 = r2 - l2
    BY <1>1, <1>2
  <1>4. /\ EastOf(p, q, pt) <=> (py > ty) # (qy > ty) /\ IF qy > py THEN l1 < r1 ELSE l1 > r1
        /\ EastOf(q, p, pt) <=> (qy > ty) # (py > ty) /\ IF py > qy THEN l2 < r2 ELSE l2 > r2
    BY DEF EastOf, Spans, WestOf, px, py, qx, qy, tx, ty
  <1> HIDE DEF l1, r1, l2, r2
  <1> QED
    BY <1>1, <1>3, <1>4

\* Edge i of other is edge f[i] of poly, in one direction or the other.
SameEdges(poly, other, f) ==
  \A i \in 1 .. Len(poly) :
    \/ /\ other[i] = poly[f[i]]
       /\ other[Before(other, i)] = poly[Before(poly, f[i])]
    \/ /\ other[i] = poly[Before(poly, f[i])]
       /\ other[Before(other, i)] = poly[f[i]]

\* f and g number the edges of poly anew, each undoing the other.
Renumber(poly, f, g) ==
  /\ f \in [1 .. Len(poly) -> 1 .. Len(poly)]
  /\ g \in [1 .. Len(poly) -> 1 .. Len(poly)]
  /\ \A i \in 1 .. Len(poly) : f[g[i]] = i /\ g[f[i]] = i

\* Two lists of the same edges, in another order and from other ends, have the
\* same points inside.
LEMMA SameInside ==
  ASSUME NEW poly, NEW other, IsOutline(poly), IsOutline(other), Len(poly) = Len(other),
         NEW f, NEW g, Renumber(poly, f, g), SameEdges(poly, other, f),
         NEW pt, IsPoint(pt)
  PROVE  PointInPolygon(poly, pt) <=> PointInPolygon(other, pt)
  <1> DEFINE n == Len(poly)
             S == Edges(other, pt)
             T == Edges(poly, pt)
             F == [i \in S |-> f[i]]
  <1>1. /\ S \subseteq 1 .. n /\ T \subseteq 1 .. n
        /\ n \in Nat /\ n = Len(other) /\ n = Len(poly)
        /\ f \in [1 .. n -> 1 .. n] /\ g \in [1 .. n -> 1 .. n]
        /\ \A i \in 1 .. n : f[g[i]] = i /\ g[f[i]] = i
    BY DEF Edges, IsOutline, Renumber
  <1> HIDE DEF n
  <1>2. ASSUME NEW i \in 1 .. n
        PROVE  i \in S <=> f[i] \in T
    <2>1. /\ Before(poly, f[i]) \in 1 .. n
          /\ Before(other, i) \in 1 .. n
          /\ f[i] \in 1 .. n
      BY <1>1 DEF Before
    <2>2. /\ IsPoint(poly[f[i]]) /\ IsPoint(poly[Before(poly, f[i])])
      BY <1>1, <2>1 DEF IsOutline
    <2>3. EastOf(poly[f[i]], poly[Before(poly, f[i])], pt)
            <=> EastOf(poly[Before(poly, f[i])], poly[f[i]], pt)
      BY <2>2, EdgeEitherWay
    <2>4. EastOf(other[i], other[Before(other, i)], pt)
            <=> EastOf(poly[f[i]], poly[Before(poly, f[i])], pt)
      BY <1>1, <2>3 DEF SameEdges
    <2> QED
      BY <1>1, <2>1, <2>4 DEF Edges
  <1> HIDE DEF S, T
  <1>3. F \in [S -> T] /\ \A a, b \in S : F[a] = F[b] => a = b
    <2>1. \A i \in S : i \in 1 .. n /\ f[i] \in T /\ g[f[i]] = i
      BY <1>1, <1>2
    <2> QED
      BY <2>1
  <1>4. ASSUME NEW t \in T
        PROVE  \E s \in S : F[s] = t
    <2>1. g[t] \in 1 .. n /\ f[g[t]] = t
      BY <1>1
    <2>2. g[t] \in S
      BY <1>2, <2>1
    <2> QED
      BY <2>1, <2>2
  <1>5. F \in Bijection(S, T)
    <2> HIDE DEF F
    <2> QED
      BY <1>3, <1>4, Fun_IsBij
  <1>6. IsFiniteSet(S)
    <2>1. IsFiniteSet(1 .. n)
      BY <1>1, FS_Interval
    <2> QED
      BY <1>1, <2>1, FS_Subset
  <1>7. Cardinality(S) = Cardinality(T)
    BY <1>5, <1>6, FS_Bijection DEF ExistsBijection
  <1> QED
    BY <1>7, CountedEdges DEF S, T

\* It does not matter which vertex is listed first.
LEMMA RotatedInside ==
  ASSUME NEW poly, IsOutline(poly), poly \in Seq({poly[i] : i \in DOMAIN poly}), poly # <<>>
  PROVE  /\ \A pt : IsPoint(pt) => (PointInPolygon(poly, pt) <=> PointInPolygon(Rotated(poly), pt))
         /\ \A i \in DOMAIN poly : \E k \in DOMAIN Rotated(poly) : Rotated(poly)[k] = poly[i]
         /\ \A k \in DOMAIN Rotated(poly) : \E i \in DOMAIN poly : Rotated(poly)[k] = poly[i]
  <1> DEFINE n == Len(poly)
             other == Rotated(poly)
             f == [i \in 1 .. n |-> IF i = n THEN 1 ELSE i + 1]
             g == [i \in 1 .. n |-> IF i = 1 THEN n ELSE i - 1]
  <1>1. n \in Nat \ {0} /\ DOMAIN poly = 1 .. n
    BY DEF IsOutline
  <1>2. /\ Len(other) = n /\ DOMAIN other = 1 .. n
        /\ \A i \in 1 .. n : other[i] = IF i = n THEN poly[1] ELSE poly[i + 1]
    BY DEF Rotated
  <1> HIDE DEF other, n
  <1>3. \A i \in 1 .. n : other[i] = poly[f[i]]
    BY <1>2
  <1>4. /\ f \in [1 .. n -> 1 .. n] /\ g \in [1 .. n -> 1 .. n]
        /\ \A i \in 1 .. n : f[g[i]] = i /\ g[f[i]] = i
    BY <1>1
  <1>5. \A i \in 1 .. n : other[Before(other, i)] = poly[Before(poly, f[i])]
    <2> SUFFICES ASSUME NEW i \in 1 .. n
                 PROVE  other[Before(other, i)] = poly[Before(poly, f[i])]
      OBVIOUS
    <2>1. Len(poly) = n
      BY DEF n
    <2>2. Before(other, i) \in 1 .. n /\ f[Before(other, i)] = Before(poly, f[i])
      BY <1>1, <1>2, <2>1 DEF Before
    <2> QED
      BY <1>3, <2>2
  <1> HIDE DEF f, g
  <1>6. IsOutline(other)
    BY <1>1, <1>2, <1>3, <1>4 DEF IsOutline
  <1>7. \A pt : IsPoint(pt) => (PointInPolygon(poly, pt) <=> PointInPolygon(other, pt))
    <2> SUFFICES ASSUME NEW pt, IsPoint(pt)
                 PROVE  PointInPolygon(poly, pt) <=> PointInPolygon(other, pt)
      OBVIOUS
    <2>1. n = Len(poly) /\ n = Len(other)
      BY <1>2 DEF n
    <2>2. SameEdges(poly, other, f)
      BY <1>3, <1>5, <2>1 DEF SameEdges
    <2>3. Renumber(poly, f, g)
      BY <1>4, <2>1 DEF Renumber
    <2>4. IsOutline(poly) /\ IsOutline(other)
      BY <1>6
    <2> QED
      BY <2>1, <2>2, <2>3, <2>4, SameInside
  <1>8. \A i \in DOMAIN poly : \E k \in DOMAIN other : other[k] = poly[i]
    BY <1>1, <1>2, <1>3, <1>4
  <1>9. \A k \in DOMAIN other : \E i \in DOMAIN poly : other[k] = poly[i]
    BY <1>1, <1>2, <1>3, <1>4
  <1> QED
    BY <1>7, <1>8, <1>9 DEF other

\* It does not matter which way round the vertices are listed.
LEMMA ReversedInside ==
  ASSUME NEW poly, IsOutline(poly), poly # <<>>, poly \in Seq({poly[i] : i \in DOMAIN poly})
  PROVE  /\ \A pt : IsPoint(pt) => (PointInPolygon(poly, pt) <=> PointInPolygon(Reversed(poly), pt))
         /\ \A i \in DOMAIN poly : \E k \in DOMAIN Reversed(poly) : Reversed(poly)[k] = poly[i]
         /\ \A k \in DOMAIN Reversed(poly) : \E i \in DOMAIN poly : Reversed(poly)[k] = poly[i]
  <1> DEFINE n == Len(poly)
             other == Reversed(poly)
             f == [i \in 1 .. n |-> IF i = 1 THEN 1 ELSE n + 2 - i]
  <1>1. n \in Nat \ {0} /\ DOMAIN poly = 1 .. n
    BY DEF IsOutline
  <1>2. /\ Len(other) = n /\ DOMAIN other = 1 .. n
        /\ \A i \in 1 .. n : other[i] = poly[n + 1 - i]
    BY <1>1 DEF Reversed
  <1> HIDE DEF other, n
  <1>3. /\ f \in [1 .. n -> 1 .. n]
        /\ \A i \in 1 .. n : f[f[i]] = i
    BY <1>1
  <1>4. Len(poly) = n
    BY DEF n
  <1>5. \A i \in 1 .. n : other[i] = poly[Before(poly, f[i])]
    BY <1>1, <1>2, <1>4 DEF Before
  <1>6. \A i \in 1 .. n : other[Before(other, i)] = poly[f[i]]
    BY <1>1, <1>2 DEF Before
  <1> HIDE DEF f
  <1>7. IsOutline(other)
    BY <1>1, <1>2, <1>4 DEF IsOutline
  <1>8. \A pt : IsPoint(pt) => (PointInPolygon(poly, pt) <=> PointInPolygon(other, pt))
    <2> SUFFICES ASSUME NEW pt, IsPoint(pt)
                 PROVE  PointInPolygon(poly, pt) <=> PointInPolygon(other, pt)
      OBVIOUS
    <2>1. n = Len(poly) /\ n = Len(other)
      BY <1>2 DEF n
    <2>2. SameEdges(poly, other, f)
      BY <1>5, <1>6, <2>1 DEF SameEdges
    <2>3. Renumber(poly, f, f)
      BY <1>3, <2>1 DEF Renumber
    <2>4. IsOutline(poly) /\ IsOutline(other)
      BY <1>7
    <2> QED
      BY <2>1, <2>2, <2>3, <2>4, SameInside
  <1>9. \A i \in DOMAIN poly : \E k \in DOMAIN other : other[k] = poly[i]
    <2> SUFFICES ASSUME NEW i \in 1 .. n
                 PROVE  \E k \in 1 .. n : other[k] = poly[i]
      BY <1>1, <1>2
    <2>1. n + 1 - i \in 1 .. n /\ n + 1 - (n + 1 - i) = i
      BY <1>1
    <2> QED
      BY <1>2, <2>1
  <1>10. \A k \in DOMAIN other : \E i \in DOMAIN poly : other[k] = poly[i]
    BY <1>1, <1>2
  <1> QED
    BY <1>8, <1>9, <1>10 DEF other

\* Being adjacent is a matter of the vertices alone.
LEMMA SameNeighbours ==
  ASSUME NEW v \in Volumes, NEW u \in Volumes, NEW other,
         \A i \in DOMAIN v.poly : \E k \in DOMAIN other : other[k] = v.poly[i],
         \A k \in DOMAIN other : \E i \in DOMAIN v.poly : other[k] = v.poly[i]
  PROVE  AdjacentVolumes(u, v) <=> AdjacentVolumes([v EXCEPT !.poly = other], u)
  <1>1. [v EXCEPT !.poly = other].poly = other
    BY VolumesAssumption
  <1>2. ASSUME NEW p, NEW q, IsPoint(p), IsPoint(q)
        PROVE  SameVertex(p, q) <=> SameVertex(q, p)
    BY <1>2 DEF SameVertex, Abs, IsPoint
  <1>3. /\ \A i \in DOMAIN v.poly : IsPoint(v.poly[i])
        /\ \A j \in DOMAIN u.poly : IsPoint(u.poly[j])
    BY VolumesAssumption DEF IsPoint
  <1>4. AdjacentVolumes(u, v) <=>
          \E j \in DOMAIN u.poly, i \in DOMAIN v.poly : SameVertex(u.poly[j], v.poly[i])
    BY DEF AdjacentVolumes
  <1>5. AdjacentVolumes([v EXCEPT !.poly = other], u) <=>
          \E k \in DOMAIN other, j \in DOMAIN u.poly : SameVertex(other[k], u.poly[j])
    BY <1>1 DEF AdjacentVolumes
  <1> QED
    BY <1>2, <1>3, <1>4, <1>5

\* What is registered as a sector is a volume.
LEMMA SectorsTyped == Spec => [](sectors \in [SectorId -> Volumes \cup {None}])
  <1> DEFINE Inv == sectors \in [SectorId -> Volumes \cup {None}]
  <1>1. Init => Inv
    BY DEF Init
  <1>2. Inv /\ [Next]_vars => Inv'
    BY DEF Next, AddSector, AddWaypoint, AddAirway, vars
  <1> QED
    BY <1>1, <1>2, PTL DEF Spec

\* A polygon is an outline: where the list of its vertices starts and which way
\* round it goes changes neither what is inside nor what is adjacent, however
\* many vertices it has (pointInPolygon, Airspace.Adjacent).
THEOREM PolygonsAreOutlines == Spec => []OutlineBlind
  <1>1. ASSUME sectors \in [SectorId -> Volumes \cup {None}]
        PROVE  OutlineBlind
    <2> SUFFICES ASSUME NEW s \in Registered(sectors), sectors[s].poly # <<>>,
                        NEW poly \in {Rotated(sectors[s].poly), Reversed(sectors[s].poly)}
                 PROVE  /\ \A pt \in Points :
                             PointInPolygon(sectors[s].poly, pt.pos)
                               <=> PointInPolygon(poly, pt.pos)
                        /\ \A t \in Registered(sectors) :
                             Adjacent(t, s) <=>
                               /\ s # t
                               /\ AdjacentVolumes([sectors[s] EXCEPT !.poly = poly], sectors[t])
      BY DEF OutlineBlind
    <2>1. \A t \in Registered(sectors) : sectors[t] \in Volumes /\ sectors[t] # None
      BY <1>1 DEF Registered
    <2>2. PICK v \in Volumes : v = sectors[s]
      BY <2>1
    <2>3. /\ IsOutline(v.poly) /\ v.poly # <<>>
          /\ v.poly \in Seq({v.poly[i] : i \in DOMAIN v.poly})
      <3>1. /\ v.poly \in Seq({v.poly[i] : i \in DOMAIN v.poly})
            /\ \A i \in DOMAIN v.poly : IsPoint(v.poly[i])
        BY VolumesAssumption DEF IsPoint
      <3>2. Len(v.poly) \in Nat /\ DOMAIN v.poly = 1 .. Len(v.poly)
        BY <3>1
      <3> QED
        BY <2>2, <3>1, <3>2 DEF IsOutline
    <2>4. /\ \A pt : IsPoint(pt) => (PointInPolygon(v.poly, pt) <=> PointInPolygon(poly, pt))
          /\ \A i \in DOMAIN v.poly : \E k \in DOMAIN poly : poly[k] = v.poly[i]
          /\ \A k \in DOMAIN poly : \E i \in DOMAIN v.poly : poly[k] = v.poly[i]
      <3>1. CASE poly = Rotated(v.poly)
        BY <2>3, <3>1, RotatedInside
      <3>2. CASE poly = Reversed(v.poly)
        BY <2>3, <3>2, ReversedInside
      <3> QED
        BY <2>2, <3>1, <3>2
    <2>5. \A pt \in Points : IsPoint(pt.pos)
      BY VolumesAssumption DEF IsPoint
    <2>6. ASSUME NEW t \in Registered(sectors)
          PROVE  Adjacent(t, s) <=>
                   s # t /\ AdjacentVolumes([v EXCEPT !.poly = poly], sectors[t])
      <3>1. AdjacentVolumes(sectors[t], v) <=>
              AdjacentVolumes([v EXCEPT !.poly = poly], sectors[t])
        BY <2>1, <2>4, SameNeighbours
      <3> QED
        BY <2>1, <2>2, <3>1 DEF Adjacent
    <2> QED
      BY <2>2, <2>4, <2>5, <2>6
  <1> QED
    BY <1>1, SectorsTyped, PTL

-----------------------------------------------------------------------------
(* Volumes that are cut in two.                                            *)

SmallestOf(S) == CHOOSE x \in S : \A y \in S : x <= y

\* A set of numbers that is not empty has a smallest one.
LEMMA Smallest ==
  ASSUME NEW S, S \subseteq Nat, S # {}
  PROVE  SmallestOf(S) \in S /\ \A n \in S : SmallestOf(S) <= n
  <1>1. PICK x \in S : \A y \in S : ~(<<y, x>> \in OpToRel(<, Nat))
    BY NatLessThanWellFounded, WFMin
  <1>2. \A y \in S : x <= y
    <2> SUFFICES ASSUME NEW y \in S, ~(x <= y)
                 PROVE  FALSE
      OBVIOUS
    <2>1. y < x /\ x \in Nat /\ y \in Nat
      OBVIOUS
    <2> QED
      BY <1>1, <2>1 DEF OpToRel
  <1> QED
    BY <1>2 DEF SmallestOf

\* The places up to k where b differs from the place before.
Changes(b, k) == {i \in 2 .. k : b[i] # b[i - 1]}

\* After an odd number of changes b is not what it was at first.
LEMMA OddChanges ==
  ASSUME NEW n \in Nat, NEW b \in [1 .. n -> {0, 1}]
  PROVE  \A k \in 1 .. n : /\ IsFiniteSet(Changes(b, k))
                           /\ Cardinality(Changes(b, k)) \in Nat
                           /\ Cardinality(Changes(b, k)) % 2 = IF b[k] # b[1] THEN 1 ELSE 0
  <1> DEFINE Fine(k) == Cardinality(Changes(b, k)) % 2 = IF b[k] # b[1] THEN 1 ELSE 0
             Bad == {k \in 1 .. n : ~ Fine(k)}
  <1>1. ASSUME NEW k \in 1 .. n
        PROVE  IsFiniteSet(Changes(b, k)) /\ Cardinality(Changes(b, k)) \in Nat
    <2>1. IsFiniteSet(2 .. k) /\ Changes(b, k) \subseteq 2 .. k
      BY FS_Interval DEF Changes
    <2>2. IsFiniteSet(Changes(b, k))
      BY <2>1, FS_Subset
    <2> QED
      BY <2>2, FS_CardinalityType
  <1>2. ASSUME 1 \in 1 .. n
        PROVE  Fine(1)
    <2>1. Changes(b, 1) = {}
      BY DEF Changes
    <2> QED
      BY <2>1, FS_EmptySet
  <1>3. ASSUME NEW k \in 1 .. n, k > 1, Fine(k - 1)
        PROVE  Fine(k)
    <2>1. k - 1 \in 1 .. n
      BY <1>3
    <2> DEFINE A == Changes(b, k - 1)
               c == Cardinality(A)
    <2>2. IsFiniteSet(A) /\ c \in Nat
      BY <1>1, <2>1
    <2>3. k \notin A /\ Changes(b, k) = IF b[k] # b[k - 1] THEN A \cup {k} ELSE A
      BY <1>3 DEF Changes
    <2>4. c % 2 = IF b[k - 1] # b[1] THEN 1 ELSE 0
      BY <1>3
    <2> HIDE DEF A
    <2>5. Cardinality(Changes(b, k)) = IF b[k] # b[k - 1] THEN c + 1 ELSE c
      BY <2>2, <2>3, FS_AddElement
    <2>6. b[k] \in {0, 1} /\ b[k - 1] \in {0, 1} /\ b[1] \in {0, 1}
      BY <2>1
    <2> HIDE DEF c
    <2> QED
      BY <2>2, <2>4, <2>5, <2>6
  <1>4. Bad = {}
    <2> SUFFICES ASSUME Bad # {}
                 PROVE  FALSE
      OBVIOUS
    <2> HIDE DEF Fine
    <2>1. Bad \subseteq Nat
      OBVIOUS
    <2>2. PICK k \in Bad : \A j \in Bad : k <= j
      BY <2>1, Smallest
    <2>3. k > 1
      BY <1>2, <2>2
    <2>4. k - 1 \in 1 .. n /\ k - 1 \notin Bad
      BY <2>2, <2>3
    <2> QED
      BY <1>3, <2>2, <2>3, <2>4
  <1> QED
    BY <1>1, <1>4

\* All the way round, the number of changes is even.
LEMMA EvenChanges ==
  ASSUME NEW n \in Nat, n >= 1, NEW b \in [1 .. n -> {0, 1}],
         NEW S, S = {i \in 1 .. n : b[i] # b[IF i = 1 THEN n ELSE i - 1]}
  PROVE  Cardinality(S) % 2 = 0
  <1> DEFINE A == Changes(b, n)
             c == Cardinality(A)
  <1>1. IsFiniteSet(A) /\ c \in Nat /\ c % 2 = IF b[n] # b[1] THEN 1 ELSE 0
    BY OddChanges
  <1>2. 1 \notin A /\ S = IF b[n] # b[1] THEN A \cup {1} ELSE A
    BY DEF Changes
  <1> HIDE DEF A
  <1>3. Cardinality(S) = IF b[n] # b[1] THEN c + 1 ELSE c
    BY <1>1, <1>2, FS_AddElement
  <1> HIDE DEF c
  <1> QED
    BY <1>1, <1>3

\* What the sign of a product tells about its factors.
LEMMA Signs ==
  ASSUME NEW h \in Int, NEW m \in Int, h > 0
  PROVE  /\ h * m \in Int
         /\ m > 0 => h * m > 0
         /\ m = 0 => h * m = 0
         /\ m < 0 => h * m < 0
  <1>1. ASSUME NEW k \in Nat, k > 0
        PROVE  h * k \in Int /\ h * k > 0
    <2>1. (h - 1) * k \in Nat
      BY <1>1
    <2>2. h * k = (h - 1) * k + k
      BY <1>1
    <2> QED
      BY <1>1, <2>1, <2>2
  <1>2. CASE m > 0
    BY <1>1, <1>2
  <1>3. CASE m = 0
    BY <1>3
  <1>4. CASE m < 0
    <2>1. PICK k \in Nat : k = -m /\ k > 0
      BY <1>4
    <2>2. h * k \in Int /\ h * k > 0
      BY <1>1, <2>1
    <2>3. h * m = -(h * k)
      BY <2>1
    <2> QED
      BY <1>4, <2>2, <2>3
  <1> QED
    BY <1>2, <1>3, <1>4

\* Where a latitude crosses an edge is between the ends of the edge, also as
\* seen from another line.
LEMMA Between ==
  ASSUME NEW h \in Int, NEW k \in Int, NEW ux \in Int, NEW uy \in Int,
         NEW px \in Int, NEW py \in Int, NEW qx \in Int, NEW qy \in Int,
         NEW tx \in Int, NEW ty \in Int
  PROVE  h * ((tx - px) * (qy - py) - (qx - px) * (ty - py))
           = (qy - py) * ((tx - ux) * h - k * (ty - uy))
             - (qy - ty) * ((px - ux) * h - k * (py - uy))
             - (ty - py) * ((qx - ux) * h - k * (qy - uy))
  OBVIOUS

\* An edge on one side of a line that runs north, at a latitude where the point
\* is on the other side.
LEMMA EdgeBeside ==
  ASSUME NEW u, NEW w, NEW p, NEW q, NEW pt,
         IsPoint(u), IsPoint(w), IsPoint(p), IsPoint(q), IsPoint(pt),
         w.y > u.y, Spans(p, q, pt)
  PROVE  /\ Side(u, w, p) >= 0 /\ Side(u, w, q) >= 0 /\ Side(u, w, pt) < 0 => EastOf(p, q, pt)
         /\ Side(u, w, p) <= 0 /\ Side(u, w, q) <= 0 /\ Side(u, w, pt) >= 0 => ~EastOf(p, q, pt)
  <1>1. ASSUME NEW a, NEW c, IsPoint(a), IsPoint(c), Spans(a, c, pt), c.y > a.y
        PROVE  /\ Side(u, w, a) >= 0 /\ Side(u, w, c) >= 0 /\ Side(u, w, pt) < 0
                  => EastOf(a, c, pt)
               /\ Side(u, w, a) <= 0 /\ Side(u, w, c) <= 0 /\ Side(u, w, pt) >= 0
                  => ~EastOf(a, c, pt)
    <2> DEFINE h == w.y - u.y
               k == w.x - u.x
               lhs == (pt.x - a.x) * (c.y - a.y)
               rhs == (c.x - a.x) * (pt.y - a.y)
               n1 == c.y - a.y
               n2 == c.y - pt.y
               n3 == pt.y - a.y
               st == Side(u, w, pt)
               sa == Side(u, w, a)
               sc == Side(u, w, c)
    <2>1. /\ h \in Int /\ h > 0 /\ k \in Int
          /\ lhs \in Int /\ rhs \in Int
          /\ n1 \in Int /\ n2 \in Int /\ n3 \in Int
          /\ st \in Int /\ sa \in Int /\ sc \in Int
      BY <1>1 DEF IsPoint, Side
    <2>2. n1 > 0 /\ n2 > 0 /\ n3 >= 0
      BY <1>1 DEF IsPoint, Spans
    <2>3. h * (lhs - rhs) = n1 * st - n2 * sa - n3 * sc
      BY <1>1, Between DEF IsPoint, Side
    <2>4. EastOf(a, c, pt) <=> lhs < rhs
      BY <1>1 DEF EastOf, WestOf
    <2> HIDE DEF h, k, lhs, rhs, n1, n2, n3, st, sa, sc
    <2>5. lhs - rhs \in Int
      BY <2>1
    <2>6. /\ h * (lhs - rhs) \in Int
          /\ lhs - rhs > 0 => h * (lhs - rhs) > 0
          /\ lhs - rhs = 0 => h * (lhs - rhs) = 0
          /\ lhs - rhs < 0 => h * (lhs - rhs) < 0
      BY <2>1, <2>5, Signs
    <2>7. /\ n1 * st \in Int
          /\ st > 0 => n1 * st > 0
          /\ st = 0 => n1 * st = 0
          /\ st < 0 => n1 * st < 0
      BY <2>1, <2>2, Signs
    <2>8. /\ n2 * sa \in Int
          /\ sa > 0 => n2 * sa > 0
          /\ sa = 0 => n2 * sa = 0
          /\ sa < 0 => n2 * sa < 0
      BY <2>1, <2>2, Signs
    <2>9. /\ n3 * sc \in Int
          /\ sc >= 0 => n3 * sc >= 0
          /\ sc <= 0 => n3 * sc <= 0
      <3>1. CASE n3 = 0
        BY <2>1, <3>1
      <3>2. CASE n3 > 0
        BY <2>1, <3>2, Signs
      <3> QED
        BY <2>1, <2>2, <3>1, <3>2
    <2> DEFINE m0 == h * (lhs - rhs)
               m1 == n1 * st
               m2 == n2 * sa
               m3 == n3 * sc
    <2>10. m0 = m1 - m2 - m3
      BY <2>3
    <2> HIDE DEF m0, m1, m2, m3
    <2>11. ASSUME sa >= 0, sc >= 0, st < 0
           PROVE  lhs < rhs
      <3>1. m0 < 0 /\ m0 \in Int
        BY <2>1, <2>6, <2>7, <2>8, <2>9, <2>10, <2>11 DEF m0, m1, m2, m3
      <3> QED
        BY <2>1, <2>6, <3>1 DEF m0
    <2>12. ASSUME sa <= 0, sc <= 0, st >= 0
           PROVE  ~(lhs < rhs)
      <3>1. m0 >= 0 /\ m0 \in Int
        BY <2>1, <2>6, <2>7, <2>8, <2>9, <2>10, <2>12 DEF m0, m1, m2, m3
      <3> QED
        BY <2>1, <2>6, <3>1 DEF m0
    <2> QED
      BY <2>4, <2>11, <2>12 DEF st, sa, sc
  <1>2. CASE q.y > p.y
    BY <1>1, <1>2
  <1>3. CASE p.y > q.y
    <2>1. Spans(q, p, pt)
      BY DEF Spans
    <2> QED
      BY <1>1, <1>3, <2>1, EdgeEitherWay
  <1>4. p.y # q.y
    BY DEF Spans
  <1> QED
    BY <1>2, <1>3, <1>4 DEF IsPoint

\* The vertex before one is one.
LEMMA BeforeInside ==
  ASSUME NEW poly, IsOutline(poly), NEW i \in 1 .. Len(poly)
  PROVE  Before(poly, i) \in 1 .. Len(poly)
  BY DEF Before, IsOutline

\* No point is inside when no edge lies to the east, or when every edge at its
\* latitude does.
LEMMA AllOrNone ==
  ASSUME NEW poly, IsOutline(poly), NEW pt, IsPoint(pt),
         \/ \A i \in 1 .. Len(poly) : ~EastOf(poly[i], poly[Before(poly, i)], pt)
         \/ \A i \in 1 .. Len(poly) :
              Spans(poly[i], poly[Before(poly, i)], pt)
                => EastOf(poly[i], poly[Before(poly, i)], pt)
  PROVE  ~PointInPolygon(poly, pt)
  <1> SUFFICES ASSUME Len(poly) >= 3
               PROVE  Cardinality(Edges(poly, pt)) % 2 = 0
    BY CountedEdges
  <1> DEFINE n == Len(poly)
             b == [i \in 1 .. n |-> IF poly[i].y > pt.y THEN 1 ELSE 0]
  <1>1. n \in Nat /\ n >= 1
    BY DEF IsOutline
  <1>2. CASE \A i \in 1 .. n : ~EastOf(poly[i], poly[Before(poly, i)], pt)
    <2>1. Edges(poly, pt) = {}
      BY <1>2 DEF Edges
    <2> QED
      BY <2>1, FS_EmptySet
  <1>3. CASE \A i \in 1 .. n :
               Spans(poly[i], poly[Before(poly, i)], pt)
                 => EastOf(poly[i], poly[Before(poly, i)], pt)
    <2>1. \A i \in 1 .. n : b[Before(poly, i)] = IF poly[Before(poly, i)].y > pt.y THEN 1 ELSE 0
      BY BeforeInside
    <2>2. \A i \in 1 .. n :
            Spans(poly[i], poly[Before(poly, i)], pt) <=> b[i] # b[Before(poly, i)]
      BY <2>1 DEF Spans
    <2>3. b \in [1 .. n -> {0, 1}]
      OBVIOUS
    <2>4. \A i \in 1 .. n : Before(poly, i) = IF i = 1 THEN n ELSE i - 1
      BY DEF Before
    <2> HIDE DEF b
    <2>5. Edges(poly, pt) = {i \in 1 .. n : b[i] # b[Before(poly, i)]}
      BY <1>3, <2>2 DEF Edges, EastOf
    <2>6. Edges(poly, pt) = {i \in 1 .. n : b[i] # b[IF i = 1 THEN n ELSE i - 1]}
      BY <2>4, <2>5
    <2> HIDE DEF n
    <2> QED
      BY <1>1, <2>3, <2>6, EvenChanges
  <1> QED
    BY <1>2, <1>3

\* Two polygons on either side of a line that runs north have no point in
\* common.
LEMMA SideBySide ==
  ASSUME NEW u, NEW w, IsPoint(u), IsPoint(w), w.y > u.y,
         NEW east, NEW west, IsOutline(east), IsOutline(west),
         \A i \in 1 .. Len(east) : Side(u, w, east[i]) >= 0,
         \A i \in 1 .. Len(west) : Side(u, w, west[i]) <= 0,
         NEW pt, IsPoint(pt)
  PROVE  ~PointInPolygon(east, pt) \/ ~PointInPolygon(west, pt)
  <1>1. CASE Side(u, w, pt) >= 0
    <2>1. ASSUME NEW i \in 1 .. Len(west)
          PROVE  ~EastOf(west[i], west[Before(west, i)], pt)
      <3>1. Before(west, i) \in 1 .. Len(west)
        BY BeforeInside
      <3>2. /\ IsPoint(west[i]) /\ IsPoint(west[Before(west, i)])
            /\ Side(u, w, west[i]) <= 0 /\ Side(u, w, west[Before(west, i)]) <= 0
        BY <3>1 DEF IsOutline
      <3> QED
        BY <1>1, <3>2, EdgeBeside DEF EastOf
    <2> QED
      BY <2>1, AllOrNone
  <1>2. CASE Side(u, w, pt) < 0
    <2>1. ASSUME NEW i \in 1 .. Len(east), Spans(east[i], east[Before(east, i)], pt)
          PROVE  EastOf(east[i], east[Before(east, i)], pt)
      <3>1. Before(east, i) \in 1 .. Len(east)
        BY BeforeInside
      <3>2. /\ IsPoint(east[i]) /\ IsPoint(east[Before(east, i)])
            /\ Side(u, w, east[i]) >= 0 /\ Side(u, w, east[Before(east, i)]) >= 0
        BY <3>1 DEF IsOutline
      <3> QED
        BY <1>2, <2>1, <3>2, EdgeBeside
    <2> QED
      BY <2>1, AllOrNone
  <1>3. Side(u, w, pt) \in Int
    BY DEF Side, IsPoint
  <1> QED
    BY <1>1, <1>2, <1>3

\* Two polygons one above the other have no point in common.
LEMMA OneAboveTheOther ==
  ASSUME NEW c \in Int, NEW north, NEW south, IsOutline(north), IsOutline(south),
         \A i \in 1 .. Len(north) : north[i].y >= c,
         \A i \in 1 .. Len(south) : south[i].y <= c,
         NEW pt, IsPoint(pt)
  PROVE  ~PointInPolygon(north, pt) \/ ~PointInPolygon(south, pt)
  <1>1. CASE pt.y >= c
    <2>1. ASSUME NEW i \in 1 .. Len(south)
          PROVE  ~EastOf(south[i], south[Before(south, i)], pt)
      <3>1. Before(south, i) \in 1 .. Len(south)
        BY BeforeInside
      <3>2. /\ IsPoint(south[i]) /\ IsPoint(south[Before(south, i)])
            /\ south[i].y <= c /\ south[Before(south, i)].y <= c
        BY <3>1 DEF IsOutline
      <3> QED
        BY <1>1, <3>2 DEF EastOf, Spans, IsPoint
    <2> QED
      BY <2>1, AllOrNone
  <1>2. CASE pt.y < c
    <2>1. ASSUME NEW i \in 1 .. Len(north)
          PROVE  ~EastOf(north[i], north[Before(north, i)], pt)
      <3>1. Before(north, i) \in 1 .. Len(north)
        BY BeforeInside
      <3>2. /\ IsPoint(north[i]) /\ IsPoint(north[Before(north, i)])
            /\ north[i].y >= c /\ north[Before(north, i)].y >= c
        BY <3>1 DEF IsOutline
      <3> QED
        BY <1>2, <3>2 DEF EastOf, Spans, IsPoint
    <2> QED
      BY <2>1, AllOrNone
  <1> QED
    BY <1>1, <1>2 DEF IsPoint

\* Seen the other way along a line, left is right.
LEMMA SideReversed ==
  ASSUME NEW u, NEW w, NEW p, IsPoint(u), IsPoint(w), IsPoint(p)
  PROVE  Side(u, w, p) \in Int /\ Side(w, u, p) = -Side(u, w, p)
  <1>1. ASSUME NEW ux \in Int, NEW uy \in Int, NEW wx \in Int, NEW wy \in Int,
               NEW px \in Int, NEW py \in Int
        PROVE  (px - wx) * (uy - wy) - (ux - wx) * (py - wy)
                 = -((px - ux) * (wy - uy) - (wx - ux) * (py - uy))
    OBVIOUS
  <1> QED
    BY <1>1 DEF Side, IsPoint

\* Two polygons on either side of a line have no point in common.
LEMMA Apart ==
  ASSUME NEW u, NEW w, IsPoint(u), IsPoint(w), u.x # w.x \/ u.y # w.y,
         NEW one, NEW two, IsOutline(one), IsOutline(two),
         \A i \in 1 .. Len(one) : Side(u, w, one[i]) >= 0,
         \A i \in 1 .. Len(two) : Side(u, w, two[i]) <= 0,
         NEW pt, IsPoint(pt)
  PROVE  ~PointInPolygon(one, pt) \/ ~PointInPolygon(two, pt)
  <1>1. CASE w.y > u.y
    BY <1>1, SideBySide
  <1>2. CASE w.y < u.y
    <2>1. u.y > w.y
      BY <1>2 DEF IsPoint
    <2>2. \A i \in 1 .. Len(two) : Side(w, u, two[i]) >= 0
      BY SideReversed DEF IsOutline
    <2>3. \A i \in 1 .. Len(one) : Side(w, u, one[i]) <= 0
      BY SideReversed DEF IsOutline
    <2> QED
      BY <2>1, <2>2, <2>3, SideBySide
  <1>3. CASE w.y = u.y
    <2> DEFINE k == w.x - u.x
    <2>1. k \in Int /\ k # 0
      BY <1>3 DEF IsPoint
    <2>2. ASSUME NEW p, IsPoint(p)
          PROVE  Side(u, w, p) = k * (u.y - p.y) /\ u.y - p.y \in Int
      BY <1>3, <2>2 DEF Side, IsPoint
    <2> HIDE DEF k
    <2>3. CASE k > 0
      <3>1. ASSUME NEW p, IsPoint(p)
            PROVE  /\ Side(u, w, p) >= 0 => p.y <= u.y
                   /\ Side(u, w, p) <= 0 => p.y >= u.y
        <4>1. /\ u.y - p.y > 0 => Side(u, w, p) > 0
              /\ u.y - p.y < 0 => Side(u, w, p) < 0
          BY <2>1, <2>2, <2>3, <3>1, Signs
        <4> QED
          BY <3>1, <4>1, SideReversed DEF IsPoint
      <3>2. /\ \A i \in 1 .. Len(one) : one[i].y <= u.y
            /\ \A i \in 1 .. Len(two) : two[i].y >= u.y
        BY <3>1 DEF IsOutline
      <3> QED
        BY <3>2, OneAboveTheOther DEF IsPoint
    <2>4. CASE k < 0
      <3>1. ASSUME NEW p, IsPoint(p)
            PROVE  /\ Side(u, w, p) >= 0 => p.y >= u.y
                   /\ Side(u, w, p) <= 0 => p.y <= u.y
        <4>1. PICK j \in Int : j = -k /\ j > 0
          BY <2>1, <2>4
        <4>2. p.y - u.y \in Int /\ Side(u, w, p) = j * (p.y - u.y)
          <5>1. ASSUME NEW a \in Int, NEW c \in Int
                PROVE  k * (a - c) = (-k) * (c - a)
            BY <2>1
          <5>2. p.y \in Int /\ u.y \in Int
            BY <3>1 DEF IsPoint
          <5>3. k * (u.y - p.y) = (-k) * (p.y - u.y)
            BY <5>1, <5>2
          <5> QED
            BY <2>2, <3>1, <4>1, <5>2, <5>3
        <4>3. /\ p.y - u.y > 0 => Side(u, w, p) > 0
              /\ p.y - u.y < 0 => Side(u, w, p) < 0
          BY <4>1, <4>2, Signs
        <4> QED
          BY <3>1, <4>3, SideReversed DEF IsPoint
      <3>2. /\ \A i \in 1 .. Len(one) : one[i].y >= u.y
            /\ \A i \in 1 .. Len(two) : two[i].y <= u.y
        BY <3>1 DEF IsOutline
      <3> QED
        BY <3>2, OneAboveTheOther DEF IsPoint
    <2> QED
      BY <2>1, <2>3, <2>4
  <1> QED
    BY <1>1, <1>2, <1>3 DEF IsPoint

\* The part up to corner m, and the part from there on.
FirstPart(poly, m) == SubSeq(poly, 1, m)
SecondPart(poly, m) == Append(SubSeq(poly, m, Len(poly)), poly[1])

\* What is left of a sequence from its m-th element on.
LEMMA RestOfSequence ==
  ASSUME NEW S, NEW s, NEW m \in Int, NEW n \in Int, m <= n, \A i \in m .. n : s[i] \in S
  PROVE  /\ SubSeq(s, m, n) \in Seq(S) /\ Len(SubSeq(s, m, n)) = n - m + 1
         /\ \A i \in 1 .. n - m + 1 : SubSeq(s, m, n)[i] = s[m + i - 1]
  BY SubSeqProperties

\* The corners of the parts.
LEMMA PartCorners ==
  ASSUME NEW poly, IsOutline(poly), poly \in Seq({poly[i] : i \in DOMAIN poly}),
         NEW m \in 3 .. Len(poly) - 1
  PROVE  /\ IsOutline(FirstPart(poly, m)) /\ IsOutline(SecondPart(poly, m))
         /\ Len(FirstPart(poly, m)) = m
         /\ \A i \in 1 .. m : FirstPart(poly, m)[i] = poly[i]
         /\ Len(SecondPart(poly, m)) = Len(poly) - m + 2
         /\ \A i \in 1 .. Len(poly) - m + 2 :
              SecondPart(poly, m)[i] =
                IF i = Len(poly) - m + 2 THEN poly[1] ELSE poly[m - 1 + i]
  <1> DEFINE n == Len(poly)
             S == {poly[i] : i \in DOMAIN poly}
             a == SubSeq(poly, 1, m)
             c == SubSeq(poly, m, n)
             d == Append(c, poly[1])
  <1>1. n \in Nat /\ m \in Nat /\ 3 <= m /\ m <= n - 1 /\ DOMAIN poly = 1 .. n
    BY DEF IsOutline
  <1>2. /\ a \in Seq(S) /\ Len(a) = m /\ DOMAIN a = 1 .. m
        /\ \A i \in 1 .. m : a[i] = poly[i]
    <2>1. \A i \in 1 .. m : poly[i] \in S
      BY <1>1
    <2> HIDE DEF S
    <2> QED
      BY <1>1, <2>1, SubSeqProperties
  <1>3. /\ c \in Seq(S) /\ Len(c) = n - m + 1
        /\ \A i \in 1 .. n - m + 1 : c[i] = poly[m - 1 + i]
    <2>1. \A i \in m .. n : poly[i] \in S
      BY <1>1
    <2> HIDE DEF S, n
    <2>0. m \in Int /\ n \in Int /\ m <= n
      BY <1>1
    <2>2. /\ c \in Seq(S) /\ Len(c) = n - m + 1
          /\ \A i \in 1 .. n - m + 1 : c[i] = poly[m + i - 1]
      BY <2>0, <2>1, RestOfSequence
    <2>3. \A i \in 1 .. n - m + 1 : m + i - 1 = m - 1 + i
      BY <1>1
    <2> QED
      BY <2>2, <2>3
  <1>4. poly[1] \in S
    BY <1>1
  <1> HIDE DEF S, c, n
  <1>5. /\ d \in Seq(S) /\ Len(d) = n - m + 2 /\ DOMAIN d = 1 .. n - m + 2
        /\ \A i \in 1 .. n - m + 2 :
             d[i] = IF i = n - m + 2 THEN poly[1] ELSE poly[m - 1 + i]
    <2> DEFINE l == n - m + 1
               x == poly[1]
               e == Append(c, x)
    <2>1. l \in Nat /\ l + 1 = n - m + 2
      BY <1>1
    <2>2. Len(c) = l /\ c \in Seq(S) /\ x \in S
      BY <1>3, <1>4
    <2> HIDE DEF l, x
    <2>3. e \in Seq(S) /\ Len(e) = l + 1
      BY <2>1, <2>2
    <2>4. DOMAIN e = 1 .. l + 1
      BY <2>3
    <2>5. \A i \in 1 .. l : e[i] = c[i]
      BY <2>1, <2>2
    <2>6. e[l + 1] = x
      BY <2>1, <2>2
    <2>7. \A i \in 1 .. l + 1 : i # l + 1 => i \in 1 .. l
      BY <2>1
    <2>8. \A i \in 1 .. l : c[i] = poly[m - 1 + i]
      BY <1>3 DEF l
    <2> HIDE DEF e
    <2>9. \A i \in 1 .. l + 1 : e[i] = IF i = l + 1 THEN x ELSE poly[m - 1 + i]
      BY <2>5, <2>6, <2>7, <2>8
    <2> QED
      BY <2>1, <2>3, <2>4, <2>9 DEF e, x
  <1>6. \A x \in S : IsPoint(x)
    BY DEF S, IsOutline
  <1>7. IsOutline(a)
    BY <1>1, <1>2, <1>6 DEF IsOutline
  <1>8. IsOutline(d)
    BY <1>1, <1>5, <1>6 DEF IsOutline
  <1> QED
    BY <1>2, <1>5, <1>7, <1>8 DEF FirstPart, SecondPart, n, c

\* Of two sets of edges that differ in one edge of each from the parts of a
\* third, all three with an odd number of edges or not.
LEMMA Parities ==
  ASSUME NEW E, NEW E1, NEW E2, IsFiniteSet(E1), IsFiniteSet(E2),
         E = E1 \cup E2, E1 \cap E2 = {},
         NEW A, NEW B, IsFiniteSet(A), IsFiniteSet(B),
         Cardinality(A \ {1}) = Cardinality(E1), Cardinality(B \ {1}) = Cardinality(E2),
         1 \in A <=> 1 \in B
  PROVE  Cardinality(E) % 2 = 1 <=> (Cardinality(A) % 2 = 1) # (Cardinality(B) % 2 = 1)
  <1> DEFINE e == Cardinality(E)
             e1 == Cardinality(E1)
             e2 == Cardinality(E2)
             a == Cardinality(A)
             b == Cardinality(B)
  <1>1. e1 \in Nat /\ e2 \in Nat /\ a \in Nat /\ b \in Nat
    BY FS_CardinalityType
  <1>2. e = e1 + e2
    <2>1. e = e1 + e2 - Cardinality({})
      BY FS_Union
    <2> QED
      BY <1>1, <2>1, FS_EmptySet
  <1>3. e1 = IF 1 \in A THEN a - 1 ELSE a
    BY FS_RemoveElement
  <1>4. e2 = IF 1 \in A THEN b - 1 ELSE b
    BY FS_RemoveElement
  <1> HIDE DEF e, e1, e2, a, b
  <1>5. e % 2 = 1 <=> (a % 2 = 1) # (b % 2 = 1)
    BY <1>1, <1>2, <1>3, <1>4
  <1> QED
    BY <1>5 DEF e, a, b

\* A point is inside a polygon if it is inside exactly one of the two parts
\* into which a line between two corners cuts it, wherever that line runs.
LEMMA CutInTwo ==
  ASSUME NEW poly, IsOutline(poly), poly \in Seq({poly[i] : i \in DOMAIN poly}),
         NEW m \in 3 .. Len(poly) - 1, NEW pt, IsPoint(pt)
  PROVE  PointInPolygon(poly, pt) <=>
           PointInPolygon(FirstPart(poly, m), pt) # PointInPolygon(SecondPart(poly, m), pt)
  <1> DEFINE n == Len(poly)
             one == FirstPart(poly, m)
             two == SecondPart(poly, m)
             E == Edges(poly, pt)
             A == Edges(one, pt)
             B == Edges(two, pt)
             E1 == E \cap 2 .. m
             E2 == E \ 2 .. m
             f == [i \in B \ {1} |-> IF i = n - m + 2 THEN 1 ELSE m - 1 + i]
  <1>1. /\ n \in Nat /\ m \in Nat /\ 3 <= m /\ m <= n - 1
        /\ IsOutline(one) /\ IsOutline(two)
        /\ Len(one) = m /\ Len(two) = n - m + 2
        /\ \A i \in 1 .. m : one[i] = poly[i]
        /\ \A i \in 1 .. n - m + 2 :
             two[i] = IF i = n - m + 2 THEN poly[1] ELSE poly[m - 1 + i]
    BY PartCorners DEF IsOutline
  <1> HIDE DEF one, two, n
  <1>2. n = Len(poly)
    BY DEF n
  <1>3. E \subseteq 1 .. n /\ A \subseteq 1 .. m /\ B \subseteq 1 .. n - m + 2
    BY <1>1, <1>2 DEF Edges
  <1>4. IsFiniteSet(E) /\ IsFiniteSet(A) /\ IsFiniteSet(B)
    <2>1. IsFiniteSet(1 .. n) /\ IsFiniteSet(1 .. m) /\ IsFiniteSet(1 .. n - m + 2)
      BY <1>1, FS_Interval
    <2> HIDE DEF E, A, B
    <2> QED
      BY <1>3, <2>1, FS_Subset
  <1>5. A \ {1} = E1
    <2> SUFFICES ASSUME NEW i \in 2 .. m
                 PROVE  i \in A <=> i \in E
      BY <1>1, <1>3
    <2>1. /\ Before(one, i) = i - 1 /\ Before(poly, i) = i - 1
          /\ i \in 1 .. m /\ i - 1 \in 1 .. m /\ i \in 1 .. n
      BY <1>1 DEF Before
    <2> QED
      BY <1>1, <1>2, <2>1 DEF Edges
  <1>6. ASSUME NEW i \in 2 .. n - m + 2
        PROVE  i \in B <=> (IF i = n - m + 2 THEN 1 ELSE m - 1 + i) \in E
    <2>1. CASE i = n - m + 2
      <3>1. /\ Before(two, i) = i - 1 /\ Before(poly, 1) = n
            /\ i - 1 \in 1 .. n - m + 2 /\ i - 1 # n - m + 2 /\ m - 1 + (i - 1) = n
            /\ i \in 1 .. n - m + 2 /\ 1 \in 1 .. n
        BY <1>1, <1>2, <2>1 DEF Before
      <3>2. two[i] = poly[1] /\ two[Before(two, i)] = poly[n]
        BY <1>1, <2>1, <3>1
      <3> QED
        BY <1>1, <1>2, <2>1, <3>1, <3>2 DEF Edges
    <2>2. CASE i # n - m + 2
      <3>0. m - 1 + i # 1 /\ m - 1 + i - 1 = m - 1 + (i - 1) /\ i # 1
        BY <1>1
      <3>1. /\ Before(two, i) = i - 1 /\ Before(poly, m - 1 + i) = m - 1 + (i - 1)
            /\ i - 1 \in 1 .. n - m + 2 /\ i - 1 # n - m + 2
            /\ i \in 1 .. n - m + 2 /\ m - 1 + i \in 1 .. n
        <4>1. Before(two, i) = i - 1 /\ Before(poly, m - 1 + i) = m - 1 + i - 1
          BY <3>0 DEF Before
        <4>2. /\ i - 1 \in 1 .. n - m + 2 /\ i - 1 # n - m + 2
              /\ i \in 1 .. n - m + 2 /\ m - 1 + i \in 1 .. n
          BY <1>1, <2>2
        <4> QED
          BY <3>0, <4>1, <4>2
      <3>2. /\ two[i] = poly[m - 1 + i]
            /\ two[Before(two, i)] = poly[Before(poly, m - 1 + i)]
        BY <1>1, <2>2, <3>1
      <3> QED
        BY <1>1, <1>2, <2>2, <3>1, <3>2 DEF Edges
    <2> QED
      BY <2>1, <2>2
  <1>7. Cardinality(B \ {1}) = Cardinality(E2)
    <2>1. f \in [B \ {1} -> E2] /\ \A i, j \in B \ {1} : f[i] = f[j] => i = j
      <3>1. \A i \in B \ {1} : i \in 2 .. n - m + 2
        BY <1>1, <1>3
      <3>2. ASSUME NEW i \in B \ {1}
            PROVE  f[i] \in E2
        <4>1. i \in 2 .. n - m + 2 /\ f[i] \in E
          BY <1>6, <3>1
        <4>2. f[i] \notin 2 .. m
          BY <1>1, <4>1
        <4> QED
          BY <4>1, <4>2
      <3>3. ASSUME NEW i \in B \ {1}, NEW j \in B \ {1}, f[i] = f[j]
            PROVE  i = j
        <4>1. i \in 2 .. n - m + 2 /\ j \in 2 .. n - m + 2
          BY <3>1
        <4>2. (IF i = n - m + 2 THEN 1 ELSE m - 1 + i) = (IF j = n - m + 2 THEN 1 ELSE m - 1 + j)
          BY <3>3
        <4> QED
          BY <1>1, <4>1, <4>2
      <3> QED
        BY <3>2, <3>3
    <2>2. ASSUME NEW k \in E2
          PROVE  \E i \in B \ {1} : f[i] = k
      <3>1. k \in E /\ k \in 1 .. n /\ (k = 1 \/ k > m)
        BY <1>1, <1>3
      <3>2. CASE k = 1
        <4>1. n - m + 2 \in 2 .. n - m + 2
          BY <1>1
        <4>2. n - m + 2 \in B \ {1}
          BY <1>1, <1>6, <3>1, <3>2, <4>1
        <4> QED
          BY <3>2, <4>2
      <3>3. CASE k > m
        <4>1. k - m + 1 \in 2 .. n - m + 2 /\ k - m + 1 # n - m + 2 /\ m - 1 + (k - m + 1) = k
          BY <1>1, <3>1, <3>3
        <4>2. k - m + 1 \in B
          BY <1>6, <3>1, <4>1
        <4>3. k - m + 1 \in B \ {1}
          BY <1>1, <4>1, <4>2
        <4> QED
          BY <4>1, <4>3
      <3> QED
        BY <3>1, <3>2, <3>3
    <2> DEFINE S == B \ {1}
    <2> HIDE DEF f, E2
    <2>3. f \in Bijection(S, E2)
      BY <2>1, <2>2, Fun_IsBij
    <2>4. IsFiniteSet(S)
      BY <1>4, FS_RemoveElement
    <2> HIDE DEF S
    <2>5. Cardinality(S) = Cardinality(E2)
      BY <2>3, <2>4, FS_Bijection DEF ExistsBijection
    <2> QED
      BY <2>5 DEF S
  <1>8. 1 \in A <=> 1 \in B
    <2>1. /\ Before(one, 1) = m /\ Before(two, 1) = n - m + 2
          /\ 1 \in 1 .. m /\ m \in 1 .. m
          /\ 1 \in 1 .. n - m + 2 /\ n - m + 2 \in 1 .. n - m + 2 /\ 1 # n - m + 2 /\ m - 1 + 1 = m
      BY <1>1 DEF Before
    <2>2. /\ one[1] = poly[1] /\ one[Before(one, 1)] = poly[m]
          /\ two[1] = poly[m] /\ two[Before(two, 1)] = poly[1]
      BY <1>1, <2>1
    <2>3. EastOf(poly[1], poly[m], pt) <=> EastOf(poly[m], poly[1], pt)
      BY <1>1, <1>2, EdgeEitherWay DEF IsOutline
    <2> QED
      BY <1>1, <2>1, <2>2, <2>3 DEF Edges
  <1>9. IsFiniteSet(E1) /\ IsFiniteSet(E2)
    <2> HIDE DEF E
    <2> QED
      BY <1>4, FS_Subset
  <1>10. Cardinality(E) % 2 = 1 <=> (Cardinality(A) % 2 = 1) # (Cardinality(B) % 2 = 1)
    <2>1. E = E1 \cup E2 /\ E1 \cap E2 = {}
      OBVIOUS
    <2>2. Cardinality(A \ {1}) = Cardinality(E1)
      BY <1>5
    <2> HIDE DEF E, E1, E2, A, B
    <2> QED
      BY <1>4, <1>7, <1>8, <1>9, <2>1, <2>2, Parities
  <1>11. Len(poly) >= 3 /\ Len(one) >= 3 /\ Len(two) >= 3
    BY <1>1, <1>2
  <1> QED
    BY <1>10, <1>11, CountedEdges DEF one, two

\* A point of the whole is inside exactly one tile, any other one is inside
\* none.
LEMMA TilesExact ==
  ASSUME NEW pt, IsPoint(pt)
  PROVE  /\ \A v, x \in Tiles :
              PointInPolygon(v.poly, pt) /\ PointInPolygon(x.poly, pt) => v = x
         /\ \A v \in Tiles : PointInPolygon(v.poly, pt) => PointInPolygon(Whole.poly, pt)
         /\ PointInPolygon(Whole.poly, pt) => \E v \in Tiles : PointInPolygon(v.poly, pt)
         /\ \A v \in Tiles : v.floor = Whole.floor /\ v.ceiling = Whole.ceiling
  <1> DEFINE poly == Whole.poly
             n == Len(poly)
             S == {poly[i] : i \in DOMAIN poly}
             C(i) == poly[i]
  <1>1. /\ Whole \in [poly : {poly}, floor : Int, ceiling : Int, cap : Int]
        /\ poly \in Seq(S)
        /\ \A i \in DOMAIN poly : IsPoint(poly[i])
    BY VolumesAssumption DEF IsPoint
  <1>2. IsOutline(poly)
    <2>1. Len(poly) \in Nat /\ DOMAIN poly = 1 .. Len(poly)
      BY <1>1
    <2> QED
      BY <1>1, <2>1 DEF IsOutline
  <1>3. PICK m \in 3 .. n - 1 :
          /\ poly[1].x # poly[m].x \/ poly[1].y # poly[m].y
          /\ Tiles = {[Whole EXCEPT !.poly = FirstPart(poly, m)],
                      [Whole EXCEPT !.poly = SecondPart(poly, m)]}
          /\ \/ /\ \A i \in 1 .. m : Side(poly[1], poly[m], poly[i]) >= 0
                /\ \A i \in m .. n : Side(poly[1], poly[m], poly[i]) <= 0
             \/ /\ \A i \in 1 .. m : Side(poly[1], poly[m], poly[i]) <= 0
                /\ \A i \in m .. n : Side(poly[1], poly[m], poly[i]) >= 0
    <2>1. PICK m \in 3 .. n - 1 :
            LET side == [i \in 1 .. n |-> Side(poly[1], poly[m], poly[i])]
            IN  /\ poly[1].x # poly[m].x \/ poly[1].y # poly[m].y
                /\ Tiles = {[Whole EXCEPT !.poly = SubSeq(poly, 1, m)],
                            [Whole EXCEPT !.poly = Append(SubSeq(poly, m, n), poly[1])]}
                /\ \/ (\A i \in 1 .. m : side[i] >= 0) /\ (\A i \in m .. n : side[i] <= 0)
                   \/ (\A i \in 1 .. m : side[i] <= 0) /\ (\A i \in m .. n : side[i] >= 0)
      BY TilesAssumption
    <2>2. (\A i \in 1 .. m : i \in 1 .. n) /\ (\A i \in m .. n : i \in 1 .. n)
      BY <1>2 DEF IsOutline
    <2> HIDE DEF poly, n
    <2> QED
      BY <2>1, <2>2 DEF FirstPart, SecondPart, n
  <1> DEFINE one == FirstPart(poly, m)
             two == SecondPart(poly, m)
             u == poly[1]
             w == poly[m]
  <1>4. /\ n \in Nat /\ 3 <= m /\ m <= n - 1 /\ m \in Nat
        /\ IsOutline(one) /\ IsOutline(two)
        /\ Len(one) = m /\ Len(two) = n - m + 2
        /\ \A i \in 1 .. m : one[i] = poly[i]
        /\ \A i \in 1 .. n - m + 2 :
             two[i] = IF i = n - m + 2 THEN poly[1] ELSE poly[m - 1 + i]
    <2>1. n \in Nat /\ 3 <= m /\ m <= n - 1 /\ m \in Nat
      BY <1>2 DEF IsOutline
    <2> HIDE DEF poly
    <2> QED
      BY <1>1, <1>2, <2>1, PartCorners
  <1>5. PointInPolygon(poly, pt) <=> PointInPolygon(one, pt) # PointInPolygon(two, pt)
    BY <1>1, <1>2, CutInTwo
  <1>6. IsPoint(u) /\ IsPoint(w) /\ Side(u, w, u) = 0
    <2>1. IsPoint(u) /\ IsPoint(w)
      <3>1. 1 \in 1 .. n /\ m \in 1 .. n
        BY <1>4
      <3> QED
        BY <1>2, <3>1 DEF IsOutline
    <2> HIDE DEF u, w
    <2>2. (u.x - u.x) * (w.y - u.y) - (w.x - u.x) * (u.y - u.y) = 0
      BY <2>1 DEF IsPoint
    <2> QED
      BY <2>1, <2>2 DEF Side
  <1> HIDE DEF poly, n, one, two, u, w
  <1>7. ~PointInPolygon(one, pt) \/ ~PointInPolygon(two, pt)
    <2>1. \A i \in 1 .. n - m + 2 : i # n - m + 2 => m - 1 + i \in m .. n
      BY <1>4
    <2>2. u.x # w.x \/ u.y # w.y
      BY <1>3 DEF u, w
    <2>3. CASE /\ \A i \in 1 .. m : Side(u, w, poly[i]) >= 0
               /\ \A i \in m .. n : Side(u, w, poly[i]) <= 0
      <3>1. \A i \in 1 .. Len(one) : Side(u, w, one[i]) >= 0
        BY <1>4, <2>3
      <3>2. \A i \in 1 .. Len(two) : Side(u, w, two[i]) <= 0
        BY <1>4, <1>6, <2>1, <2>3 DEF u
      <3> QED
        BY <1>4, <1>6, <2>2, <3>1, <3>2, Apart
    <2>4. CASE /\ \A i \in 1 .. m : Side(u, w, poly[i]) <= 0
               /\ \A i \in m .. n : Side(u, w, poly[i]) >= 0
      <3>1. \A i \in 1 .. Len(one) : Side(u, w, one[i]) <= 0
        BY <1>4, <2>4
      <3>2. \A i \in 1 .. Len(two) : Side(u, w, two[i]) >= 0
        BY <1>4, <1>6, <2>1, <2>4 DEF u
      <3> QED
        BY <1>4, <1>6, <2>2, <3>1, <3>2, Apart
    <2> QED
      BY <1>3, <2>3, <2>4 DEF u, w
  <1> DEFINE first == [Whole EXCEPT !.poly = one]
             second == [Whole EXCEPT !.poly = two]
  <1>8. /\ first.poly = one /\ second.poly = two
        /\ first.floor = Whole.floor /\ first.ceiling = Whole.ceiling
        /\ second.floor = Whole.floor /\ second.ceiling = Whole.ceiling
    BY <1>1
  <1>9. Tiles = {first, second}
    BY <1>3 DEF one, two
  <1> HIDE DEF first, second
  <1>10. \A v \in Tiles : v = first \/ v = second
    BY <1>9
  <1> DEFINE in == PointInPolygon(poly, pt)
             in1 == PointInPolygon(one, pt)
             in2 == PointInPolygon(two, pt)
  <1>11. (in <=> in1 # in2) /\ ~(in1 /\ in2)
    BY <1>5, <1>7
  <1> HIDE DEF in, in1, in2
  <1>12. /\ in1 \in BOOLEAN /\ in2 \in BOOLEAN
         /\ in <=> in1 \/ in2
    BY <1>11 DEF in1, in2, PointInPolygon
  <1>13. \A v \in Tiles :
           \/ v = first /\ v.poly = one /\ (PointInPolygon(v.poly, pt) <=> in1)
           \/ v = second /\ v.poly = two /\ (PointInPolygon(v.poly, pt) <=> in2)
    BY <1>8, <1>10 DEF in1, in2
  <1>14. \A v, x \in Tiles :
           PointInPolygon(v.poly, pt) /\ PointInPolygon(x.poly, pt) => v = x
    BY <1>11, <1>13
  <1>15. \A v \in Tiles : PointInPolygon(v.poly, pt) => in
    BY <1>12, <1>13
  <1>16. in => \E v \in Tiles : PointInPolygon(v.poly, pt)
    BY <1>8, <1>9, <1>12 DEF in1, in2
  <1>17. \A v \in Tiles : v.floor = Whole.floor /\ v.ceiling = Whole.ceiling
    BY <1>8, <1>10
  <1> QED
    BY <1>14, <1>15, <1>16, <1>17 DEF in, poly

\* At any time finitely many sectors are registered.
LEMMA SectorsFinite == Spec => []IsFiniteSet(Registered(sectors))
  <1> DEFINE Typed == sectors \in [SectorId -> Volumes \cup {None}]
             Inv == IsFiniteSet(Registered(sectors))
  <1>1. Init => Inv
    <2> SUFFICES ASSUME Init
                 PROVE  Inv
      OBVIOUS
    <2>1. Registered(sectors) = {}
      BY DEF Init, Registered
    <2> QED
      BY <2>1, FS_EmptySet
  <1>2. Typed /\ Inv /\ [Next]_vars => Inv'
    <2> SUFFICES ASSUME Typed, Inv, [Next]_vars
                 PROVE  Inv'
      OBVIOUS
    <2>1. CASE \E s \in SectorId, volume \in Volumes : AddSector(s, volume)
      <3>1. PICK s \in SectorId, volume \in Volumes : AddSector(s, volume)
        BY <2>1
      <3>2. Registered(sectors)' = Registered(sectors) \cup {s}
        BY <3>1, VolumesAssumption DEF AddSector, Registered
      <3> QED
        BY <3>2, FS_AddElement
    <2>2. CASE sectors' = sectors
      BY <2>2 DEF Registered
    <2> QED
      BY <2>1, <2>2 DEF Next, AddWaypoint, AddAirway, vars
  <1> QED
    BY <1>1, <1>2, SectorsTyped, PTL DEF Spec

\* Sectors that tile a volume, of any number of corners and cut along any line
\* that has its parts on either side, leave no gap and no overlap
\* (Airspace.SectorForPosition, pointInPolygon).
THEOREM TilesAreUnambiguous == Spec => []TilingUnambiguous
  <1>1. ASSUME sectors \in [SectorId -> Volumes \cup {None}], IsFiniteSet(Registered(sectors))
        PROVE  TilingUnambiguous
    <2> DEFINE R == Registered(sectors)
    <2> SUFFICES ASSUME InUse \subseteq Tiles, Cardinality(InUse) = Cardinality(R),
                        NEW pt \in Points,
                        NEW found, found = SectorForPosition(pt.pos, pt.fl)
                 PROVE  /\ Cardinality(found) <= 1
                        /\ found # {} => InsideSector(Whole, pt.pos, pt.fl)
                        /\ InsideSector(Whole, pt.pos, pt.fl) /\ InUse = Tiles => found # {}
      BY DEF TilingUnambiguous
    <2>1. IsPoint(pt.pos)
      BY VolumesAssumption DEF IsPoint
    <2>2. found = {s \in R : InsideSector(sectors[s], pt.pos, pt.fl)}
      BY DEF SectorForPosition, SectorsFor
    <2>3. \A s \in R : sectors[s] \in InUse
      BY DEF InUse
    <2>4. \A s, t \in R : sectors[s] = sectors[t] => s = t
      <3> DEFINE f == [s \in R |-> sectors[s]]
      <3>1. f \in [R -> InUse] /\ \A v \in InUse : \E s \in R : f[s] = v
        BY DEF InUse
      <3> HIDE DEF R, f
      <3>2. f \in Surjection(R, InUse)
        BY <3>1, Fun_IsSurj
      <3>3. IsFiniteSet(R)
        BY <1>1 DEF R
      <3>4. f \in Injection(R, InUse)
        BY <3>2, <3>3, FS_SurjSameCardinalityImpliesInj
      <3>5. \A s, t \in R : f[s] = f[t] => s = t
        BY <3>4, Fun_InjectionProperties
      <3> QED
        BY <3>5 DEF f
    <2>5. \A v \in Tiles :
            InsideSector(v, pt.pos, pt.fl) <=>
              InBand(Whole, pt.pos, pt.fl) /\ PointInPolygon(v.poly, pt.pos)
      BY <2>1, TilesExact DEF InsideSector, InBand
    <2>6. \A s, t \in found : s = t
      BY <2>1, <2>2, <2>3, <2>4, <2>5, TilesExact
    <2>7. Cardinality(found) <= 1
      <3>1. CASE found = {}
        BY <3>1, FS_EmptySet
      <3>2. CASE found # {}
        <4>1. PICK s \in found : TRUE
          BY <3>2
        <4>2. found = {s}
          BY <2>6, <4>1
        <4>3. Cardinality({s}) = 1
          BY FS_Singleton
        <4> QED
          BY <4>2, <4>3
      <3> QED
        BY <3>1, <3>2
    <2>8. ASSUME found # {}
          PROVE  InsideSector(Whole, pt.pos, pt.fl)
      <3>1. PICK s \in found : TRUE
        BY <2>8
      <3>2. sectors[s] \in Tiles /\ InsideSector(sectors[s], pt.pos, pt.fl)
        BY <2>2, <2>3, <3>1
      <3> QED
        BY <2>1, <2>5, <3>2, TilesExact DEF InsideSector
    <2>9. ASSUME InsideSector(Whole, pt.pos, pt.fl), InUse = Tiles
          PROVE  found # {}
      <3>1. PICK v \in Tiles : PointInPolygon(v.poly, pt.pos)
        BY <2>1, <2>9, TilesExact DEF InsideSector
      <3>2. InsideSector(v, pt.pos, pt.fl)
        BY <2>5, <2>9, <3>1 DEF InsideSector
      <3>3. PICK s \in R : sectors[s] = v
        BY <2>9 DEF InUse
      <3> QED
        BY <2>2, <3>2, <3>3
    <2> QED
      BY <2>7, <2>8, <2>9
  <1> QED
    BY <1>1, SectorsTyped, SectorsFinite, PTL
=============================================================================
