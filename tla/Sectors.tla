------------------------------- MODULE Sectors -------------------------------
(***************************************************************************)
(* Sector volumes: the pure geometry of package airspace.  A point is a    *)
(* pair [x, y] of longitude and latitude in some unit of the grid; a       *)
(* sector is [poly, floor, ceiling, cap], poly the sequence of vertices.   *)
(***************************************************************************)
EXTENDS Grid, FiniteSets

-----------------------------------------------------------------------------
(* Deviations, each one a plausible slip in the code.                      *)

\* The test of the latitudes is closed, so that a vertex counts twice.
SpansClosed(p, q, pt) == (p.y >= pt.y) # (q.y > pt.y)

\* The polygon is not closed.
BeforeOpen(poly, i) == IF i = 1 THEN 1 ELSE i - 1

-----------------------------------------------------------------------------
\* The edge from p to q crosses the latitude of pt.
Spans(p, q, pt) == (p.y > pt.y) # (q.y > pt.y)

\* pt lies to the west of where the line from p to q has its latitude.  The
\* code divides by q.y - p.y; the products say the same without rounding.
WestOf(p, q, pt) ==
  LET lhs == (pt.x - p.x) * (q.y - p.y)
      rhs == (q.x - p.x) * (pt.y - p.y)
  IN  IF q.y > p.y THEN lhs < rhs ELSE lhs > rhs

\* The vertex before vertex i; the polygon is closed implicitly.
Before(poly, i) == IF i = 1 THEN Len(poly) ELSE i - 1

\* Ray casting: an odd number of edges lies to the east of the point.
PointInPolygon(poly, pt) ==
  /\ Len(poly) >= 3
  /\ Cardinality({i \in 1 .. Len(poly) :
                    LET p == poly[i]
                        q == poly[Before(poly, i)]
                    IN  Spans(p, q, pt) /\ WestOf(p, q, pt)}) % 2 = 1

InBand(s, pt, fl) == s.floor <= fl /\ fl <= s.ceiling

InsideSector(s, pt, fl) == InBand(s, pt, fl) /\ PointInPolygon(s.poly, pt)

(* SectorForPosition returns the first sector in the order of a Go map     *)
(* that holds the position: any of this set, or "" when it is empty.       *)
SectorsFor(secs, pt, fl) ==
  {id \in DOMAIN secs : InsideSector(secs[id], pt, fl)}
=============================================================================
