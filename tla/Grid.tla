-------------------------------- MODULE Grid --------------------------------
(***************************************************************************)
(* Distances in the plane that stands for the sphere.  HaversineNM is a    *)
(* square where it is compared with a minimum or a maximum, and a sum      *)
(* along the axes where legs run along them.                               *)
(***************************************************************************)
EXTENDS Integers, Sequences

Abs(n) == IF n < 0 THEN -n ELSE n

Distance2(p, q) == (p.x - q.x) * (p.x - q.x) + (p.y - q.y) * (p.y - q.y)

AxisDistance(p, q) == Abs(p.x - q.x) + Abs(p.y - q.y)
=============================================================================
