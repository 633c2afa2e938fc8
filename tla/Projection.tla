----------------------------- MODULE Projection -----------------------------
(***************************************************************************)
(* Linear projection of track reports: the half of package trajectory that *)
(* the conflict probe uses, on a flat grid.                                *)
(*                                                                         *)
(* The sphere is abstracted to a plane with x to the east and y to the     *)
(* north and a unit of 1/300 nm, so that a knot is one unit in twelve      *)
(* seconds.  Headings are multiples of 90 degrees, not reduced to          *)
(* [0, 360), since nothing in the code reduces them.                       *)
(***************************************************************************)
EXTENDS Grid

Travel(gs, dt) == (gs * dt) \div 12

\* math.Round: halves go away from zero.
RoundDiv(n, d) == IF n < 0 THEN -((-2 * n + d) \div (2 * d)) ELSE (2 * n + d) \div (2 * d)

East(h) == CASE h % 360 = 90 -> 1 [] h % 360 = 270 -> -1 [] OTHER -> 0
North(h) == CASE h % 360 = 0 -> 1 [] h % 360 = 180 -> -1 [] OTHER -> 0

Shift(pos, h, d) == [x |-> pos.x + d * East(h), y |-> pos.y + d * North(h)]

(* The bearing from p to q as a vector.  atan2(0, 0) is 0, which is north: *)
(* the bearing between coincident points is that of the pole.              *)
InitialBearing(p, q) ==
  IF p = q THEN [x |-> 0, y |-> 1] ELSE [x |-> q.x - p.x, y |-> q.y - p.y]

\* absHeadingDiff(h, bearing) < 25 for a bearing given as a vector.
Within25(h, v) ==
  LET ahead == v.x * East(h) + v.y * North(h)
      side  == v.x * North(h) - v.y * East(h)
  IN  /\ ahead > 0
      /\ Abs(side) * 100000 < ahead * 46631

-----------------------------------------------------------------------------
(* ProjectFromTrack.  A level is 100 ft, a vertical rate is in ft/min.     *)

ProjectedFL(fl, vr, dt) ==
  LET out == fl + RoundDiv(vr * dt, 6000) IN IF out < 0 THEN 0 ELSE out

ProjectFromTrack(tr, dt) ==
  [pos |-> Shift(tr.pos, tr.hdg, Travel(tr.gs, dt)),
   fl |-> ProjectedFL(tr.fl, tr.vr, dt)]
=============================================================================
