----------------------------- MODULE Trajectory -----------------------------
(***************************************************************************)
(* Positions along a filed route: the other half of package trajectory, on *)
(* the grid of Projection.  Legs run along an axis, so that their length   *)
(* is a number of units.                                                   *)
(***************************************************************************)
EXTENDS Grid

CONSTANTS Inf, NaN      \* the floating-point numbers +Inf and NaN

ASSUME FloatAssumption ==
  /\ Inf # NaN
  /\ {Inf, NaN} \cap Int = {}
  /\ NaN \notin [x : Int, y : Int]
  /\ NaN \notin [n : Int, d : Int]

-----------------------------------------------------------------------------
(* PositionAtTime.  A route is [cruise, legs]; a leg is a node [pos, fl,   *)
(* speed] where speed stands for Mach * KnotsPerMach, in knots, and every  *)
(* leg takes a whole number of seconds.  The cruise speed is not negative. *)
(* As in floating point, a leg that is flown at no speed takes +Inf, and   *)
(* NaN when it has no length either.                                       *)

LastLeg(r) == Len(r.legs) - 1

Speed(r, i) == IF r.legs[i].speed > 0 THEN r.legs[i].speed ELSE r.cruise

LegLength(r, i) == AxisDistance(r.legs[i].pos, r.legs[i + 1].pos)

LegSec(r, i) ==
  CASE Speed(r, i) > 0                           -> (LegLength(r, i) * 12) \div Speed(r, i)
    [] Speed(r, i) = 0 /\ LegLength(r, i) > 0    -> Inf
    [] OTHER                                     -> NaN

\* rem <= legSec, which is false when either is NaN.
Reaches(rem, sec) ==
  /\ NaN \notin {rem, sec}
  /\ sec = Inf \/ rem <= sec

\* The seconds that the legs before leg i take.
SecondsBefore(r, i) ==
  LET sum[k \in 0 .. i - 1] == IF k = 0 THEN 0 ELSE sum[k - 1] + LegSec(r, k)
  IN  sum[i - 1]

\* Leg times are counted from the start of the route.
RemainingFromStart(r, t, i) == t

\* The seconds left at the node where leg i starts.
Remaining(r, t, i) ==
  IF \E m \in 1 .. i - 1 : LegSec(r, m) = NaN THEN NaN ELSE t - SecondsBefore(r, i)

\* The loop stops at leg i: the first that is not over, or the last.
StopsAt(r, t, i) ==
  /\ \A m \in 1 .. i - 1 : ~ Reaches(Remaining(r, t, m), LegSec(r, m))
  /\ i = LastLeg(r) \/ Reaches(Remaining(r, t, i), LegSec(r, i))

\* f = rem / legSec as a fraction, clamped to 1; 0 when legSec > 0 fails.
Clamp(rem, sec) == IF rem > sec THEN [n |-> 1, d |-> 1] ELSE [n |-> rem, d |-> sec]

LegFraction(rem, sec) ==
  CASE sec = NaN \/ sec = 0 -> [n |-> 0, d |-> 1]
    [] sec = Inf /\ rem # NaN -> [n |-> 0, d |-> 1]
    [] rem = NaN -> NaN
    [] OTHER -> Clamp(rem, sec)

\* NaN unless the leg has no length, in which case Interpolate returns a.
Interpolate(a, b, f) ==
  CASE a = b -> a
    [] a # b /\ f = NaN -> NaN
    [] OTHER -> [x |-> a.x + ((b.x - a.x) * f.n) \div f.d,
                 y |-> a.y + ((b.y - a.y) * f.n) \div f.d]

\* The level of the last node counts only when its leg has been flown.
PositionOn(r, i, f) ==
  [pos |-> Interpolate(r.legs[i].pos, r.legs[i + 1].pos, f),
   fl  |-> IF i = LastLeg(r) /\ f # NaN /\ f.n = f.d
           THEN r.legs[i + 1].fl ELSE r.legs[i].fl,
   leg |-> i - 1]

PositionAtTime(r, t) ==
  CASE Len(r.legs) = 0 -> [pos |-> [x |-> 0, y |-> 0], fl |-> 0, leg |-> 0]
    [] Len(r.legs) = 1 -> [pos |-> r.legs[1].pos, fl |-> r.legs[1].fl, leg |-> 0]
    [] OTHER ->
         CHOOSE p \in {PositionOn(r, i, LegFraction(Remaining(r, t, i), LegSec(r, i))) :
                         i \in {k \in 1 .. LastLeg(r) : StopsAt(r, t, k)}} : TRUE
=============================================================================
