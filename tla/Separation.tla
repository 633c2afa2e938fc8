----------------------------- MODULE Separation -----------------------------
(***************************************************************************)
(* The conflict probe: package separation.  A track state is               *)
(* [id, pos, fl, hdg, gs, vr].                                             *)
(***************************************************************************)
EXTENDS Projection

CONSTANTS
  ProberStep,        \* Prober.StepSec
  ProberLookahead,   \* Prober.LookaheadSec
  None               \* no conflict, no breach

ASSUME ProberAssumption ==
  /\ ProberStep \in Int
  /\ ProberLookahead \in Int
  /\ None \notin Int

\* Seconds; the defaults stand in for what is not positive.
StepSec == IF ProberStep <= 0 THEN 12 ELSE ProberStep
LookaheadSec == IF ProberLookahead <= 0 THEN 900 ELSE ProberLookahead

LateralMin == 1500       \* 5 nm

VerticalMinFt(flA, flB) == IF flA <= 410 /\ flB <= 410 THEN 1000 ELSE 2000

absFL(a, b) == Abs(a - b) * 100

-----------------------------------------------------------------------------
(* Deviations, each one a plausible slip in the code.                      *)

\* Whether b moves towards a is forgotten.
ClosesVerticallyOneSided(a, b) ==
  \/ a.fl < b.fl /\ a.vr > 0
  \/ a.fl > b.fl /\ a.vr < 0

\* The bearing from a to b is used for both flights.
IsOppositeOneBearing(a, b) ==
  LET brgAB == InitialBearing(a.pos, b.pos)
  IN  Within25(a.hdg, brgAB) /\ Within25(b.hdg, brgAB)

\* The window is open at its end, or the step twice as long.
SamplesOpen == {t \in 0 .. LookaheadSec - 1 : t % StepSec = 0}
SamplesHalf == {t \in 0 .. LookaheadSec : t % (2 * StepSec) = 0}

-----------------------------------------------------------------------------
(* The labels.                                                             *)

absHeadingDiff(h, g) ==
  LET d == Abs(h - g) % 360 IN IF d > 180 THEN 360 - d ELSE d

isOpposite(a, b) ==
  LET brgAB == InitialBearing(a.pos, b.pos)
      brgBA == InitialBearing(b.pos, a.pos)
  IN  Within25(a.hdg, brgAB) /\ Within25(b.hdg, brgBA)

closesVertically(a, b) ==
  \/ a.fl < b.fl /\ (a.vr > 0 \/ b.vr < 0)
  \/ a.fl > b.fl /\ (a.vr < 0 \/ b.vr > 0)

classify(a, b) ==
  CASE isOpposite(a, b) -> "OPPOSITE"
    [] ~ isOpposite(a, b) /\ absHeadingDiff(a.hdg, b.hdg) >= 15 -> "CROSSING"
    [] OTHER ->
         CASE Abs(a.gs - b.gs) >= 50 -> "OVERTAKING"
           [] Abs(a.gs - b.gs) < 50 /\ closesVertically(a, b) -> "VERTICAL"
           [] OTHER -> "SAME_DIR"

-----------------------------------------------------------------------------
(* detectPair.                                                             *)

Lateral2(a, b, t) ==
  Distance2(ProjectFromTrack(a, t).pos, ProjectFromTrack(b, t).pos)

Vertical(a, b, t) ==
  absFL(ProjectFromTrack(a, t).fl, ProjectFromTrack(b, t).fl)

Lost(a, b, t, vmin) ==
  Lateral2(a, b, t) < LateralMin * LateralMin /\ Vertical(a, b, t) < vmin

Samples == {t \in 0 .. LookaheadSec : t % StepSec = 0}

SmallestOf(S) == CHOOSE m \in S : \A n \in S : m <= n

(* The conflict of a pair, or None.  The loop keeps the first sample at    *)
(* which both minima are lost, and the smallest distances over those       *)
(* samples.  The vertical minimum is that of the levels before projection. *)
ConflictOver(a, b, lost) ==
  IF lost = {} THEN None
  ELSE [a |-> a.id, b |-> b.id, type |-> classify(a, b),
        ts   |-> SmallestOf(lost),
        lat2 |-> SmallestOf({Lateral2(a, b, t) : t \in lost}),
        vert |-> SmallestOf({Vertical(a, b, t) : t \in lost})]

detectPair(a, b) ==
  ConflictOver(a, b, {t \in Samples : Lost(a, b, t, VerticalMinFt(a.fl, b.fl))})
=============================================================================
