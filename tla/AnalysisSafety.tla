--------------------------- MODULE AnalysisSafety ---------------------------
(***************************************************************************)
(* What the stateless packages promise, as properties of the calls of      *)
(* Analysis.  Between two samples of the code they look at every second.   *)
(***************************************************************************)
EXTENDS Analysis, FiniteSetsExt

(* What the inputs are: the flights of a picture, and those of the traffic  *)
(* in the air, are different flights; speeds, levels, steps and horizons    *)
(* are not negative; and a conflict is not the absence of one.              *)

TrackState(tr) ==
  tr \in [id : {tr.id}, pos : [x : Int, y : Int], fl : Nat, hdg : Int, gs : Nat, vr : Int]

ConflictOf(a, b) ==
  [a : {a.id}, b : {b.id}, ts : Nat, lat2 : Nat, vert : Nat,
   type : {"OPPOSITE", "CROSSING", "OVERTAKING", "VERTICAL", "SAME_DIR"}]

ASSUME PicturesAssumption ==
  \A p \in Pictures \cup {SelfCheckTracks} :
    /\ p \in Seq(Range(p))
    /\ \A n \in DOMAIN p : TrackState(p[n])
    /\ \A m, n \in DOMAIN p : p[m].id = p[n].id => m = n
    /\ \A m, n \in DOMAIN p : None \notin ConflictOf(p[m], p[n])

\* What keeps tracks on the grid: they fly a whole number of units in a second.
ASSUME SpeedsAssumption ==
  \A p \in Pictures \cup {SelfCheckTracks} : \A n \in DOMAIN p : p[n].gs % 12 = 0

ASSUME FlightsAssumption ==
  \A f \in Flights :
    f.step \in Nat /\ f.horizon \in Nat /\ f.route.legs \in Seq(Range(f.route.legs))

\* What keeps routes on the grid: legs run along an axis, take a whole number
\* of seconds, and are flown at a whole number of units in a second.
ASSUME RoutesAssumption ==
  \A r \in {f.route : f \in Flights} :
    /\ r.cruise \in Nat
    /\ \A i \in DOMAIN r.legs : r.legs[i].pos \in [x : Int, y : Int] /\ r.legs[i].speed \in Int
    /\ \A i \in 1 .. LastLeg(r) :
         /\ \/ r.legs[i].pos.x = r.legs[i + 1].pos.x
            \/ r.legs[i].pos.y = r.legs[i + 1].pos.y
         /\ Speed(r, i) % 12 = 0
         /\ Speed(r, i) > 0 => (LegLength(r, i) * 12) % Speed(r, i) = 0

ASSUME TrafficAssumption ==
  \A tr \in Traffic \cup {SelfCheckTraffic} :
    /\ tr.positions \in Seq(Range(tr.positions))
    /\ \A m, n \in DOMAIN tr.positions : tr.positions[m].plan = tr.positions[n].plan => m = n

ASSUME QueuesAssumption ==
  \A q \in Queues :
    /\ q.required \in Int
    /\ q.spacing \in Seq(Range(q.spacing))
    /\ \A n \in DOMAIN q.spacing : q.spacing[n].dist \in Int

-----------------------------------------------------------------------------
Pairs(tracks) == {p \in (1 .. Len(tracks)) \X (1 .. Len(tracks)) : p[1] < p[2]}

-----------------------------------------------------------------------------
(* The conflict probe.                                                     *)

DetectFinished == call.op = "Detect" /\ DetectDone

Reports(out, a, b) == {n \in DOMAIN out : out[n].a = a.id /\ out[n].b = b.id}

SampleTimes == {k * StepSec : k \in 0 .. LookaheadSec \div StepSec}

\* Samples at which the minima of the instant are lost: the levels are those
\* the flights will have by then.
LostThen(a, b) ==
  {t \in SampleTimes :
     LET pa == ProjectFromTrack(a, t)
         pb == ProjectFromTrack(b, t)
     IN  Lost(a, b, t, VerticalMinFt(pa.fl, pb.fl))}

Leaves410(tr, sign) ==
  \E t \in SampleTimes :
    (tr.fl <= 410) # (ProjectFromTrack(tr, t).fl <= 410) /\ tr.vr * sign > 0

\* A pair is reported once if some sample loses both minima of that instant,
\* with the smallest distances over these samples, and not at all otherwise.
\* The time reported is that of a sample that loses both, and warns in time:
\* it is no later than some sample at which the flights are closest.  (The
\* code takes the first such sample, model.Conflict the closest approach.)
\* The levels of the reports stand in for those of the instant: so a pair may
\* be reported too often while a flight descends through FL410, and missed
\* while one climbs through it.
ProbeExact ==
  DetectFinished =>
    \A p \in Pairs(call.tracks) :
      LET a    == call.tracks[p[1]]
          b    == call.tracks[p[2]]
          lost == LostThen(a, b)
          rep  == Reports(call.out, a, b)
          up   == Leaves410(a, 1) \/ Leaves410(b, 1)
          down == Leaves410(a, -1) \/ Leaves410(b, -1)
      IN  /\ Cardinality(rep) <= 1
          /\ lost # {} /\ ~ up => rep # {}
          /\ lost = {} /\ ~ down => rep = {}
          /\ ~ up /\ ~ down => \A n \in rep :
               /\ call.out[n].ts \in lost
               /\ \E t \in lost :
                    call.out[n].ts <= t /\ Lateral2(a, b, t) = call.out[n].lat2
               /\ call.out[n].lat2 = Min({Lateral2(a, b, t) : t \in lost})
               /\ call.out[n].vert = Min({Vertical(a, b, t) : t \in lost})

Swapped(c) == IF c = None THEN None ELSE [c EXCEPT !.a = c.b, !.b = c.a]

\* The order in which the reports of two flights are listed (text order of
\* plan ids) has no influence on verdict, times, distances and label: all the
\* one-sided cases of classify and closesVertically come in pairs.
OrderBlind ==
  DetectFinished =>
    \A p \in Pairs(call.tracks) :
      LET a == call.tracks[p[1]]
          b == call.tracks[p[2]]
      IN  detectPair(b, a) = Swapped(detectPair(a, b))

\* How much the sampling can miss: a pass inside the minimum is over within
\* one step only if it grazes the minimum.  Two level flights that are,
\* at any instant of the window, closer to each other than the leg of a right
\* triangle whose hypotenuse is the minimum and whose other leg is half of
\* what they travel relative to each other in one step, rounded up to a unit,
\* are reported.  At 480 kt each, head-on, that is 4.7 nm.
CloseEncountersFound ==
  DetectFinished =>
    \A p \in Pairs(call.tracks) :
      LET a == call.tracks[p[1]]
          b == call.tracks[p[2]]
          half == (Travel(a.gs + b.gs, StepSec) + 1) \div 2
      IN  /\ a.vr = 0 /\ b.vr = 0
          /\ absFL(a.fl, b.fl) < VerticalMinFt(a.fl, b.fl)
          /\ \E t \in 0 .. Max(SampleTimes) :
               Lateral2(a, b, t) < LateralMin * LateralMin - half * half
          => Reports(call.out, a, b) # {}

\* A pair labelled OPPOSITE is head-on: unless the flights are in one place,
\* where the bearing between them means nothing, the distance between them is
\* shrinking.
OppositeCloses ==
  DetectFinished =>
    \A n \in DOMAIN call.out : \A p \in Pairs(call.tracks) :
      LET a  == call.tracks[p[1]]
          b  == call.tracks[p[2]]
          da == ProjectFromTrack(a, 12).pos
          db == ProjectFromTrack(b, 12).pos
          vx == (db.x - b.pos.x) - (da.x - a.pos.x)
          vy == (db.y - b.pos.y) - (da.y - a.pos.y)
      IN  /\ n \in Reports(call.out, a, b)
          /\ call.out[n].type = "OPPOSITE"
          /\ a.pos # b.pos
          /\ a.gs + b.gs > 0
          => (b.pos.x - a.pos.x) * vx + (b.pos.y - a.pos.y) * vy < 0

-----------------------------------------------------------------------------
(* Positions along a route.                                                *)

\* Where a flight is and when agree: the seconds to fly from the start to the
\* position, leg by leg, are those that have passed, or those of the whole
\* route once it has been flown.  In particular the position is always
\* defined and never jumps at a waypoint.
OnSchedule ==
  call.op = "Predict" =>
    LET r == call.flight.route
        p == PositionAtTime(r, call.t)
        i == p.leg + 1
    IN  r.cruise > 0 /\ Len(r.legs) >= 2 =>
          /\ p.pos # NaN
          /\ SecondsBefore(r, i)
               + (AxisDistance(r.legs[i].pos, p.pos) * 12) \div Speed(r, i)
             = Min({call.t, SecondsBefore(r, Len(r.legs))})

PredictFinished == call.op = "Predict" /\ PredictDone

InsideAt(f, t) == Inside(f.volume, PositionAtTime(f.route, t))

\* The entry that is reported is a sample at which the flight is inside, no
\* sample before it is, and it is late by one step at most: a flight that
\* stays inside for a whole step within the horizon is noticed by its end.
EntryExact ==
  PredictFinished =>
    LET f == call.flight
        e == call.entry
    IN  \A times \in {{t \in 0 .. f.horizon : InsideAt(f, t)}} :
          /\ e # None => /\ e \in times
                         /\ \A t \in times : t < e => t % f.step # 0
          /\ f.route.legs # <<>> =>
               \A t \in 0 .. f.horizon - f.step :
                 t .. t + f.step \subseteq times => e # None /\ e <= t + f.step

-----------------------------------------------------------------------------
(* The monitors of sectors and spacing.                                    *)

OccupancyFinished == call.op = "Occupancy" /\ OccupancyDone

FlightsOf(plans) == {plans[n] : n \in DOMAIN plans}

InsideOf(s) ==
  {call.given[n].plan : n \in {m \in DOMAIN call.given :
      InsideSector(call.air[s], call.given[m].pos, call.given[m].fl)}}

\* Whatever the order of the maps, each declared sector is listed once, with
\* flights that are inside it and their number; no flight that is inside some
\* sector is left out, and one that is inside one sector only is counted there,
\* once.  In which of several sectors that overlap or share a level a flight is
\* counted is left open: the code counts it in any one of them, the comment on
\* Occupancy in each.
FlightsCounted ==
  OccupancyFinished =>
    /\ \A s \in DOMAIN call.air : Cardinality({n \in DOMAIN call.out : call.out[n].sector = s}) = 1
    /\ \A n \in DOMAIN call.out :
         LET flights == FlightsOf(call.out[n].plans)
         IN  flights \subseteq InsideOf(call.out[n].sector)
             /\ call.out[n].count = Cardinality(flights)
    /\ \A s \in DOMAIN call.air : \A f \in InsideOf(s) :
         \E n \in DOMAIN call.out : f \in FlightsOf(call.out[n].plans)

\* When no flight is inside two sectors, each declared sector is listed with
\* all flights inside it, and the alert is raised if and only if they are
\* more than its capacity; so the smoke test, which waits for an alert and
\* then for a conflict, passes.
AlertExact ==
  /\ OccupancyFinished
     /\ (\A s, u \in DOMAIN call.air : s # u => InsideOf(s) \cap InsideOf(u) = {})
     => \A s \in DOMAIN call.air : \E n \in DOMAIN call.out :
          /\ call.out[n].sector = s
          /\ call.out[n].count = Cardinality(InsideOf(s))
          /\ call.out[n].alert <=> Cardinality(InsideOf(s)) > call.air[s].cap
  /\ call.op = "SelfCheck" => call.passed

TrailFinished == call.op = "Trail" /\ TrailDone

\* Comparing neighbours is enough: when nothing is reported, any two flights
\* of the list, not just neighbours, are apart by the required distance for
\* each place between them; and what is reported is too close.
TrailSafe ==
  TrailFinished /\ call.queue.required > 0 =>
    LET q == call.queue.spacing
    IN  /\ call.out = <<>> =>
             \A i, j \in DOMAIN q :
               i < j => q[i].dist - q[j].dist >= (j - i) * call.queue.required
        /\ \A n \in DOMAIN call.out : \E i \in 1 .. Len(q) - 1 :
             /\ call.out[n] = <<q[i].plan, q[i + 1].plan>>
             /\ q[i].dist - q[i + 1].dist < call.queue.required

-----------------------------------------------------------------------------
\* Every call returns, except a sector entry that is sampled at a step of
\* zero: PredictSectorEntry has no default for its step, as the probe has.
CallsReturn ==
  (call.op = "Predict" => call.flight.step > 0) ~> call.op = "Idle"
=============================================================================
