--------------------------- MODULE AnalysisProofs ---------------------------
(***************************************************************************)
(* Theorems about the calls of the stateless packages, for any pictures,   *)
(* flights, traffic and queues that the assumptions allow.                 *)
(***************************************************************************)
EXTENDS AnalysisSafety, FiniteSetTheorems, WellFoundedInduction, TLAPS

-----------------------------------------------------------------------------
(* The frame of a call.                                                    *)

DetectShape(c) ==
  \E caller, tracks, i, j, out :
    c = [op |-> "Detect", caller |-> caller, tracks |-> tracks, i |-> i, j |-> j, out |-> out]

PredictShape(c) ==
  \E caller, flight, t, entry :
    c = [op |-> "Predict", caller |-> caller, flight |-> flight, t |-> t, entry |-> entry]

OccupancyShape(c) ==
  \E caller, air, todo, plans, left, out, given :
    c = [op |-> "Occupancy", caller |-> caller, air |-> air, todo |-> todo,
         plans |-> plans, left |-> left, out |-> out, given |-> given]

TrailShape(c) ==
  \E caller, queue, i, out :
    c = [op |-> "Trail", caller |-> caller, queue |-> queue, i |-> i, out |-> out]

SelfCheckShape(c) ==
  \E caller, passed : c = [op |-> "SelfCheck", caller |-> caller, passed |-> passed]

Shape(c) ==
  \/ c = Idle \/ DetectShape(c) \/ PredictShape(c) \/ OccupancyShape(c) \/ TrailShape(c)
  \/ SelfCheckShape(c)

\* The operation tells the fields of the frame.
LEMMA Shapes ==
  ASSUME NEW c, Shape(c)
  PROVE  /\ c.op = "Idle" => c = Idle
         /\ c.op = "Detect" => DetectShape(c)
         /\ c.op = "Predict" => PredictShape(c)
         /\ c.op = "Occupancy" => OccupancyShape(c)
         /\ c.op = "Trail" => TrailShape(c)
         /\ c.op = "SelfCheck" => SelfCheckShape(c)
         /\ c.op \in {"Idle", "Detect", "Predict", "Occupancy", "Trail", "SelfCheck"}
  <1>1. Idle.op = "Idle"
    BY DEF Idle
  <1>2. DetectShape(c) => c.op = "Detect"
    BY DEF DetectShape
  <1>3. PredictShape(c) => c.op = "Predict"
    BY DEF PredictShape
  <1>4. OccupancyShape(c) => c.op = "Occupancy"
    BY DEF OccupancyShape
  <1>5. TrailShape(c) => c.op = "Trail"
    BY DEF TrailShape
  <1>6. SelfCheckShape(c) => c.op = "SelfCheck"
    BY DEF SelfCheckShape
  <1> QED
    BY <1>1, <1>2, <1>3, <1>4, <1>5, <1>6 DEF Shape

\* A call that begins has no result yet.
LEMMA FrameFields ==
  /\ \A tracks, caller :
       LET c == DetectFrame(tracks, caller)
       IN  /\ DetectShape(c) /\ c.op = "Detect" /\ c.caller = caller /\ c.tracks = tracks
           /\ c.i = 1 /\ c.j = 2 /\ c.out = <<>>
  /\ \A tr, caller :
       LET c == OccupancyFrame(tr, caller)
       IN  /\ OccupancyShape(c) /\ c.op = "Occupancy" /\ c.caller = caller /\ c.air = tr.air
           /\ c.todo = tr.positions /\ c.plans = [s \in DOMAIN tr.air |-> <<>>]
           /\ c.left = DOMAIN tr.air /\ c.out = <<>> /\ c.given = tr.positions
  /\ \A passed : LET c == SelfCheckResult(passed)
                  IN  SelfCheckShape(c) /\ c.op = "SelfCheck" /\ c.passed = passed
  BY DEF DetectFrame, DetectShape, OccupancyFrame, OccupancyShape, SelfCheckResult, SelfCheckShape

\* One pair is probed.
LEMMA ProbePairFields ==
  ASSUME Shape(call), ProbePair
  PROVE  LET a == call.tracks[call.i]
             b == call.tracks[call.j]
         IN  /\ call.op = "Detect" /\ ~DetectDone
             /\ DetectShape(call') /\ call'.op = "Detect" /\ call'.tracks = call.tracks
             /\ call'.caller = call.caller
             /\ call'.out = Found(call.out, detectPair(a, b))
             /\ call.j < Len(call.tracks) => call'.i = call.i /\ call'.j = call.j + 1
             /\ ~(call.j < Len(call.tracks)) => call'.i = call.i + 1 /\ call'.j = call.i + 2
  <1> DEFINE found == Found(call.out, detectPair(call.tracks[call.i], call.tracks[call.j]))
             next == IF call.j < Len(call.tracks)
                     THEN <<call.i, call.j + 1>> ELSE <<call.i + 1, call.i + 2>>
  <1>1. call.op = "Detect" /\ ~DetectDone
    BY DEF ProbePair
  <1>2. DetectShape(call)
    BY <1>1, Shapes
  <1>3. call' = [call EXCEPT !.i = next[1], !.j = next[2], !.out = found]
    BY DEF ProbePair
  <1>4. /\ call.j < Len(call.tracks) => next[1] = call.i /\ next[2] = call.j + 1
        /\ ~(call.j < Len(call.tracks)) => next[1] = call.i + 1 /\ next[2] = call.i + 2
    OBVIOUS
  <1> HIDE DEF found, next
  <1>5. /\ DetectShape(call') /\ call'.op = "Detect" /\ call'.tracks = call.tracks
        /\ call'.caller = call.caller
        /\ call'.i = next[1] /\ call'.j = next[2] /\ call'.out = found
    <2>1. PICK caller, tracks, i, j, out :
            call = [op |-> "Detect", caller |-> caller, tracks |-> tracks,
                    i |-> i, j |-> j, out |-> out]
      BY <1>2 DEF DetectShape
    <2>2. call' = [op |-> "Detect", caller |-> caller, tracks |-> tracks,
                   i |-> next[1], j |-> next[2], out |-> found]
      BY <1>3, <2>1
    <2> QED
      BY <2>1, <2>2 DEF DetectShape
  <1> QED
    BY <1>1, <1>4, <1>5 DEF found

\* One moment of a route is sampled.
LEMMA SampleRouteFields ==
  ASSUME Shape(call), SampleRoute
  PROVE  /\ call.op = "Predict" /\ ~PredictDone
         /\ PredictShape(call') /\ call'.op = "Predict" /\ call'.flight = call.flight
         /\ InsideAt(call.flight, call.t) => call'.entry = call.t /\ call'.t = call.t
         /\ ~InsideAt(call.flight, call.t) =>
              call'.entry = call.entry /\ call'.t = call.t + call.flight.step
  <1>1. call.op = "Predict" /\ ~PredictDone
    BY DEF SampleRoute
  <1>2. PredictShape(call)
    BY <1>1, Shapes
  <1>3. call' = IF InsideAt(call.flight, call.t)
                THEN [call EXCEPT !.entry = call.t]
                ELSE [call EXCEPT !.t = call.t + call.flight.step]
    BY DEF SampleRoute, InsideAt
  <1>4. PICK caller, flight, t, entry :
          call = [op |-> "Predict", caller |-> caller, flight |-> flight, t |-> t, entry |-> entry]
    BY <1>2 DEF PredictShape
  <1>5. CASE InsideAt(call.flight, call.t)
    <2>1. call' = [op |-> "Predict", caller |-> caller, flight |-> flight, t |-> t,
                   entry |-> call.t]
      BY <1>3, <1>4, <1>5
    <2> QED
      BY <1>1, <1>4, <1>5, <2>1 DEF PredictShape
  <1>6. CASE ~InsideAt(call.flight, call.t)
    <2> DEFINE later == call.t + call.flight.step
    <2>1. call' = [call EXCEPT !.t = later]
      BY <1>3, <1>6
    <2> HIDE DEF later
    <2>2. call' = [op |-> "Predict", caller |-> caller, flight |-> flight, t |-> later,
                   entry |-> entry]
      BY <1>4, <2>1
    <2>3. /\ PredictShape(call') /\ call'.op = "Predict" /\ call'.flight = call.flight
          /\ call'.entry = call.entry /\ call'.t = later
      BY <1>4, <2>2 DEF PredictShape
    <2> QED
      BY <1>1, <1>6, <2>3 DEF later
  <1> QED
    BY <1>5, <1>6

\* One flight is counted, in one of the sectors that it is in.
LEMMA CollectFields ==
  ASSUME Shape(call), Collect
  PROVE  LET p  == Head(call.todo)
             in == SectorsFor(call.air, p.pos, p.fl)
         IN  /\ call.op = "Occupancy" /\ call.todo # <<>>
             /\ OccupancyShape(call') /\ call'.op = "Occupancy" /\ call'.air = call.air
             /\ call'.todo = Tail(call.todo) /\ call'.left = call.left /\ call'.out = call.out
             /\ call'.given = call.given /\ call'.caller = call.caller
             /\ \/ in = {} /\ call'.plans = call.plans
                \/ \E s \in in :
                     call'.plans = [call.plans EXCEPT ![s] = Append(@, p.plan)]
  <1> DEFINE p == Head(call.todo)
             in == SectorsFor(call.air, p.pos, p.fl)
             fewer == Tail(call.todo)
             rest == [call EXCEPT !.todo = fewer]
  <1>1. call.op = "Occupancy" /\ call.todo # <<>>
    BY DEF Collect
  <1>2. OccupancyShape(call)
    BY <1>1, Shapes
  <1>3. \/ in = {} /\ call' = rest
        \/ \E s \in in : call' = [rest EXCEPT !.plans[s] = Append(@, p.plan)]
    BY DEF Collect
  <1> HIDE DEF p, in, fewer
  <1>4. /\ OccupancyShape(rest) /\ rest.op = "Occupancy" /\ rest.air = call.air
        /\ rest.todo = fewer /\ rest.left = call.left /\ rest.out = call.out
        /\ rest.given = call.given /\ rest.plans = call.plans /\ rest.caller = call.caller
    <2>1. PICK caller, air, todo, plans, left, out, given :
            call = [op |-> "Occupancy", caller |-> caller, air |-> air, todo |-> todo,
                    plans |-> plans, left |-> left, out |-> out, given |-> given]
      BY <1>2 DEF OccupancyShape
    <2>2. rest = [op |-> "Occupancy", caller |-> caller, air |-> air, todo |-> fewer,
                  plans |-> plans, left |-> left, out |-> out, given |-> given]
      BY <2>1
    <2> HIDE DEF rest
    <2> QED
      BY <2>1, <2>2 DEF OccupancyShape
  <1> HIDE DEF rest
  <1>5. ASSUME NEW s \in in, call' = [rest EXCEPT !.plans[s] = Append(@, p.plan)]
        PROVE  /\ OccupancyShape(call') /\ call'.op = "Occupancy" /\ call'.air = call.air
               /\ call'.todo = fewer /\ call'.left = call.left /\ call'.out = call.out
               /\ call'.given = call.given /\ call'.caller = call.caller
               /\ call'.plans = [call.plans EXCEPT ![s] = Append(@, p.plan)]
    <2> DEFINE more == [rest.plans EXCEPT ![s] = Append(@, p.plan)]
    <2>1. call' = [rest EXCEPT !.plans = more]
      BY <1>5
    <2>2. more = [call.plans EXCEPT ![s] = Append(@, p.plan)]
      BY <1>4
    <2> HIDE DEF more
    <2>3. PICK caller, air, todo, plans, left, out, given :
            rest = [op |-> "Occupancy", caller |-> caller, air |-> air, todo |-> todo,
                    plans |-> plans, left |-> left, out |-> out, given |-> given]
      BY <1>4 DEF OccupancyShape
    <2>4. call' = [op |-> "Occupancy", caller |-> caller, air |-> air, todo |-> todo,
                   plans |-> more, left |-> left, out |-> out, given |-> given]
      BY <2>1, <2>3
    <2> QED
      BY <1>4, <2>2, <2>3, <2>4 DEF OccupancyShape
  <1> QED
    BY <1>1, <1>3, <1>4, <1>5 DEF p, in, fewer

\* One sector is listed.
LEMMA ListSectorFields ==
  ASSUME Shape(call), ListSector
  PROVE  /\ call.op = "Occupancy" /\ call.todo = <<>>
         /\ OccupancyShape(call') /\ call'.op = "Occupancy" /\ call'.air = call.air
         /\ call'.todo = call.todo /\ call'.plans = call.plans /\ call'.given = call.given
         /\ call'.caller = call.caller
         /\ \E s \in call.left :
              /\ call'.left = call.left \ {s}
              /\ call'.out = Append(call.out, Load(s, call.plans[s], call.air[s].cap))
  <1>1. call.op = "Occupancy" /\ call.todo = <<>>
    BY DEF ListSector
  <1>2. OccupancyShape(call)
    BY <1>1, Shapes
  <1>3. PICK s \in call.left :
          call' = [call EXCEPT !.left = call.left \ {s},
                     !.out = Append(call.out, Load(s, call.plans[s], call.air[s].cap))]
    BY DEF ListSector
  <1> DEFINE more == Append(call.out, Load(s, call.plans[s], call.air[s].cap))
             left == call.left \ {s}
  <1>4. call' = [call EXCEPT !.left = left, !.out = more]
    BY <1>3
  <1> HIDE DEF more, left
  <1>5. /\ OccupancyShape(call') /\ call'.op = "Occupancy" /\ call'.air = call.air
        /\ call'.todo = call.todo /\ call'.plans = call.plans /\ call'.given = call.given
        /\ call'.caller = call.caller
        /\ call'.left = left /\ call'.out = more
    <2>1. PICK caller, air, todo, plans, old, out, given :
            call = [op |-> "Occupancy", caller |-> caller, air |-> air, todo |-> todo,
                    plans |-> plans, left |-> old, out |-> out, given |-> given]
      BY <1>2 DEF OccupancyShape
    <2>2. call' = [op |-> "Occupancy", caller |-> caller, air |-> air, todo |-> todo,
                   plans |-> plans, left |-> left, out |-> more, given |-> given]
      BY <1>4, <2>1
    <2> QED
      BY <2>1, <2>2 DEF OccupancyShape
  <1> QED
    BY <1>1, <1>5 DEF more, left

\* One gap is checked.
LEMMA CheckGapFields ==
  ASSUME Shape(call), CheckGap
  PROVE  LET lead  == call.queue.spacing[call.i]
             trail == call.queue.spacing[call.i + 1]
         IN  /\ call.op = "Trail" /\ ~TrailDone
             /\ TrailShape(call') /\ call'.op = "Trail" /\ call'.queue = call.queue
             /\ call'.i = call.i + 1
             /\ call'.out = IF TooClose(lead, trail, call.queue.required)
                            THEN Append(call.out, <<lead.plan, trail.plan>>) ELSE call.out
  <1> DEFINE lead  == call.queue.spacing[call.i]
             trail == call.queue.spacing[call.i + 1]
             more == IF TooClose(lead, trail, call.queue.required)
                     THEN Append(call.out, <<lead.plan, trail.plan>>) ELSE call.out
             next == call.i + 1
  <1>1. call.op = "Trail" /\ ~TrailDone
    BY DEF CheckGap
  <1>2. TrailShape(call)
    BY <1>1, Shapes
  <1>3. call' = [call EXCEPT !.i = next, !.out = more]
    BY DEF CheckGap
  <1> HIDE DEF more, next
  <1>4. /\ TrailShape(call') /\ call'.op = "Trail" /\ call'.queue = call.queue
        /\ call'.i = next /\ call'.out = more
    <2>1. PICK caller, queue, i, out :
            call = [op |-> "Trail", caller |-> caller, queue |-> queue, i |-> i, out |-> out]
      BY <1>2 DEF TrailShape
    <2>2. call' = [op |-> "Trail", caller |-> caller, queue |-> queue, i |-> next, out |-> more]
      BY <1>3, <2>1
    <2> QED
      BY <2>1, <2>2 DEF TrailShape
  <1> QED
    BY <1>1, <1>4 DEF more, next

\* Each step leaves a frame of the operation that runs: it begins one, goes on
\* with it, or ends it.
LEMMA NextShape ==
  ASSUME Shape(call), [Next]_call
  PROVE  /\ Shape(call')
         /\ \/ call' = call
            \/ call' = Idle
            \/ ProbePair \/ SampleRoute \/ Collect \/ ListSector \/ CheckGap
            \/ \E tracks \in Pictures \cup {SelfCheckTracks}, caller \in {"client", "selfcheck"} :
                 call' = DetectFrame(tracks, caller)
            \/ \E f \in Flights :
                 call' = [op |-> "Predict", caller |-> "client", flight |-> f,
                          t |-> 0, entry |-> None]
            \/ \E tr \in Traffic \cup {SelfCheckTraffic}, caller \in {"client", "selfcheck"} :
                 call' = OccupancyFrame(tr, caller)
            \/ \E q \in Queues :
                 call' = [op |-> "Trail", caller |-> "client", queue |-> q,
                          i |-> 1, out |-> <<>>]
            \/ \E passed : call' = SelfCheckResult(passed)
  <1>1. \/ call' = call
        \/ call' = Idle
        \/ ProbePair \/ SampleRoute \/ Collect \/ ListSector \/ CheckGap
        \/ \E tracks \in Pictures \cup {SelfCheckTracks}, caller \in {"client", "selfcheck"} :
             call' = DetectFrame(tracks, caller)
        \/ \E f \in Flights :
             call' = [op |-> "Predict", caller |-> "client", flight |-> f,
                      t |-> 0, entry |-> None]
        \/ \E tr \in Traffic \cup {SelfCheckTraffic}, caller \in {"client", "selfcheck"} :
             call' = OccupancyFrame(tr, caller)
        \/ \E q \in Queues :
             call' = [op |-> "Trail", caller |-> "client", queue |-> q,
                      i |-> 1, out |-> <<>>]
        \/ \E passed : call' = SelfCheckResult(passed)
    <2>1. CASE Begin
      BY <2>1 DEF Begin, Detect, PredictSectorEntry, Occupancy, MilesInTrailCheck, SelfCheck
    <2>2. CASE SelfCheckLoad
      BY <2>2 DEF SelfCheckLoad
    <2>3. CASE SelfCheckConflict
      BY <2>3 DEF SelfCheckConflict
    <2>4. CASE Return
      BY <2>4 DEF Return
    <2> QED
      BY <2>1, <2>2, <2>3, <2>4 DEF Next, Step
  <1>2. \A q : TrailShape([op |-> "Trail", caller |-> "client", queue |-> q,
                           i |-> 1, out |-> <<>>])
    BY DEF TrailShape
  <1>3. \A f : PredictShape([op |-> "Predict", caller |-> "client", flight |-> f,
                             t |-> 0, entry |-> None])
    BY DEF PredictShape
  <1>4. Shape(call')
    BY <1>1, <1>2, <1>3, FrameFields, ProbePairFields, SampleRouteFields, CollectFields,
       ListSectorFields, CheckGapFields DEF Shape
  <1> QED
    BY <1>1, <1>4

-----------------------------------------------------------------------------
(* Arithmetic.                                                             *)

\* Multiplication, one step at a time.
LEMMA OneMore ==
  ASSUME NEW m \in Int, NEW r \in Int
  PROVE  (m + 1) * r = m * r + r
  OBVIOUS

\* Division with remainder.
LEMMA Division ==
  ASSUME NEW n \in Nat, NEW d \in Nat, d > 0
  PROVE  /\ n \div d \in Nat /\ n % d \in Nat /\ n % d < d
         /\ n = (n \div d) * d + (n % d)
  OBVIOUS

\* Multiples of a step are ordered as their factors are.
LEMMA Multiples ==
  ASSUME NEW m \in Nat, NEW n \in Nat, NEW d \in Nat
  PROVE  /\ m * d \in Nat
         /\ m * d < n * d => m < n
         /\ m <= n => m * d <= n * d
  <1>1. m * d \in Nat /\ n * d \in Nat
    OBVIOUS
  <1>2. ASSUME m <= n
        PROVE  m * d <= n * d
    <2>1. n - m \in Nat /\ (n - m) * d \in Nat
      BY <1>2
    <2>2. n * d = m * d + (n - m) * d
      BY <2>1
    <2> QED
      BY <1>1, <2>1, <2>2
  <1>3. ASSUME n <= m
        PROVE  n * d <= m * d
    <2>1. m - n \in Nat /\ (m - n) * d \in Nat
      BY <1>3
    <2>2. m * d = n * d + (m - n) * d
      BY <2>1
    <2> QED
      BY <1>1, <2>1, <2>2
  <1> QED
    BY <1>1, <1>2, <1>3

-----------------------------------------------------------------------------
(* Miles in trail.                                                         *)

Gap(q, a, b) == q.spacing[a].dist - q.spacing[b].dist

PlansOf(q) == {q.spacing[n].plan : n \in DOMAIN q.spacing}

\* The list up to the place that was reached: either some gap was reported, or
\* any two flights are apart by the required distance for each place between
\* them.
TrailInv(c) ==
  c.op = "Trail" =>
    /\ c.queue \in Queues
    /\ c.i \in Nat /\ c.i >= 1
    /\ c.i = 1 \/ c.i <= Len(c.queue.spacing)
    /\ c.out \in Seq(PlansOf(c.queue) \X PlansOf(c.queue))
    /\ c.out = <<>> =>
         \A a, b \in 1 .. c.i :
           a < b => Gap(c.queue, a, b) >= (b - a) * c.queue.required
    /\ \A n \in DOMAIN c.out : \E k \in 1 .. Len(c.queue.spacing) - 1 :
         /\ c.out[n] = <<c.queue.spacing[k].plan, c.queue.spacing[k + 1].plan>>
         /\ Gap(c.queue, k, k + 1) < c.queue.required

\* A queue is a list of distances.
LEMMA QueueFields ==
  ASSUME NEW q \in Queues
  PROVE  /\ q.required \in Int /\ Len(q.spacing) \in Nat
         /\ DOMAIN q.spacing = 1 .. Len(q.spacing)
         /\ \A n \in 1 .. Len(q.spacing) : q.spacing[n].dist \in Int
         /\ \A n \in 1 .. Len(q.spacing) : q.spacing[n].plan \in PlansOf(q)
  BY QueuesAssumption DEF PlansOf

\* What is appended comes after what was there.
LEMMA Appended ==
  ASSUME NEW S, NEW s \in Seq(S), NEW x \in S
  PROVE  /\ Append(s, x) \in Seq(S) /\ Append(s, x) # <<>>
         /\ Len(Append(s, x)) = Len(s) + 1
         /\ DOMAIN Append(s, x) = DOMAIN s \cup {Len(s) + 1}
         /\ ~(Len(s) + 1 \in DOMAIN s)
         /\ Append(s, x)[Len(s) + 1] = x
         /\ \A n \in DOMAIN s : Append(s, x)[n] = s[n]
  OBVIOUS

\* A gap that is checked extends the list or is reported.
LEMMA CheckGapTrail ==
  ASSUME Shape(call), TrailInv(call), CheckGap
  PROVE  TrailInv(call')
  <1> DEFINE q == call.queue
             i == call.i
             pair == <<q.spacing[i].plan, q.spacing[i + 1].plan>>
             r == q.required
  <1>1. /\ call.op = "Trail" /\ ~TrailDone
        /\ call'.op = "Trail" /\ call'.queue = q /\ call'.i = i + 1
        /\ call'.out = IF TooClose(q.spacing[i], q.spacing[i + 1], r)
                       THEN Append(call.out, pair) ELSE call.out
    BY CheckGapFields
  <1>2. /\ q \in Queues /\ i \in Nat /\ i >= 1
        /\ call.out \in Seq(PlansOf(q) \X PlansOf(q))
        /\ call.out = <<>> => \A a, b \in 1 .. i : a < b => Gap(q, a, b) >= (b - a) * r
        /\ \A n \in DOMAIN call.out : \E k \in 1 .. Len(q.spacing) - 1 :
             /\ call.out[n] = <<q.spacing[k].plan, q.spacing[k + 1].plan>>
             /\ Gap(q, k, k + 1) < r
    BY <1>1 DEF TrailInv
  <1>3. /\ r \in Int /\ Len(q.spacing) \in Nat
        /\ \A n \in 1 .. Len(q.spacing) : q.spacing[n].dist \in Int
        /\ \A n \in 1 .. Len(q.spacing) : q.spacing[n].plan \in PlansOf(q)
    BY <1>2, QueueFields
  <1>4. i < Len(q.spacing)
    BY <1>1, <1>2, <1>3 DEF TrailDone
  <1>5. i \in 1 .. Len(q.spacing) - 1 /\ i + 1 \in 1 .. Len(q.spacing)
        /\ i \in 1 .. Len(q.spacing)
    BY <1>2, <1>3, <1>4
  <1>6. pair \in PlansOf(q) \X PlansOf(q)
    BY <1>3, <1>5
  <1>7. TooClose(q.spacing[i], q.spacing[i + 1], r) <=> Gap(q, i, i + 1) < r
    BY DEF TooClose, Gap
  <1> HIDE DEF q, i, pair
  <1>10. /\ i + 1 \in Nat /\ i + 1 >= 1 /\ i + 1 <= Len(q.spacing)
    BY <1>5
  <1>11. Gap(q, i, i + 1) \in Int
    BY <1>3, <1>5 DEF Gap
  <1>8. CASE TooClose(q.spacing[i], q.spacing[i + 1], r)
    <2>1. call'.out = Append(call.out, pair)
      BY <1>1, <1>8
    <2>2. /\ call'.out \in Seq(PlansOf(q) \X PlansOf(q)) /\ call'.out # <<>>
          /\ DOMAIN call'.out = DOMAIN call.out \cup {Len(call.out) + 1}
          /\ call'.out[Len(call.out) + 1] = pair
          /\ \A n \in DOMAIN call.out : call'.out[n] = call.out[n]
      BY <1>2, <1>6, <2>1, Appended
    <2>3. \A n \in DOMAIN call'.out : \E k \in 1 .. Len(q.spacing) - 1 :
             /\ call'.out[n] = <<q.spacing[k].plan, q.spacing[k + 1].plan>>
             /\ Gap(q, k, k + 1) < r
      BY <1>2, <1>5, <1>7, <1>8, <2>2 DEF pair
    <2> QED
      BY <1>1, <1>2, <1>4, <1>10, <2>2, <2>3 DEF TrailInv
  <1>9. CASE ~TooClose(q.spacing[i], q.spacing[i + 1], r)
    <2>1. call'.out = call.out
      BY <1>1, <1>9
    <2>2. ASSUME call.out = <<>>, NEW a \in 1 .. i + 1, NEW b \in 1 .. i + 1, a < b
          PROVE  Gap(q, a, b) >= (b - a) * r
      <3>1. CASE b <= i
        BY <1>2, <2>2, <3>1
      <3>2. CASE b = i + 1
        <4>1. Gap(q, i, i + 1) >= r
          BY <1>3, <1>7, <1>9, <1>11
        <4>2. CASE a = i
          <5>1. b - a = 1 /\ 1 * r = r
            BY <1>2, <1>3, <3>2, <4>2
          <5> QED
            BY <3>2, <4>1, <4>2, <5>1
        <4>3. CASE a < i
          <5>1. a \in 1 .. i /\ i \in 1 .. i /\ a \in 1 .. Len(q.spacing)
            BY <1>2, <1>3, <1>4, <2>2, <4>3
          <5>2. Gap(q, a, i) >= (i - a) * r
            BY <1>2, <2>2, <4>3, <5>1
          <5>3. Gap(q, a, b) = Gap(q, a, i) + Gap(q, i, i + 1) /\ Gap(q, a, i) \in Int
            <6> DEFINE d(n) == q.spacing[n].dist
            <6>1. d(a) \in Int /\ d(i) \in Int /\ d(i + 1) \in Int
              BY <1>3, <1>5, <5>1
            <6>2. /\ Gap(q, a, b) = d(a) - d(i + 1) /\ Gap(q, a, i) = d(a) - d(i)
                  /\ Gap(q, i, i + 1) = d(i) - d(i + 1)
              BY <3>2 DEF Gap
            <6> HIDE DEF d
            <6> QED
              BY <6>1, <6>2
          <5>4. (b - a) * r = (i - a) * r + r /\ (i - a) * r \in Int
            <6>1. b - a = (i - a) + 1 /\ i - a \in Int
              BY <1>2, <2>2, <3>2
            <6> QED
              BY <1>3, <6>1, OneMore
          <5> QED
            <6> DEFINE g == Gap(q, a, b)
                       g1 == Gap(q, a, i)
                       g2 == Gap(q, i, i + 1)
                       p == (b - a) * r
                       p1 == (i - a) * r
            <6>1. g = g1 + g2 /\ g1 \in Int /\ g2 \in Int /\ g2 >= r /\ g1 >= p1
                  /\ p = p1 + r /\ p1 \in Int /\ r \in Int
              BY <1>3, <1>11, <4>1, <5>2, <5>3, <5>4
            <6> HIDE DEF g, g1, g2, p, p1
            <6>2. g >= p
              BY <6>1
            <6> QED
              BY <6>2 DEF g, p
        <4> QED
          BY <1>2, <2>2, <3>2, <4>2, <4>3
      <3> QED
        BY <1>2, <2>2, <3>1, <3>2
    <2> QED
      BY <1>1, <1>2, <1>10, <2>1, <2>2 DEF TrailInv
  <1> QED
    BY <1>8, <1>9

\* Only the check itself moves a call of it.
LEMMA TrailNext ==
  ASSUME Shape(call), TrailInv(call), [Next]_call
  PROVE  TrailInv(call')
  <1>1. ASSUME NEW q \in Queues,
               call' = [op |-> "Trail", caller |-> "client", queue |-> q, i |-> 1, out |-> <<>>]
        PROVE  TrailInv(call')
    <2>1. call'.queue = q /\ call'.i = 1 /\ call'.out = <<>>
      BY <1>1
    <2> QED
      BY <2>1 DEF TrailInv
  <1>2. ASSUME NEW f \in Flights,
               call' = [op |-> "Predict", caller |-> "client", flight |-> f,
                        t |-> 0, entry |-> None]
        PROVE  TrailInv(call')
    BY <1>2 DEF TrailInv
  <1>3. CASE call' = Idle
    BY <1>3 DEF Idle, TrailInv
  <1>4. CASE CheckGap
    BY <1>4, CheckGapTrail
  <1>5. CASE ProbePair \/ SampleRoute \/ Collect \/ ListSector
    BY <1>5, ProbePairFields, SampleRouteFields, CollectFields, ListSectorFields DEF TrailInv
  <1>6. CASE \/ \E tracks \in Pictures \cup {SelfCheckTracks}, caller \in {"client", "selfcheck"} :
                  call' = DetectFrame(tracks, caller)
             \/ \E tr \in Traffic \cup {SelfCheckTraffic}, caller \in {"client", "selfcheck"} :
                  call' = OccupancyFrame(tr, caller)
             \/ \E passed : call' = SelfCheckResult(passed)
    BY <1>6, FrameFields DEF TrailInv
  <1> QED
    BY <1>1, <1>2, <1>3, <1>4, <1>5, <1>6, NextShape

\* Comparing neighbours is enough: when nothing is reported, any two flights of
\* the list are apart by the required distance for each place between them, and
\* what is reported is too close (flow.MilesInTrailCheck).
THEOREM TrailsAreSafe == Spec => []TrailSafe
  <1>1. Init => Shape(call) /\ TrailInv(call)
    BY DEF Init, Shape, TrailInv, Idle
  <1>2. Shape(call) /\ TrailInv(call) /\ [Next]_call => (Shape(call) /\ TrailInv(call))'
    BY NextShape, TrailNext
  <1>3. TrailInv(call) => TrailSafe
    <2> SUFFICES ASSUME TrailInv(call), TrailFinished, call.queue.required > 0
                 PROVE  TrailSafe
      BY DEF TrailSafe
    <2> DEFINE q == call.queue
    <2>1. call.op = "Trail" /\ call.i >= Len(q.spacing) /\ q \in Queues /\ call.i \in Nat
          /\ (q.required \in Int) /\ Len(q.spacing) \in Nat
          /\ DOMAIN q.spacing = 1 .. Len(q.spacing)
      <3>1. call.op = "Trail" /\ q \in Queues /\ call.i \in Nat
        BY DEF TrailFinished, TrailInv
      <3> QED
        BY <3>1, QueueFields DEF TrailFinished, TrailDone
    <2> QED
      BY <2>1 DEF TrailInv, TrailSafe, Gap
  <1> QED
    BY <1>1, <1>2, <1>3, PTL DEF Spec

-----------------------------------------------------------------------------
(* Sector entry.                                                           *)

\* The samples are the multiples of the step; none before the one that was
\* reached is inside, and an entry is the one that was reached.
EntryInv(c) ==
  c.op = "Predict" =>
    /\ c.flight \in Flights
    /\ \E k \in Nat :
         /\ c.t = k * c.flight.step
         /\ \A m \in Nat : m < k => ~InsideAt(c.flight, m * c.flight.step)
    /\ c.entry # None =>
         c.entry = c.t /\ c.t <= c.flight.horizon /\ InsideAt(c.flight, c.t)

\* A sample is the entry, or the next one is a step later.
LEMMA SampleEntry ==
  ASSUME Shape(call), EntryInv(call), SampleRoute
  PROVE  EntryInv(call')
  <1> DEFINE f == call.flight
             t == call.t
             s == f.step
  <1>1. /\ call.op = "Predict" /\ ~PredictDone /\ call'.op = "Predict" /\ call'.flight = f
        /\ InsideAt(f, t) => call'.entry = t /\ call'.t = t
        /\ ~InsideAt(f, t) => call'.entry = call.entry /\ call'.t = t + s
    BY SampleRouteFields
  <1>2. f \in Flights /\ call.entry = None
    BY <1>1 DEF EntryInv, PredictDone
  <1>3. PICK k \in Nat : t = k * s /\ \A m \in Nat : m < k => ~InsideAt(f, m * s)
    BY <1>1 DEF EntryInv
  <1>4. s \in Nat /\ f.horizon \in Nat /\ t \in Nat
    BY <1>2, <1>3, FlightsAssumption, Multiples
  <1>5. t <= f.horizon
    BY <1>1, <1>4 DEF PredictDone
  <1>6. CASE InsideAt(f, t)
    BY <1>1, <1>2, <1>3, <1>5, <1>6 DEF EntryInv
  <1>7. CASE ~InsideAt(f, t)
    <2>1. t + s = (k + 1) * s /\ k + 1 \in Nat
      <3> HIDE DEF s, t, f
      <3>1. (k + 1) * s = k * s + s
        BY <1>4, OneMore
      <3> QED
        BY <1>3, <3>1
    <2>2. \A m \in Nat : m < k + 1 => ~InsideAt(f, m * s)
      BY <1>3, <1>7
    <2> QED
      BY <1>1, <1>2, <1>7, <2>1, <2>2 DEF EntryInv
  <1> QED
    BY <1>6, <1>7

\* Only the sampling itself moves a call of it.
LEMMA EntryNext ==
  ASSUME Shape(call), EntryInv(call), [Next]_call
  PROVE  EntryInv(call')
  <1>1. ASSUME NEW f \in Flights,
               call' = [op |-> "Predict", caller |-> "client", flight |-> f,
                        t |-> 0, entry |-> None]
        PROVE  EntryInv(call')
    <2>1. call'.flight = f /\ call'.t = 0 /\ call'.entry = None
      BY <1>1
    <2>2. f.step \in Nat
      BY FlightsAssumption
    <2>3. 0 = 0 * f.step /\ \A m \in Nat : ~(m < 0)
      BY <2>2
    <2> QED
      BY <2>1, <2>3 DEF EntryInv
  <1>2. ASSUME NEW q \in Queues,
               call' = [op |-> "Trail", caller |-> "client", queue |-> q, i |-> 1, out |-> <<>>]
        PROVE  EntryInv(call')
    BY <1>2 DEF EntryInv
  <1>3. CASE call' = Idle
    BY <1>3 DEF Idle, EntryInv
  <1>4. CASE SampleRoute
    BY <1>4, SampleEntry
  <1>5. CASE ProbePair \/ CheckGap \/ Collect \/ ListSector
    BY <1>5, ProbePairFields, CheckGapFields, CollectFields, ListSectorFields DEF EntryInv
  <1>6. CASE \/ \E tracks \in Pictures \cup {SelfCheckTracks}, caller \in {"client", "selfcheck"} :
                  call' = DetectFrame(tracks, caller)
             \/ \E tr \in Traffic \cup {SelfCheckTraffic}, caller \in {"client", "selfcheck"} :
                  call' = OccupancyFrame(tr, caller)
             \/ \E passed : call' = SelfCheckResult(passed)
    BY <1>6, FrameFields DEF EntryInv
  <1> QED
    BY <1>1, <1>2, <1>3, <1>4, <1>5, <1>6, NextShape

\* The entry that is reported is a sample at which the flight is inside, no
\* sample before it is, and it is late by one step at most
\* (trajectory.PredictSectorEntry).
THEOREM EntriesAreExact == Spec => []EntryExact
  <1>1. Init => Shape(call) /\ EntryInv(call)
    BY DEF Init, Shape, EntryInv, Idle
  <1>2. Shape(call) /\ EntryInv(call) /\ [Next]_call => (Shape(call) /\ EntryInv(call))'
    BY NextShape, EntryNext
  <1>3. ASSUME EntryInv(call)
        PROVE  EntryExact
    <2> SUFFICES ASSUME PredictFinished
                 PROVE  EntryExact
      BY DEF EntryExact
    <2> DEFINE f == call.flight
               e == call.entry
               s == f.step
               times == {t \in 0 .. f.horizon : InsideAt(f, t)}
    <2>1. call.op = "Predict" /\ PredictDone
      BY DEF PredictFinished
    <2>2. /\ f \in Flights
          /\ e # None => e = call.t /\ e <= f.horizon /\ InsideAt(f, e)
      BY <1>3, <2>1 DEF EntryInv
    <2>3. PICK k \in Nat : call.t = k * s /\ \A m \in Nat : m < k => ~InsideAt(f, m * s)
      BY <1>3, <2>1 DEF EntryInv
    <2>4. s \in Nat /\ f.horizon \in Nat /\ call.t \in Nat
      BY <2>2, <2>3, FlightsAssumption, Multiples
    <2>5. ASSUME e # None
          PROVE  e \in times /\ \A t \in times : t < e => t % s # 0
      <3>1. e = k * s /\ e \in 0 .. f.horizon /\ InsideAt(f, e)
        BY <2>2, <2>3, <2>4, <2>5
      <3>2. ASSUME NEW t \in times, t < e, t % s = 0
            PROVE  FALSE
        <4>1. t \in Nat /\ InsideAt(f, t)
          BY <2>4
        <4>2. s > 0
          <5>1. s = 0 => k * s = 0
            BY <2>3
          <5> QED
            BY <2>4, <3>1, <3>2, <4>1, <5>1
        <4>3. t \div s \in Nat /\ t = (t \div s) * s
          <5>1. t \div s \in Nat /\ t = (t \div s) * s + (t % s)
            BY <2>4, <4>1, <4>2, Division
          <5>2. (t \div s) * s \in Nat
            BY <2>4, <5>1, Multiples
          <5> QED
            BY <3>2, <5>1, <5>2
        <4>4. t \div s < k
          BY <2>3, <2>4, <3>1, <3>2, <4>3, Multiples
        <4> QED
          BY <2>3, <4>1, <4>3, <4>4
      <3> QED
        BY <3>1, <3>2
    <2>6. ASSUME f.route.legs # <<>>, NEW t \in 0 .. f.horizon - s,
                 t .. t + s \subseteq times
          PROVE  e # None /\ e <= t + s
      <3>1. t \in Nat /\ t + s \in Nat /\ t + s <= f.horizon
        BY <2>4
      <3>2. Len(f.route.legs) # 0
        BY <2>2, <2>6, FlightsAssumption
      <3>3. e # None \/ call.t > f.horizon
        BY <2>1, <3>2 DEF PredictDone
      <3>4. CASE s = 0
        <4>1. call.t = 0
          BY <2>3, <3>4
        <4> QED
          BY <2>2, <2>4, <3>1, <3>3, <4>1
      <3>5. CASE s > 0
        <4> DEFINE m == (t + s) \div s
        <4>1. m \in Nat /\ (t + s) % s \in Nat /\ (t + s) % s < s
              /\ t + s = m * s + ((t + s) % s)
          BY <2>4, <3>1, <3>5, Division
        <4>2. m * s \in Nat
          BY <2>4, <4>1, Multiples
        <4> HIDE DEF m
        <4>3. t <= m * s /\ m * s <= t + s
          BY <2>4, <3>1, <4>1, <4>2
        <4>4. InsideAt(f, m * s)
          BY <2>4, <2>6, <3>1, <4>2, <4>3
        <4>5. k * s <= m * s
          <5>1. ~(m < k)
            BY <2>3, <4>1, <4>4
          <5> QED
            BY <2>3, <2>4, <4>1, <5>1, Multiples
        <4>6. call.t <= t + s /\ call.t <= f.horizon
          BY <2>3, <2>4, <3>1, <4>2, <4>3, <4>5
        <4> QED
          BY <2>2, <2>4, <3>3, <4>6
      <3> QED
        BY <2>4, <3>4, <3>5
    <2> QED
      BY <2>5, <2>6 DEF EntryExact
  <1> QED
    BY <1>1, <1>2, <1>3, PTL DEF Spec

-----------------------------------------------------------------------------
(* The conflict of a pair.                                                 *)

\* A set of numbers that is not empty has a smallest one.
LEMMA Smallest ==
  ASSUME NEW S, S \subseteq Nat, S # {}
  PROVE  SmallestOf(S) \in S /\ \A n \in S : SmallestOf(S) <= n
  <1>1. \E x \in S : \A y \in S : ~(<<y, x>> \in OpToRel(<, Nat))
    BY NatLessThanWellFounded, WFMin
  <1>2. PICK x \in S : \A y \in S : ~(<<y, x>> \in OpToRel(<, Nat))
    BY <1>1
  <1>3. \A y \in S : x <= y
    <2> SUFFICES ASSUME NEW y \in S, ~(x <= y)
                 PROVE  FALSE
      OBVIOUS
    <2>1. y < x /\ x \in Nat /\ y \in Nat
      OBVIOUS
    <2> QED
      BY <1>2, <2>1 DEF OpToRel
  <1> QED
    BY <1>3 DEF SmallestOf

\* The absolute difference does not depend on the order.
LEMMA AbsFacts ==
  ASSUME NEW m \in Int, NEW n \in Int
  PROVE  Abs(m - n) = Abs(n - m) /\ Abs(m - n) \in Nat
  BY DEF Abs

\* The probe looks at least one sample ahead.
LEMMA Window ==
  /\ StepSec \in Nat /\ StepSec > 0 /\ LookaheadSec \in Nat /\ LookaheadSec > 0
  /\ Samples \subseteq Nat
  BY ProberAssumption DEF StepSec, LookaheadSec, Samples

\* What a track state holds.
LEMMA TrackFields ==
  ASSUME NEW a, TrackState(a)
  PROVE  /\ a.pos.x \in Int /\ a.pos.y \in Int /\ a.fl \in Nat /\ a.hdg \in Int
         /\ a.gs \in Nat /\ a.vr \in Int
  BY DEF TrackState

\* A projected position is on the grid and a projected level is one.
LEMMA ProjectedFields ==
  ASSUME NEW a, TrackState(a), NEW t \in Nat
  PROVE  LET p == ProjectFromTrack(a, t)
         IN  p.pos.x \in Int /\ p.pos.y \in Int /\ p.fl \in Nat
  <1> DEFINE d == Travel(a.gs, t)
             out == a.fl + RoundDiv(a.vr * t, 6000)
  <1>1. a.pos.x \in Int /\ a.pos.y \in Int /\ a.fl \in Nat /\ a.gs \in Nat /\ a.vr \in Int
    BY TrackFields
  <1>2. a.gs * t \in Int /\ a.vr * t \in Int
    BY <1>1
  <1>3. d \in Int
    BY <1>2 DEF Travel
  <1>4. East(a.hdg) \in Int /\ North(a.hdg) \in Int
    BY DEF East, North
  <1>5. d * East(a.hdg) \in Int /\ d * North(a.hdg) \in Int
    BY <1>3, <1>4
  <1>6. out \in Int
    BY <1>1, <1>2 DEF RoundDiv
  <1>7. ProjectedFL(a.fl, a.vr, t) \in Nat
    BY <1>6 DEF ProjectedFL
  <1> HIDE DEF d, out
  <1>8. /\ ProjectFromTrack(a, t).pos.x = a.pos.x + d * East(a.hdg)
        /\ ProjectFromTrack(a, t).pos.y = a.pos.y + d * North(a.hdg)
        /\ ProjectFromTrack(a, t).fl = ProjectedFL(a.fl, a.vr, t)
    BY DEF ProjectFromTrack, Shift, d
  <1> QED
    BY <1>1, <1>5, <1>7, <1>8

\* Distances do not depend on the order of the flights.
LEMMA Symmetric ==
  ASSUME NEW a, NEW b, TrackState(a), TrackState(b), NEW t \in Nat
  PROVE  /\ Lateral2(a, b, t) \in Nat /\ Lateral2(a, b, t) = Lateral2(b, a, t)
         /\ Vertical(a, b, t) \in Nat /\ Vertical(a, b, t) = Vertical(b, a, t)
  <1> DEFINE p == ProjectFromTrack(a, t)
             q == ProjectFromTrack(b, t)
  <1>1. /\ p.pos.x \in Int /\ p.pos.y \in Int /\ p.fl \in Nat
        /\ q.pos.x \in Int /\ q.pos.y \in Int /\ q.fl \in Nat
    BY ProjectedFields
  <1>2. \A m, n \in Int : (m - n) * (m - n) \in Nat /\ (m - n) * (m - n) = (n - m) * (n - m)
    <2> SUFFICES ASSUME NEW m \in Int, NEW n \in Int
                 PROVE  (m - n) * (m - n) \in Nat /\ (m - n) * (m - n) = (n - m) * (n - m)
      OBVIOUS
    <2>1. \A k \in Int : k * k \in Int /\ k * k >= 0 /\ (-k) * (-k) = k * k
      OBVIOUS
    <2>2. m - n \in Int /\ n - m = -(m - n)
      OBVIOUS
    <2> QED
      BY <2>1, <2>2
  <1> HIDE DEF p, q
  <1>3. Distance2(p.pos, q.pos) \in Nat /\ Distance2(p.pos, q.pos) = Distance2(q.pos, p.pos)
    BY <1>1, <1>2 DEF Distance2
  <1>4. absFL(p.fl, q.fl) \in Nat /\ absFL(p.fl, q.fl) = absFL(q.fl, p.fl)
    BY <1>1, AbsFacts DEF absFL
  <1> QED
    BY <1>3, <1>4 DEF p, q, Lateral2, Vertical

\* Nor does the label: its one-sided cases come in pairs.
LEMMA LabelSymmetric ==
  ASSUME NEW a, NEW b, TrackState(a), TrackState(b)
  PROVE  classify(a, b) = classify(b, a)
  <1>1. /\ a.fl \in Nat /\ a.hdg \in Int /\ a.gs \in Nat /\ a.vr \in Int
        /\ b.fl \in Nat /\ b.hdg \in Int /\ b.gs \in Nat /\ b.vr \in Int
    BY TrackFields
  <1>2. isOpposite(a, b) <=> isOpposite(b, a)
    BY DEF isOpposite
  <1>3. absHeadingDiff(a.hdg, b.hdg) = absHeadingDiff(b.hdg, a.hdg)
    BY <1>1, AbsFacts DEF absHeadingDiff
  <1>4. Abs(a.gs - b.gs) = Abs(b.gs - a.gs)
    BY <1>1, AbsFacts
  <1>5. closesVertically(a, b) <=> closesVertically(b, a)
    BY <1>1 DEF closesVertically
  <1> HIDE DEF isOpposite, absHeadingDiff, closesVertically
  <1> QED
    BY <1>2, <1>3, <1>4, <1>5 DEF classify

\* classify has five labels.
LEMMA Labels ==
  ASSUME NEW a, NEW b, TrackState(a), TrackState(b)
  PROVE  classify(a, b) \in {"OPPOSITE", "CROSSING", "OVERTAKING", "VERTICAL", "SAME_DIR"}
  <1>1. /\ absHeadingDiff(a.hdg, b.hdg) >= 15 \/ ~(absHeadingDiff(a.hdg, b.hdg) >= 15)
        /\ Abs(a.gs - b.gs) \in Nat
    BY TrackFields, AbsFacts
  <1> QED
    BY <1>1 DEF classify

LostAt(a, b) == {t \in Samples : Lost(a, b, t, VerticalMinFt(a.fl, b.fl))}

\* The conflict of a pair names the pair, and is one.
LEMMA PairConflict ==
  ASSUME NEW a, NEW b, TrackState(a), TrackState(b), None \notin ConflictOf(a, b)
  PROVE  /\ LostAt(a, b) = {} <=> detectPair(a, b) = None
         /\ LostAt(a, b) # {} =>
              detectPair(a, b) =
                [a |-> a.id, b |-> b.id, type |-> classify(a, b),
                 ts   |-> SmallestOf(LostAt(a, b)),
                 lat2 |-> SmallestOf({Lateral2(a, b, t) : t \in LostAt(a, b)}),
                 vert |-> SmallestOf({Vertical(a, b, t) : t \in LostAt(a, b)})]
  <1> DEFINE L == LostAt(a, b)
             lat == {Lateral2(a, b, t) : t \in L}
             vert == {Vertical(a, b, t) : t \in L}
             c == [a |-> a.id, b |-> b.id, type |-> classify(a, b), ts |-> SmallestOf(L),
                   lat2 |-> SmallestOf(lat), vert |-> SmallestOf(vert)]
  <1>1. L \subseteq Nat
    BY Window DEF LostAt
  <1>2. lat \subseteq Nat /\ vert \subseteq Nat
    BY <1>1, Symmetric
  <1>3. detectPair(a, b) = IF L = {} THEN None ELSE c
    BY DEF detectPair, ConflictOver, LostAt
  <1>4. ASSUME L # {}
        PROVE  c # None
    <2>1. SmallestOf(L) \in Nat
      <3> HIDE DEF L
      <3> QED
        BY <1>1, <1>4, Smallest
    <2>2. lat # {} /\ vert # {}
      BY <1>4
    <2> HIDE DEF L, lat, vert
    <2>3. SmallestOf(lat) \in Nat /\ SmallestOf(vert) \in Nat
      BY <1>2, <2>2, Smallest
    <2>4. c \in ConflictOf(a, b)
      BY <2>1, <2>3, Labels DEF ConflictOf
    <2> QED
      BY <2>4
  <1> HIDE DEF c
  <1>5. (L = {} <=> detectPair(a, b) = None) /\ (L # {} => detectPair(a, b) = c)
    BY <1>3, <1>4
  <1> QED
    BY <1>5 DEF c

\* The verdict on a pair does not depend on the order of the flights.
LEMMA PairSymmetric ==
  ASSUME NEW a, NEW b, TrackState(a), TrackState(b),
         None \notin ConflictOf(a, b), None \notin ConflictOf(b, a)
  PROVE  detectPair(b, a) = Swapped(detectPair(a, b))
  <1>1. VerticalMinFt(a.fl, b.fl) = VerticalMinFt(b.fl, a.fl)
    BY DEF VerticalMinFt
  <1>2. \A t \in Samples : /\ Lateral2(a, b, t) = Lateral2(b, a, t)
                           /\ Vertical(a, b, t) = Vertical(b, a, t)
    BY Window, Symmetric
  <1>3. LostAt(a, b) = LostAt(b, a)
    BY <1>1, <1>2 DEF LostAt, Lost
  <1>4. CASE LostAt(a, b) = {}
    BY <1>3, <1>4, PairConflict DEF Swapped
  <1>5. CASE LostAt(a, b) # {}
    <2> DEFINE L == LostAt(a, b)
               lab == SmallestOf({Lateral2(a, b, t) : t \in L})
               vab == SmallestOf({Vertical(a, b, t) : t \in L})
               ts == SmallestOf(L)
               kind == classify(a, b)
               cab == [a |-> a.id, b |-> b.id, type |-> kind, ts |-> ts, lat2 |-> lab, vert |-> vab]
    <2>1. detectPair(a, b) = cab /\ detectPair(a, b) # None
      BY <1>5, PairConflict
    <2>2. {Lateral2(a, b, t) : t \in L} = {Lateral2(b, a, t) : t \in L}
          /\ {Vertical(a, b, t) : t \in L} = {Vertical(b, a, t) : t \in L}
      <3>1. L \subseteq Samples
        BY DEF LostAt
      <3> QED
        BY <1>2, <3>1
    <2>3. detectPair(b, a) = [a |-> b.id, b |-> a.id, type |-> kind, ts |-> ts,
                              lat2 |-> lab, vert |-> vab]
      BY <1>3, <1>5, <2>2, PairConflict, LabelSymmetric
    <2> DEFINE ia == a.id
               ib == b.id
    <2>4. Swapped(detectPair(a, b)) = [cab EXCEPT !.a = ib, !.b = ia]
      BY <2>1 DEF Swapped
    <2> HIDE DEF lab, vab, ts, kind, ia, ib
    <2>5. [cab EXCEPT !.a = ib, !.b = ia]
            = [a |-> ib, b |-> ia, type |-> kind, ts |-> ts, lat2 |-> lab, vert |-> vab]
      <3> DEFINE d == [cab EXCEPT !.a = ib, !.b = ia]
      <3>1. /\ DOMAIN d = {"a", "b", "type", "ts", "lat2", "vert"}
            /\ d.a = ib /\ d.b = ia /\ d.type = kind /\ d.ts = ts
            /\ d.lat2 = lab /\ d.vert = vab /\ d = [f \in DOMAIN d |-> d[f]]
        OBVIOUS
      <3> HIDE DEF d
      <3>2. d = [a |-> ib, b |-> ia, type |-> kind, ts |-> ts, lat2 |-> lab, vert |-> vab]
        BY <3>1
      <3> QED
        BY <3>2 DEF d
    <2> QED
      BY <2>3, <2>4, <2>5 DEF ia, ib
  <1> QED
    BY <1>4, <1>5

-----------------------------------------------------------------------------
(* The loop over the pairs.                                                *)

\* The pairs that the loop has been at when it comes to the pair <<i, j>>.
Probed(p, i, j) == p[1] < i \/ (p[1] = i /\ p[2] < j)

PairOf(tracks, p) == detectPair(tracks[p[1]], tracks[p[2]])

AllConflicts(tracks) == {PairOf(tracks, p) : p \in Pairs(tracks)}

\* The result has one conflict for every pair that was probed and has one, and
\* nothing else.
DetectInv(c) ==
  c.op = "Detect" =>
    /\ c.tracks \in Pictures \cup {SelfCheckTracks}
    /\ c.i \in Nat /\ c.j \in Nat /\ c.i >= 1 /\ c.i < c.j
    /\ c.i < Len(c.tracks) => c.j <= Len(c.tracks)
    /\ c.out \in Seq(AllConflicts(c.tracks))
    /\ \A n \in DOMAIN c.out : \E p \in Pairs(c.tracks) :
         Probed(p, c.i, c.j) /\ c.out[n] = PairOf(c.tracks, p) /\ c.out[n] # None
    /\ \A p \in Pairs(c.tracks) :
         Probed(p, c.i, c.j) /\ PairOf(c.tracks, p) # None =>
           \E n \in DOMAIN c.out : c.out[n] = PairOf(c.tracks, p)
    /\ \A m, n \in DOMAIN c.out : c.out[m].a = c.out[n].a /\ c.out[m].b = c.out[n].b => m = n

\* A picture is a list of different flights.
LEMMA PictureFields ==
  ASSUME NEW tracks \in Pictures \cup {SelfCheckTracks}
  PROVE  /\ Len(tracks) \in Nat /\ DOMAIN tracks = 1 .. Len(tracks)
         /\ \A n \in 1 .. Len(tracks) : TrackState(tracks[n])
         /\ \A m, n \in 1 .. Len(tracks) : tracks[m].id = tracks[n].id => m = n
         /\ \A m, n \in 1 .. Len(tracks) : None \notin ConflictOf(tracks[m], tracks[n])
  BY PicturesAssumption

\* The conflict of a pair of a picture names the two flights.
LEMMA NamesPair ==
  ASSUME NEW tracks \in Pictures \cup {SelfCheckTracks}, NEW p \in Pairs(tracks),
         PairOf(tracks, p) # None
  PROVE  /\ PairOf(tracks, p).a = tracks[p[1]].id
         /\ PairOf(tracks, p).b = tracks[p[2]].id
  <1> DEFINE a == tracks[p[1]]
             b == tracks[p[2]]
  <1>1. p[1] \in 1 .. Len(tracks) /\ p[2] \in 1 .. Len(tracks)
    BY DEF Pairs
  <1>2. TrackState(a) /\ TrackState(b) /\ None \notin ConflictOf(a, b)
    BY <1>1, PictureFields
  <1>3. PairOf(tracks, p) = detectPair(a, b)
    BY DEF PairOf
  <1> HIDE DEF a, b
  <1>4. detectPair(a, b) # None => detectPair(a, b).a = a.id /\ detectPair(a, b).b = b.id
    <2> DEFINE ts == SmallestOf(LostAt(a, b))
               lat == SmallestOf({Lateral2(a, b, t) : t \in LostAt(a, b)})
               vert == SmallestOf({Vertical(a, b, t) : t \in LostAt(a, b)})
    <2>1. detectPair(a, b) # None =>
            detectPair(a, b) = [a |-> a.id, b |-> b.id, type |-> classify(a, b),
                                ts |-> ts, lat2 |-> lat, vert |-> vert]
      BY <1>2, PairConflict
    <2> HIDE DEF ts, lat, vert
    <2> QED
      BY <2>1
  <1> QED
    BY <1>3, <1>4 DEF a, b

\* Two pairs with the same two flights are the same.
LEMMA PairsDiffer ==
  ASSUME NEW tracks \in Pictures \cup {SelfCheckTracks}, NEW p \in Pairs(tracks),
         NEW q \in Pairs(tracks), tracks[p[1]].id = tracks[q[1]].id,
         tracks[p[2]].id = tracks[q[2]].id
  PROVE  p = q
  <1>1. /\ p[1] \in 1 .. Len(tracks) /\ p[2] \in 1 .. Len(tracks) /\ p = <<p[1], p[2]>>
        /\ q[1] \in 1 .. Len(tracks) /\ q[2] \in 1 .. Len(tracks) /\ q = <<q[1], q[2]>>
    BY DEF Pairs
  <1>2. p[1] = q[1] /\ p[2] = q[2]
    BY <1>1, PictureFields
  <1> QED
    BY <1>1, <1>2

\* The pair at which the loop is comes next.
LEMMA NextPair ==
  ASSUME Shape(call), DetectInv(call), ProbePair
  PROVE  /\ <<call.i, call.j>> \in Pairs(call.tracks)
         /\ call'.i \in Nat /\ call'.j \in Nat /\ call'.i >= 1 /\ call'.i < call'.j
         /\ call'.i < Len(call.tracks) => call'.j <= Len(call.tracks)
         /\ ~Probed(<<call.i, call.j>>, call.i, call.j)
         /\ \A p \in Pairs(call.tracks) :
              Probed(p, call'.i, call'.j) <=> Probed(p, call.i, call.j) \/ p = <<call.i, call.j>>
  <1> DEFINE len == Len(call.tracks)
             i == call.i
             j == call.j
  <1>1. /\ call.op = "Detect" /\ ~DetectDone
        /\ j < len => call'.i = i /\ call'.j = j + 1
        /\ ~(j < len) => call'.i = i + 1 /\ call'.j = i + 2
    BY ProbePairFields
  <1>2. /\ len \in Nat /\ i \in Nat /\ j \in Nat /\ i >= 1 /\ i < j /\ i < len /\ j <= len
    <2>1. len \in Nat /\ i \in Nat /\ j \in Nat /\ i >= 1 /\ i < j /\ (i < len => j <= len)
      BY <1>1, PictureFields DEF DetectInv
    <2> QED
      BY <1>1, <2>1 DEF DetectDone
  <1>3. \A p \in Pairs(call.tracks) :
          /\ p[1] \in 1 .. len /\ p[2] \in 1 .. len /\ p[1] < p[2]
          /\ p = <<i, j>> <=> p[1] = i /\ p[2] = j
    BY DEF Pairs
  <1> HIDE DEF len, i, j
  <1>4. /\ call'.i \in Nat /\ call'.j \in Nat /\ call'.i >= 1 /\ call'.i < call'.j
        /\ call'.i < len => call'.j <= len
    BY <1>1, <1>2
  <1>5. <<i, j>> \in Pairs(call.tracks) /\ ~Probed(<<i, j>>, i, j)
    BY <1>2 DEF Pairs, Probed, len
  <1>6. \A p \in Pairs(call.tracks) :
          Probed(p, call'.i, call'.j) <=> Probed(p, i, j) \/ p = <<i, j>>
    <2> SUFFICES ASSUME NEW p \in Pairs(call.tracks)
                 PROVE  Probed(p, call'.i, call'.j) <=>
                          Probed(p, i, j) \/ (p[1] = i /\ p[2] = j)
      BY <1>3
    <2>1. p[1] \in 1 .. len /\ p[2] \in 1 .. len /\ p[1] < p[2]
      BY <1>3
    <2>2. CASE j < len
      BY <1>1, <1>2, <2>1, <2>2 DEF Probed
    <2>3. CASE ~(j < len)
      BY <1>1, <1>2, <2>1, <2>3 DEF Probed
    <2> QED
      BY <2>2, <2>3
  <1> QED
    BY <1>4, <1>5, <1>6 DEF len, i, j

\* The conflict of the next pair is added, if it has one.
LEMMA ProbePairDetect ==
  ASSUME Shape(call), DetectInv(call), ProbePair
  PROVE  DetectInv(call')
  <1> DEFINE tracks == call.tracks
             pair == <<call.i, call.j>>
             c == PairOf(tracks, pair)
             out == call.out
             Was(p) == Probed(p, call.i, call.j)
             Is(p) == Probed(p, call'.i, call'.j)
  <1>1. /\ call.op = "Detect" /\ call'.op = "Detect" /\ call'.tracks = tracks
        /\ call'.out = Found(out, c)
    BY ProbePairFields DEF PairOf
  <1>2. /\ tracks \in Pictures \cup {SelfCheckTracks}
        /\ out \in Seq(AllConflicts(tracks))
        /\ \A n \in DOMAIN out : \E p \in Pairs(tracks) :
             Was(p) /\ out[n] = PairOf(tracks, p) /\ out[n] # None
        /\ \A p \in Pairs(tracks) : Was(p) /\ PairOf(tracks, p) # None =>
             \E n \in DOMAIN out : out[n] = PairOf(tracks, p)
        /\ \A m, n \in DOMAIN out : out[m].a = out[n].a /\ out[m].b = out[n].b => m = n
    BY <1>1 DEF DetectInv
  <1>3. /\ pair \in Pairs(tracks) /\ ~Was(pair)
        /\ call'.i \in Nat /\ call'.j \in Nat /\ call'.i >= 1 /\ call'.i < call'.j
        /\ call'.i < Len(tracks) => call'.j <= Len(tracks)
        /\ \A p \in Pairs(tracks) : Is(p) <=> Was(p) \/ p = pair
    BY NextPair
  <1>4. c \in AllConflicts(tracks)
    BY <1>3 DEF AllConflicts
  <1>5. c = PairOf(tracks, pair)
    OBVIOUS
  <1> HIDE DEF tracks, pair, c, out, Was, Is
  <1> SUFFICES /\ call'.out \in Seq(AllConflicts(tracks))
               /\ \A n \in DOMAIN call'.out : \E p \in Pairs(tracks) :
                    Is(p) /\ call'.out[n] = PairOf(tracks, p) /\ call'.out[n] # None
               /\ \A p \in Pairs(tracks) : Is(p) /\ PairOf(tracks, p) # None =>
                    \E n \in DOMAIN call'.out : call'.out[n] = PairOf(tracks, p)
               /\ \A m, n \in DOMAIN call'.out :
                    call'.out[m].a = call'.out[n].a /\ call'.out[m].b = call'.out[n].b => m = n
    BY <1>1, <1>2, <1>3 DEF DetectInv, Is
  <1>6. CASE c = None
    <2>1. call'.out = out
      BY <1>1, <1>6 DEF Found
    <2> QED
      BY <1>2, <1>3, <1>5, <1>6, <2>1
  <1>7. CASE c # None
    <2>1. call'.out = Append(out, c)
      BY <1>1, <1>7 DEF Found
    <2> DEFINE new == Append(out, c)
               k == Len(out) + 1
    <2>2. /\ new \in Seq(AllConflicts(tracks)) /\ DOMAIN new = DOMAIN out \cup {k}
          /\ ~(k \in DOMAIN out) /\ new[k] = c /\ \A n \in DOMAIN out : new[n] = out[n]
      BY <1>2, <1>4, Appended
    <2> HIDE DEF new, k
    <2>3. \A n \in DOMAIN new : \E p \in Pairs(tracks) :
            Is(p) /\ new[n] = PairOf(tracks, p) /\ new[n] # None
      BY <1>2, <1>3, <1>5, <1>7, <2>2
    <2>4. \A p \in Pairs(tracks) : Is(p) /\ PairOf(tracks, p) # None =>
            \E n \in DOMAIN new : new[n] = PairOf(tracks, p)
      BY <1>2, <1>3, <1>5, <2>2
    <2>5. ASSUME NEW n \in DOMAIN out, out[n].a = c.a, out[n].b = c.b
          PROVE  FALSE
      <3>1. PICK p \in Pairs(tracks) : Was(p) /\ out[n] = PairOf(tracks, p) /\ out[n] # None
        BY <1>2
      <3>2. /\ c.a = tracks[pair[1]].id /\ c.b = tracks[pair[2]].id
            /\ out[n].a = tracks[p[1]].id /\ out[n].b = tracks[p[2]].id
        BY <1>2, <1>3, <1>5, <1>7, <3>1, NamesPair
      <3>3. p = pair
        BY <1>2, <1>3, <2>5, <3>2, PairsDiffer
      <3> QED
        BY <1>3, <3>1, <3>3
    <2>6. \A m, n \in DOMAIN new : new[m].a = new[n].a /\ new[m].b = new[n].b => m = n
      <3> SUFFICES ASSUME NEW m \in DOMAIN new, NEW n \in DOMAIN new,
                          new[m].a = new[n].a, new[m].b = new[n].b
                   PROVE  m = n
        OBVIOUS
      <3>1. CASE m \in DOMAIN out /\ n \in DOMAIN out
        BY <1>2, <2>2, <3>1
      <3>2. CASE m = k /\ n \in DOMAIN out
        BY <2>2, <2>5, <3>2
      <3>3. CASE m \in DOMAIN out /\ n = k
        BY <2>2, <2>5, <3>3
      <3> QED
        BY <2>2, <3>1, <3>2, <3>3
    <2> QED
      BY <2>1, <2>2, <2>3, <2>4, <2>6 DEF new
  <1> QED
    BY <1>6, <1>7

\* Only the loop itself moves a call of it.
LEMMA DetectNext ==
  ASSUME Shape(call), DetectInv(call), [Next]_call
  PROVE  DetectInv(call')
  <1>1. ASSUME NEW tracks \in Pictures \cup {SelfCheckTracks},
               NEW caller \in {"client", "selfcheck"}, call' = DetectFrame(tracks, caller)
        PROVE  DetectInv(call')
    <2>1. call'.tracks = tracks /\ call'.i = 1 /\ call'.j = 2 /\ call'.out = <<>>
      BY <1>1, FrameFields
    <2>2. Len(tracks) \in Nat
      BY PictureFields
    <2>3. \A p \in Pairs(tracks) : ~Probed(p, 1, 2)
      BY DEF Pairs, Probed
    <2>4. <<>> \in Seq(AllConflicts(tracks)) /\ DOMAIN <<>> = {}
      OBVIOUS
    <2>5. 1 < Len(tracks) => 2 <= Len(tracks)
      BY <2>2
    <2> QED
      BY <2>1, <2>3, <2>4, <2>5 DEF DetectInv
  <1>2. ASSUME NEW f \in Flights,
               call' = [op |-> "Predict", caller |-> "client", flight |-> f,
                        t |-> 0, entry |-> None]
        PROVE  DetectInv(call')
    BY <1>2 DEF DetectInv
  <1>3. ASSUME NEW q \in Queues,
               call' = [op |-> "Trail", caller |-> "client", queue |-> q, i |-> 1, out |-> <<>>]
        PROVE  DetectInv(call')
    BY <1>3 DEF DetectInv
  <1>4. CASE call' = Idle
    BY <1>4 DEF Idle, DetectInv
  <1>5. CASE ProbePair
    BY <1>5, ProbePairDetect
  <1>6. CASE SampleRoute \/ CheckGap \/ Collect \/ ListSector
    BY <1>6, SampleRouteFields, CheckGapFields, CollectFields, ListSectorFields DEF DetectInv
  <1>7. CASE \/ \E tr \in Traffic \cup {SelfCheckTraffic}, caller \in {"client", "selfcheck"} :
                  call' = OccupancyFrame(tr, caller)
             \/ \E passed : call' = SelfCheckResult(passed)
    BY <1>7, FrameFields DEF DetectInv
  <1> QED
    BY <1>1, <1>2, <1>3, <1>4, <1>5, <1>6, <1>7, NextShape

\* Every call of Detect has reported exactly the pairs it has probed.
LEMMA DetectInvariant == Spec => []DetectInv(call)
  <1>1. Init => Shape(call) /\ DetectInv(call)
    BY DEF Init, Shape, DetectInv, Idle
  <1>2. Shape(call) /\ DetectInv(call) /\ [Next]_call => (Shape(call) /\ DetectInv(call))'
    BY NextShape, DetectNext
  <1> QED
    BY <1>1, <1>2, PTL DEF Spec

\* When the loop is over, the reports of a pair are its conflict, if any.
LEMMA ReportsOfPair ==
  ASSUME DetectInv(call), DetectFinished, NEW p \in Pairs(call.tracks)
  PROVE  LET a == call.tracks[p[1]]
             b == call.tracks[p[2]]
             rep == Reports(call.out, a, b)
         IN  /\ TrackState(a) /\ TrackState(b)
             /\ None \notin ConflictOf(a, b) /\ None \notin ConflictOf(b, a)
             /\ detectPair(a, b) = None => rep = {}
             /\ detectPair(a, b) # None =>
                  \E n \in DOMAIN call.out : rep = {n} /\ call.out[n] = detectPair(a, b)
  <1> DEFINE tracks == call.tracks
             a == tracks[p[1]]
             b == tracks[p[2]]
             rep == Reports(call.out, a, b)
  <1>1. call.op = "Detect" /\ call.i >= Len(tracks) /\ tracks \in Pictures \cup {SelfCheckTracks}
        /\ call.i \in Nat
    BY DEF DetectFinished, DetectDone, DetectInv
  <1>2. p[1] \in 1 .. Len(tracks) /\ p[2] \in 1 .. Len(tracks) /\ p[1] < p[2]
        /\ Len(tracks) \in Nat
    BY <1>1, PictureFields DEF Pairs
  <1>3. Probed(p, call.i, call.j)
    BY <1>1, <1>2 DEF Probed
  <1>4. TrackState(a) /\ TrackState(b)
        /\ None \notin ConflictOf(a, b) /\ None \notin ConflictOf(b, a)
    BY <1>1, <1>2, PictureFields
  <1>5. PairOf(tracks, p) = detectPair(a, b)
    BY DEF PairOf
  <1>6. \A n \in rep : n \in DOMAIN call.out /\ call.out[n] = detectPair(a, b)
                       /\ call.out[n] # None
    <2> SUFFICES ASSUME NEW n \in rep
                 PROVE  call.out[n] = detectPair(a, b) /\ call.out[n] # None
      BY DEF Reports
    <2>1. n \in DOMAIN call.out /\ call.out[n].a = a.id /\ call.out[n].b = b.id
      BY DEF Reports
    <2>2. PICK q \in Pairs(tracks) : call.out[n] = PairOf(tracks, q) /\ call.out[n] # None
      BY <1>1, <2>1 DEF DetectInv
    <2>3. call.out[n].a = tracks[q[1]].id /\ call.out[n].b = tracks[q[2]].id
      BY <1>1, <2>2, NamesPair
    <2>4. p = q
      BY <1>1, <2>1, <2>3, PairsDiffer
    <2> QED
      BY <1>5, <2>2, <2>4
  <1>7. ASSUME detectPair(a, b) # None
        PROVE  \E n \in DOMAIN call.out : rep = {n} /\ call.out[n] = detectPair(a, b)
    <2>1. PICK n \in DOMAIN call.out : call.out[n] = detectPair(a, b)
      BY <1>1, <1>3, <1>5, <1>7 DEF DetectInv
    <2>2. call.out[n].a = a.id /\ call.out[n].b = b.id
      BY <1>1, <1>5, <1>7, <2>1, NamesPair
    <2>3. \A m \in rep : m = n
      BY <1>1, <2>2 DEF DetectInv, Reports
    <2>4. n \in rep
      BY <2>2 DEF Reports
    <2> QED
      BY <2>1, <2>3, <2>4
  <1>8. detectPair(a, b) = None => rep = {}
    BY <1>6
  <1> QED
    BY <1>4, <1>7, <1>8

\* The order in which the reports of two flights are listed has no influence on
\* verdict, times, distances and label (separation.detectPair, classify).
THEOREM OrderDoesNotMatter == Spec => []OrderBlind
  <1>1. DetectInv(call) => OrderBlind
    BY ReportsOfPair, PairSymmetric DEF OrderBlind
  <1> QED
    BY <1>1, DetectInvariant, PTL

-----------------------------------------------------------------------------
(* Head-on pairs.                                                          *)

\* Two products of components, regrouped.
LEMMA Products ==
  ASSUME NEW d \in Int, NEW g \in Int, NEW e \in Int, NEW h \in Int, NEW f \in Int
  PROVE  d * (g * e - h * f) = g * (d * e) - h * (d * f)
  OBVIOUS

\* A speed times a direction is at least the speed, forwards or backwards.
LEMMA Times ==
  ASSUME NEW g \in Nat, NEW m \in Int
  PROVE  /\ g * m \in Int
         /\ m >= 1 => g * m >= g
         /\ m <= -1 => g * m <= -g
  <1>1. \A k \in Nat : g * k \in Nat
    OBVIOUS
  <1>2. ASSUME m >= 1
        PROVE  g * m >= g
    <2>1. m - 1 \in Nat /\ g * (m - 1) \in Nat
      BY <1>1, <1>2
    <2>2. g * m = g * (m - 1) + g
      OBVIOUS
    <2> QED
      BY <2>1, <2>2
  <1>3. ASSUME m <= -1
        PROVE  g * m <= -g
    <2>1. -1 - m \in Nat /\ g * (-1 - m) \in Nat
      BY <1>1, <1>3
    <2>2. g * m = -g - g * (-1 - m)
      OBVIOUS
    <2> QED
      BY <2>1, <2>2
  <1> QED
    BY <1>2, <1>3

\* Two flights that each head for the other come closer.
LEMMA HeadOn ==
  ASSUME NEW dx \in Int, NEW dy \in Int, NEW ga \in Nat, NEW gb \in Nat,
         NEW ea \in Int, NEW na \in Int, NEW eb \in Int, NEW nb \in Int,
         dx * ea + dy * na > 0, dx * eb + dy * nb < 0, ga + gb > 0
  PROVE  dx * (gb * eb - ga * ea) + dy * (gb * nb - ga * na) < 0
  <1> DEFINE p == dx * ea + dy * na
             q == dx * eb + dy * nb
             xb == dx * eb
             yb == dy * nb
             xa == dx * ea
             ya == dy * na
  <1>1. xa \in Int /\ ya \in Int /\ xb \in Int /\ yb \in Int
    OBVIOUS
  <1>2. dx * (gb * eb - ga * ea) = gb * xb - ga * xa
    BY Products
  <1>3. dy * (gb * nb - ga * na) = gb * yb - ga * ya
    BY Products
  <1>4. p = xa + ya /\ q = xb + yb /\ p >= 1 /\ q <= -1
    BY <1>1
  <1> HIDE DEF xa, ya, xb, yb, p, q
  <1>5. /\ gb * (xb + yb) = gb * xb + gb * yb
        /\ ga * (xa + ya) = ga * xa + ga * ya
        /\ gb * xb \in Int /\ gb * yb \in Int /\ ga * xa \in Int /\ ga * ya \in Int
    BY <1>1
  <1>6. ga * p >= ga /\ gb * q <= -gb /\ ga * p \in Int /\ gb * q \in Int
    BY <1>1, <1>4, Times
  <1>7. ga * p = ga * xa + ga * ya /\ gb * q = gb * xb + gb * yb
    BY <1>4, <1>5
  <1> QED
    BY <1>2, <1>3, <1>5, <1>6, <1>7

\* In twelve seconds a flight moves its speed along its heading.
LEMMA Moved ==
  ASSUME NEW a, TrackState(a)
  PROVE  LET p == ProjectFromTrack(a, 12).pos
         IN  /\ p.x - a.pos.x = a.gs * East(a.hdg)
             /\ p.y - a.pos.y = a.gs * North(a.hdg)
             /\ East(a.hdg) \in Int /\ North(a.hdg) \in Int
  <1>1. a.pos.x \in Int /\ a.pos.y \in Int /\ a.gs \in Nat
    BY TrackFields
  <1>2. East(a.hdg) \in Int /\ North(a.hdg) \in Int
    BY DEF East, North
  <1>3. Travel(a.gs, 12) = a.gs
    BY <1>1 DEF Travel
  <1> DEFINE ex == a.gs * East(a.hdg)
             ny == a.gs * North(a.hdg)
  <1>4. ex \in Int /\ ny \in Int
    BY <1>1, <1>2
  <1>5. /\ ProjectFromTrack(a, 12).pos.x = a.pos.x + ex
        /\ ProjectFromTrack(a, 12).pos.y = a.pos.y + ny
    BY <1>3 DEF ProjectFromTrack, Shift
  <1> HIDE DEF ex, ny
  <1>6. /\ ProjectFromTrack(a, 12).pos.x - a.pos.x = ex
        /\ ProjectFromTrack(a, 12).pos.y - a.pos.y = ny
    BY <1>1, <1>4, <1>5
  <1> QED
    BY <1>2, <1>6 DEF ex, ny

\* A pair labelled OPPOSITE is head-on: unless the flights are in one place, or
\* both stand still, the distance between them is shrinking
\* (separation.isOpposite).
THEOREM OppositeIsHeadOn == Spec => []OppositeCloses
  <1>1. ASSUME DetectInv(call), DetectFinished, NEW n \in DOMAIN call.out,
               NEW p \in Pairs(call.tracks)
        PROVE  LET a  == call.tracks[p[1]]
                   b  == call.tracks[p[2]]
                   da == ProjectFromTrack(a, 12).pos
                   db == ProjectFromTrack(b, 12).pos
                   vx == (db.x - b.pos.x) - (da.x - a.pos.x)
                   vy == (db.y - b.pos.y) - (da.y - a.pos.y)
               IN  /\ n \in Reports(call.out, a, b)
                   /\ call.out[n].type = "OPPOSITE"
                   /\ a.pos # b.pos
                   /\ a.gs + b.gs > 0
                   => (b.pos.x - a.pos.x) * vx + (b.pos.y - a.pos.y) * vy < 0
    <2> DEFINE a  == call.tracks[p[1]]
               b  == call.tracks[p[2]]
               da == ProjectFromTrack(a, 12).pos
               db == ProjectFromTrack(b, 12).pos
               vx == (db.x - b.pos.x) - (da.x - a.pos.x)
               vy == (db.y - b.pos.y) - (da.y - a.pos.y)
               dx == b.pos.x - a.pos.x
               dy == b.pos.y - a.pos.y
    <2> SUFFICES ASSUME n \in Reports(call.out, a, b), call.out[n].type = "OPPOSITE",
                        a.pos # b.pos, a.gs + b.gs > 0
                 PROVE  dx * vx + dy * vy < 0
      OBVIOUS
    <2>1. /\ TrackState(a) /\ TrackState(b) /\ None \notin ConflictOf(a, b)
          /\ call.out[n] = detectPair(a, b) /\ detectPair(a, b) # None
      BY <1>1, ReportsOfPair
    <2> HIDE DEF a, b
    <2>2. call.out[n].type = classify(a, b)
      <3> DEFINE ts == SmallestOf(LostAt(a, b))
                 lat == SmallestOf({Lateral2(a, b, t) : t \in LostAt(a, b)})
                 vert == SmallestOf({Vertical(a, b, t) : t \in LostAt(a, b)})
      <3>1. detectPair(a, b) = [a |-> a.id, b |-> b.id, type |-> classify(a, b),
                                ts |-> ts, lat2 |-> lat, vert |-> vert]
        BY <2>1, PairConflict
      <3> HIDE DEF ts, lat, vert
      <3> QED
        BY <2>1, <3>1
    <2>3. isOpposite(a, b)
      BY <2>2 DEF classify
    <2>4. /\ a.pos.x \in Int /\ a.pos.y \in Int /\ a.gs \in Nat
          /\ b.pos.x \in Int /\ b.pos.y \in Int /\ b.gs \in Nat
          /\ dx \in Int /\ dy \in Int
      BY <2>1, TrackFields
    <2> DEFINE ea == East(a.hdg)
               na == North(a.hdg)
               eb == East(b.hdg)
               nb == North(b.hdg)
    <2>5. /\ ea \in Int /\ na \in Int /\ eb \in Int /\ nb \in Int
          /\ vx = b.gs * eb - a.gs * ea /\ vy = b.gs * nb - a.gs * na
      BY <2>1, Moved
    <2>6. /\ dx * ea + dy * na > 0
          /\ (a.pos.x - b.pos.x) * eb + (a.pos.y - b.pos.y) * nb > 0
      BY <2>3 DEF isOpposite, Within25, InitialBearing
    <2>7. dx * eb + dy * nb < 0
      <3>1. /\ a.pos.x - b.pos.x = -dx /\ a.pos.y - b.pos.y = -dy
        BY <2>4
      <3> HIDE DEF dx, dy, eb, nb
      <3>2. (-dx) * eb + (-dy) * nb > 0
        BY <2>6, <3>1
      <3>3. (-dx) * eb = -(dx * eb) /\ (-dy) * nb = -(dy * nb)
            /\ dx * eb \in Int /\ dy * nb \in Int
        BY <2>4, <2>5
      <3> QED
        BY <3>2, <3>3
    <2> HIDE DEF vx, vy, dx, dy, ea, na, eb, nb
    <2> QED
      BY <2>4, <2>5, <2>6, <2>7, HeadOn
  <1>2. DetectInv(call) => OppositeCloses
    BY <1>1 DEF OppositeCloses
  <1> QED
    BY <1>2, DetectInvariant, PTL

-----------------------------------------------------------------------------
(* What the probe finds.                                                   *)

\* A multiple leaves no rest.
LEMMA NoRest ==
  ASSUME NEW k \in Nat, NEW d \in Nat, d > 0
  PROVE  (k * d) % d = 0
  <1> DEFINE n == k * d
             q == n \div d
             r == n % d
  <1>1. n \in Nat
    BY Multiples
  <1>2. q \in Nat /\ r \in Nat /\ r < d /\ n = q * d + r
    BY <1>1, Division
  <1>3. q * d \in Nat /\ (q + 1) * d = q * d + d
    BY <1>2, Multiples, OneMore
  <1>4. CASE k <= q
    <2>1. k * d <= q * d
      BY <1>2, <1>4, Multiples
    <2> QED
      BY <1>1, <1>2, <1>3, <2>1
  <1>5. CASE q + 1 <= k
    <2>1. (q + 1) * d <= k * d
      BY <1>2, <1>5, Multiples
    <2> QED
      BY <1>1, <1>2, <1>3, <2>1
  <1> QED
    BY <1>2, <1>4, <1>5

\* The samples, counted or divided.
LEMMA SameSamples == SampleTimes = Samples
  <1> DEFINE s == StepSec
             w == LookaheadSec
             last == w \div s
  <1>1. s \in Nat /\ s > 0 /\ w \in Nat
    BY Window
  <1>2. last \in Nat /\ w % s \in Nat /\ w % s < s /\ w = last * s + (w % s)
    BY <1>1, Division
  <1>3. last * s \in Nat
    BY <1>1, <1>2, Multiples
  <1> HIDE DEF s, w, last
  <1>4. ASSUME NEW k \in 0 .. last
        PROVE  k * s \in 0 .. w /\ (k * s) % s = 0
    <2>1. k \in Nat /\ k <= last
      BY <1>2
    <2>2. k * s \in Nat /\ k * s <= last * s /\ (k * s) % s = 0
      BY <1>1, <1>2, <2>1, Multiples, NoRest
    <2> QED
      BY <1>1, <1>2, <1>3, <2>2
  <1>5. ASSUME NEW t \in 0 .. w, t % s = 0
        PROVE  \E k \in 0 .. last : t = k * s
    <2> DEFINE k == t \div s
    <2>1. t \in Nat
      BY <1>1
    <2>2. k \in Nat /\ t = k * s + (t % s)
      BY <1>1, <2>1, Division
    <2> HIDE DEF k
    <2>3. k * s \in Nat
      BY <1>1, <2>2, Multiples
    <2>4. t = k * s
      BY <1>5, <2>2, <2>3
    <2>5. k <= last
      <3> SUFFICES ASSUME last + 1 <= k
                   PROVE  FALSE
        BY <1>2, <2>2
      <3>1. (last + 1) * s <= k * s
        BY <1>1, <1>2, <2>2, Multiples
      <3>2. (last + 1) * s = last * s + s
        BY <1>1, <1>2, OneMore
      <3> QED
        BY <1>1, <1>2, <1>3, <2>1, <2>4, <3>1, <3>2
    <2> QED
      BY <1>2, <2>2, <2>4, <2>5
  <1>6. SampleTimes = {k * s : k \in 0 .. last} /\ Samples = {t \in 0 .. w : t % s = 0}
    BY DEF SampleTimes, Samples, s, w, last
  <1> QED
    BY <1>4, <1>5, <1>6

\* Time does not change the sign of a rate.
LEMMA SignKept ==
  ASSUME NEW m \in Int, NEW t \in Nat
  PROVE  m * t \in Int /\ (m <= 0 => m * t <= 0) /\ (m >= 0 => m * t >= 0)
  <1>1. CASE m >= 0
    <2>1. m \in Nat
      BY <1>1
    <2>2. m * t \in Nat
      BY <2>1
    <2>3. m = 0 => m * t = 0
      OBVIOUS
    <2> QED
      BY <1>1, <2>2, <2>3
  <1>2. CASE m < 0
    <2>1. PICK k \in Nat : k = -m
      BY <1>2
    <2>2. k * t \in Nat
      OBVIOUS
    <2>3. m = -k
      BY <2>1
    <2>4. (-k) * t = -(k * t)
      OBVIOUS
    <2> QED
      BY <1>2, <2>2, <2>3, <2>4
  <1> QED
    BY <1>1, <1>2

\* A flight that does not climb gets no higher, one that does not descend no
\* lower.
LEMMA Levels ==
  ASSUME NEW a, TrackState(a), NEW t \in Nat
  PROVE  /\ ProjectFromTrack(a, t).fl \in Nat
         /\ a.vr <= 0 => ProjectFromTrack(a, t).fl <= a.fl
         /\ a.vr >= 0 => ProjectFromTrack(a, t).fl >= a.fl
  <1> DEFINE n == a.vr * t
  <1>1. a.fl \in Nat /\ a.vr \in Int
    BY TrackFields
  <1>2. n \in Int /\ (a.vr <= 0 => n <= 0) /\ (a.vr >= 0 => n >= 0)
    BY <1>1, SignKept
  <1>3. ProjectFromTrack(a, t).fl = ProjectedFL(a.fl, a.vr, t)
    BY DEF ProjectFromTrack
  <1> HIDE DEF n
  <1>4. /\ RoundDiv(n, 6000) \in Int
        /\ n <= 0 => RoundDiv(n, 6000) <= 0
        /\ n >= 0 => RoundDiv(n, 6000) >= 0
    BY <1>2 DEF RoundDiv
  <1> DEFINE r == RoundDiv(n, 6000)
  <1>5. ProjectedFL(a.fl, a.vr, t) = IF a.fl + r < 0 THEN 0 ELSE a.fl + r
    BY DEF ProjectedFL, n
  <1> HIDE DEF r
  <1>6. r \in Int /\ (n <= 0 => r <= 0) /\ (n >= 0 => r >= 0)
    BY <1>4 DEF r
  <1> QED
    BY <1>1, <1>2, <1>3, <1>5, <1>6

\* A flight that does not climb through FL410 stays below it if it is there;
\* one that does not descend through it stays above.
LEMMA Sides ==
  ASSUME NEW a, TrackState(a), NEW t \in SampleTimes
  PROVE  /\ ~Leaves410(a, 1) /\ a.fl <= 410 => ProjectFromTrack(a, t).fl <= 410
         /\ ~Leaves410(a, -1) /\ ~(a.fl <= 410) => ~(ProjectFromTrack(a, t).fl <= 410)
  <1> DEFINE f == ProjectFromTrack(a, t).fl
  <1>1. t \in Nat
    BY Window, SameSamples
  <1>2. a.fl \in Nat /\ a.vr \in Int /\ f \in Nat
        /\ (a.vr <= 0 => f <= a.fl) /\ (a.vr >= 0 => f >= a.fl)
    BY <1>1, Levels, TrackFields
  <1>3. ~Leaves410(a, 1) => ~((a.fl <= 410) # (f <= 410) /\ a.vr * 1 > 0)
    BY DEF Leaves410
  <1>4. ~Leaves410(a, -1) => ~((a.fl <= 410) # (f <= 410) /\ a.vr * (-1) > 0)
    BY DEF Leaves410
  <1> HIDE DEF f
  <1>5. a.vr * 1 = a.vr /\ a.vr * (-1) = -a.vr
    BY <1>2
  <1>6. ASSUME ~Leaves410(a, 1), a.fl <= 410, ~(f <= 410)
        PROVE  FALSE
    BY <1>2, <1>3, <1>5, <1>6
  <1>7. ASSUME ~Leaves410(a, -1), ~(a.fl <= 410), f <= 410
        PROVE  FALSE
    BY <1>2, <1>4, <1>5, <1>7
  <1> QED
    BY <1>6, <1>7 DEF f

\* The levels of the reports decide about the minimum as those of the instant
\* would, but for flights that go through FL410.
LEMMA MinimaOfReports ==
  ASSUME NEW a, NEW b, TrackState(a), TrackState(b)
  PROVE  /\ ~(Leaves410(a, 1) \/ Leaves410(b, 1)) => LostThen(a, b) \subseteq LostAt(a, b)
         /\ ~(Leaves410(a, -1) \/ Leaves410(b, -1)) => LostAt(a, b) \subseteq LostThen(a, b)
  <1> DEFINE fa(t) == ProjectFromTrack(a, t).fl
             fb(t) == ProjectFromTrack(b, t).fl
             then(t) == VerticalMinFt(fa(t), fb(t))
             now == VerticalMinFt(a.fl, b.fl)
  <1>1. \A t \in SampleTimes : /\ t \in Nat /\ Vertical(a, b, t) \in Nat
    BY Window, SameSamples, Symmetric
  <1>2. now \in {1000, 2000} /\ \A t : then(t) \in {1000, 2000}
    BY DEF VerticalMinFt
  <1>3. /\ LostThen(a, b) = {t \in SampleTimes : Lost(a, b, t, then(t))}
        /\ LostAt(a, b) = {t \in SampleTimes : Lost(a, b, t, now)}
    BY SameSamples DEF LostThen, LostAt
  <1>4. ASSUME ~(Leaves410(a, 1) \/ Leaves410(b, 1)), NEW t \in SampleTimes
        PROVE  then(t) <= now
    <2>1. (a.fl <= 410 => fa(t) <= 410) /\ (b.fl <= 410 => fb(t) <= 410)
      BY <1>4, Sides
    <2> QED
      BY <2>1 DEF VerticalMinFt
  <1>5. ASSUME ~(Leaves410(a, -1) \/ Leaves410(b, -1)), NEW t \in SampleTimes
        PROVE  now <= then(t)
    <2>1. (~(a.fl <= 410) => ~(fa(t) <= 410)) /\ (~(b.fl <= 410) => ~(fb(t) <= 410))
      BY <1>5, Sides
    <2> QED
      BY <2>1 DEF VerticalMinFt
  <1> HIDE DEF then, now
  <1>6. ASSUME NEW t \in SampleTimes, NEW m \in {1000, 2000}, NEW n \in {1000, 2000},
               m <= n, Lost(a, b, t, m)
        PROVE  Lost(a, b, t, n)
    BY <1>1, <1>6 DEF Lost
  <1> QED
    BY <1>2, <1>3, <1>4, <1>5, <1>6

\* The probe reports a pair once if some sample loses both minima of that
\* instant, with the smallest distances over these samples and one of them as
\* its time, no later than some sample at which the flights are closest; and
\* not at all otherwise, but for flights that go through FL410 (Prober.Detect,
\* detectPair).
THEOREM ProbeIsExact == Spec => []ProbeExact
  <1>1. ASSUME DetectInv(call), DetectFinished, NEW p \in Pairs(call.tracks)
        PROVE  LET a    == call.tracks[p[1]]
                   b    == call.tracks[p[2]]
                   lost == LostThen(a, b)
                   rep  == Reports(call.out, a, b)
                   up   == Leaves410(a, 1) \/ Leaves410(b, 1)
                   down == Leaves410(a, -1) \/ Leaves410(b, -1)
               IN  /\ Cardinality(rep) <= 1
                   /\ lost # {} /\ ~ up => rep # {}
                   /\ lost = {} /\ ~ down => rep = {}
                   /\ ~ up /\ ~ down => \A n \in rep :
                        /\ call.out[n].ts \in lost
                        /\ \E t \in lost : /\ call.out[n].ts <= t
                                           /\ Lateral2(a, b, t) = call.out[n].lat2
                        /\ call.out[n].lat2 = Min({Lateral2(a, b, t) : t \in lost})
                        /\ call.out[n].vert = Min({Vertical(a, b, t) : t \in lost})
    <2> DEFINE a    == call.tracks[p[1]]
               b    == call.tracks[p[2]]
               lost == LostThen(a, b)
               L    == LostAt(a, b)
               rep  == Reports(call.out, a, b)
               up   == Leaves410(a, 1) \/ Leaves410(b, 1)
               down == Leaves410(a, -1) \/ Leaves410(b, -1)
    <2>1. /\ TrackState(a) /\ TrackState(b) /\ None \notin ConflictOf(a, b)
          /\ detectPair(a, b) = None => rep = {}
          /\ detectPair(a, b) # None =>
               \E n \in DOMAIN call.out : rep = {n} /\ call.out[n] = detectPair(a, b)
      BY <1>1, ReportsOfPair
    <2> HIDE DEF a, b
    <2>2. (~up => lost \subseteq L) /\ (~down => L \subseteq lost)
      BY <2>1, MinimaOfReports
    <2>3. L = {} <=> detectPair(a, b) = None
      BY <2>1, PairConflict
    <2>4. Cardinality(rep) <= 1
      <3>1. CASE rep = {}
        BY <3>1, FS_EmptySet
      <3>2. CASE \E n : rep = {n}
        BY <3>2, FS_Singleton
      <3> QED
        BY <2>1, <3>1, <3>2
    <2>5. ASSUME ~up, ~down, NEW n \in rep
          PROVE  /\ call.out[n].ts \in lost
                 /\ \E t \in lost : /\ call.out[n].ts <= t
                                    /\ Lateral2(a, b, t) = call.out[n].lat2
                 /\ call.out[n].lat2 = Min({Lateral2(a, b, t) : t \in lost})
                 /\ call.out[n].vert = Min({Vertical(a, b, t) : t \in lost})
      <3> DEFINE lat == {Lateral2(a, b, t) : t \in L}
                 vert == {Vertical(a, b, t) : t \in L}
      <3>1. lost = L /\ L # {} /\ call.out[n] = detectPair(a, b)
        BY <2>1, <2>2, <2>3, <2>5
      <3>2. detectPair(a, b) = [a |-> a.id, b |-> b.id, type |-> classify(a, b),
                                ts |-> SmallestOf(L), lat2 |-> SmallestOf(lat),
                                vert |-> SmallestOf(vert)]
        BY <2>1, <3>1, PairConflict
      <3>3. \A S : SmallestOf(S) = Min(S)
        BY DEF SmallestOf, Min
      <3> DEFINE ts == SmallestOf(L)
                 lt == SmallestOf(lat)
                 vt == SmallestOf(vert)
      <3>4. L \subseteq Nat /\ lat \subseteq Nat
        BY <2>1, Window, Symmetric DEF LostAt
      <3>5. lat # {}
        BY <3>1
      <3>6. ts \in L /\ lt \in lat
        <4> HIDE DEF L, lat
        <4> QED
          BY <3>1, <3>4, <3>5, Smallest
      <3>7. \A t \in L : ts <= t
        <4> HIDE DEF L
        <4> QED
          BY <3>1, <3>4, Smallest
      <3>8. PICK s \in L : lt = Lateral2(a, b, s)
        BY <3>6
      <3>9. ts \in lost /\ lt = Min({Lateral2(a, b, t) : t \in lost})
             /\ vt = Min({Vertical(a, b, t) : t \in lost})
        BY <3>1, <3>3, <3>6
      <3>10. ts <= s /\ s \in lost
        BY <3>1, <3>7, <3>8
      <3> HIDE DEF ts, lt, vt
      <3>11. call.out[n].ts = ts /\ call.out[n].lat2 = lt /\ call.out[n].vert = vt
        BY <3>1, <3>2 DEF ts, lt, vt
      <3> QED
        BY <3>8, <3>9, <3>10, <3>11
    <2>6. lost # {} /\ ~up => rep # {}
      BY <2>1, <2>2, <2>3
    <2>7. lost = {} /\ ~down => rep = {}
      BY <2>1, <2>2, <2>3
    <2> HIDE DEF lost, rep, up, down
    <2> QED
      BY <2>4, <2>5, <2>6, <2>7 DEF a, b, lost, rep, up, down
  <1>2. DetectInv(call) => ProbeExact
    BY <1>1 DEF ProbeExact
  <1> QED
    BY <1>2, DetectInvariant, PTL

-----------------------------------------------------------------------------
(* Occupancy.                                                              *)

SectorsAt(air, p) == SectorsFor(air, p.pos, p.fl)

NamesOf(given) == {given[n].plan : n \in DOMAIN given}

\* The first k flights are counted: each one that is inside some sector in
\* exactly one that it is inside of, once; and nobody else is.
Counted(air, given, plans, k) ==
  /\ DOMAIN plans = DOMAIN air
  /\ \A s \in DOMAIN air : plans[s] \in Seq(NamesOf(given))
  /\ \A s \in DOMAIN air : /\ IsFiniteSet(FlightsOf(plans[s]))
                           /\ Cardinality(FlightsOf(plans[s])) = Len(plans[s])
  /\ \A s \in DOMAIN air : \A f \in FlightsOf(plans[s]) :
       \E m \in 1 .. k : given[m].plan = f /\ s \in SectorsAt(air, given[m])
  /\ \A m \in 1 .. k : SectorsAt(air, given[m]) # {} =>
       \E s \in SectorsAt(air, given[m]) : \A u \in DOMAIN air :
         given[m].plan \in FlightsOf(plans[u]) <=> u = s

Uncounted(todo, given, k) ==
  /\ todo \in Seq({given[n] : n \in DOMAIN given})
  /\ k \in 0 .. Len(given) /\ Len(todo) = Len(given) - k
  /\ \A n \in 1 .. Len(todo) : todo[n] = given[k + n]

\* The sectors that are not left are listed, each one once, with its load.
Listed(air, plans, left, out) ==
  /\ left \subseteq DOMAIN air
  /\ out \in Seq({out[n] : n \in DOMAIN out})
  /\ \A n \in DOMAIN out :
       LET s == out[n].sector
       IN  s \in DOMAIN air \ left /\ out[n] = Load(s, plans[s], air[s].cap)
  /\ \A m, n \in DOMAIN out : out[m].sector = out[n].sector => m = n
  /\ \A s \in DOMAIN air \ left : \E n \in DOMAIN out : out[n].sector = s

\* Sectors are listed once all flights have been counted.
OccupancyInv(c) ==
  c.op = "Occupancy" =>
    /\ \E tr \in Traffic \cup {SelfCheckTraffic} : c.air = tr.air /\ c.given = tr.positions
    /\ \E k \in Nat : Uncounted(c.todo, c.given, k) /\ Counted(c.air, c.given, c.plans, k)
    /\ c.todo # <<>> => c.left = DOMAIN c.air /\ c.out = <<>>
    /\ Listed(c.air, c.plans, c.left, c.out)

\* What is listed of a sector.
LEMMA Loads ==
  ASSUME NEW s, NEW p, NEW cap
  PROVE  LET load == Load(s, p, cap)
         IN  /\ load.sector = s /\ load.plans = p /\ load.count = Len(p)
             /\ load.alert = (Len(p) > cap)
  BY DEF Load

\* The flights of the traffic are different flights.
LEMMA TrafficFields ==
  ASSUME NEW tr \in Traffic \cup {SelfCheckTraffic}, NEW given, given = tr.positions
  PROVE  /\ Len(given) \in Nat /\ DOMAIN given = 1 .. Len(given)
         /\ given \in Seq({given[n] : n \in DOMAIN given})
         /\ \A m, n \in 1 .. Len(given) : given[m].plan = given[n].plan => m = n
  <1>1. given \in Seq(Range(given))
    BY TrafficAssumption
  <1>2. \A m, n \in DOMAIN given : given[m].plan = given[n].plan => m = n
    BY TrafficAssumption
  <1>3. Range(given) = {given[n] : n \in DOMAIN given}
    BY DEF Range
  <1> QED
    BY <1>1, <1>2, <1>3

\* The flights of a list that grows are those of the list and the new one.
LEMMA OneMoreFlight ==
  ASSUME NEW S, NEW s \in Seq(S), NEW f \in S
  PROVE  FlightsOf(Append(s, f)) = FlightsOf(s) \cup {f}
  <1> DEFINE new == Append(s, f)
  <1>1. /\ DOMAIN new = DOMAIN s \cup {Len(s) + 1} /\ ~(Len(s) + 1 \in DOMAIN s)
        /\ new[Len(s) + 1] = f /\ \A n \in DOMAIN s : new[n] = s[n]
    BY Appended
  <1> HIDE DEF new
  <1>2. FlightsOf(new) = FlightsOf(s) \cup {f}
    BY <1>1 DEF FlightsOf
  <1> QED
    BY <1>2 DEF new

\* One flight more is counted.
LEMMA CountOne ==
  ASSUME NEW tr \in Traffic \cup {SelfCheckTraffic}, NEW air, NEW given, NEW plans, NEW more,
         NEW k \in Nat, given = tr.positions, k + 1 \in 1 .. Len(given),
         Counted(air, given, plans, k),
         \/ SectorsAt(air, given[k + 1]) = {} /\ more = plans
         \/ \E s \in SectorsAt(air, given[k + 1]) :
              more = [plans EXCEPT ![s] = Append(@, given[k + 1].plan)]
  PROVE  Counted(air, given, more, k + 1)
  <1> DEFINE last == given[k + 1]
             f == last.plan
  <1>1. /\ Len(given) \in Nat /\ DOMAIN given = 1 .. Len(given)
        /\ \A m, n \in 1 .. Len(given) : given[m].plan = given[n].plan => m = n
    BY TrafficFields
  <1>2. /\ 1 .. (k + 1) = (1 .. k) \cup {k + 1} /\ 1 .. k \subseteq 1 .. Len(given)
        /\ k + 1 \notin 1 .. k
    BY <1>1
  <1>3. \A m \in 1 .. k : given[m].plan # f
    BY <1>1, <1>2
  <1>4. \A s \in DOMAIN air : f \notin FlightsOf(plans[s])
    BY <1>3 DEF Counted
  <1>5. f \in NamesOf(given)
    BY <1>1 DEF NamesOf
  <1>6. SectorsAt(air, last) \subseteq DOMAIN air
    BY DEF SectorsAt, SectorsFor
  <1>7. CASE SectorsAt(air, last) = {} /\ more = plans
    <2>1. \A s \in DOMAIN air : \A g \in FlightsOf(plans[s]) :
            \E m \in 1 .. (k + 1) : given[m].plan = g /\ s \in SectorsAt(air, given[m])
      BY <1>2 DEF Counted
    <2>2. \A m \in 1 .. (k + 1) : SectorsAt(air, given[m]) # {} => m \in 1 .. k
      BY <1>2, <1>7
    <2>3. \A m \in 1 .. (k + 1) : SectorsAt(air, given[m]) # {} =>
            \E s \in SectorsAt(air, given[m]) : \A u \in DOMAIN air :
              given[m].plan \in FlightsOf(plans[u]) <=> u = s
      BY <2>2 DEF Counted
    <2> QED
      BY <1>7, <2>1, <2>3 DEF Counted
  <1>8. ASSUME NEW s \in SectorsAt(air, last), more = [plans EXCEPT ![s] = Append(@, f)]
        PROVE  Counted(air, given, more, k + 1)
    <2>1. s \in DOMAIN air /\ DOMAIN plans = DOMAIN air /\ DOMAIN more = DOMAIN air
      BY <1>6, <1>8 DEF Counted
    <2>2. /\ more[s] = Append(plans[s], f)
          /\ \A u \in DOMAIN air : u # s => more[u] = plans[u]
      BY <1>8, <2>1
    <2>3. \A u \in DOMAIN air : plans[u] \in Seq(NamesOf(given))
      BY DEF Counted
    <2>4. more[s] \in Seq(NamesOf(given)) /\ FlightsOf(more[s]) = FlightsOf(plans[s]) \cup {f}
      BY <1>5, <2>1, <2>2, <2>3, Appended, OneMoreFlight
    <2>5. \A u \in DOMAIN air : more[u] \in Seq(NamesOf(given))
      BY <2>2, <2>3, <2>4
    <2>11. \A u \in DOMAIN air : /\ IsFiniteSet(FlightsOf(more[u]))
                                /\ Cardinality(FlightsOf(more[u])) = Len(more[u])
      <3>1. \A u \in DOMAIN air : /\ IsFiniteSet(FlightsOf(plans[u]))
                                  /\ Cardinality(FlightsOf(plans[u])) = Len(plans[u])
        BY DEF Counted
      <3>2. Len(more[s]) = Len(plans[s]) + 1
        BY <1>5, <2>1, <2>2, <2>3, Appended
      <3>3. /\ IsFiniteSet(FlightsOf(more[s]))
            /\ Cardinality(FlightsOf(more[s])) = Cardinality(FlightsOf(plans[s])) + 1
        <4> DEFINE F == FlightsOf(plans[s])
        <4>1. IsFiniteSet(F) /\ ~(f \in F) /\ FlightsOf(more[s]) = F \cup {f}
          BY <1>4, <2>1, <2>4, <3>1
        <4> HIDE DEF F, f
        <4>2. IsFiniteSet(F \cup {f}) /\ Cardinality(F \cup {f}) = Cardinality(F) + 1
          BY <4>1, FS_AddElement
        <4> QED
          BY <4>1, <4>2 DEF F
      <3> QED
        BY <2>1, <2>2, <3>1, <3>2, <3>3
    <2>6. \A u \in DOMAIN air : \A g \in FlightsOf(more[u]) :
            \E m \in 1 .. (k + 1) : given[m].plan = g /\ u \in SectorsAt(air, given[m])
      <3> SUFFICES ASSUME NEW u \in DOMAIN air, NEW g \in FlightsOf(more[u])
                   PROVE  \E m \in 1 .. (k + 1) :
                            given[m].plan = g /\ u \in SectorsAt(air, given[m])
        OBVIOUS
      <3>1. CASE g \in FlightsOf(plans[u])
        BY <1>2, <3>1 DEF Counted
      <3>2. CASE u = s /\ g = f
        BY <1>2, <3>2
      <3> QED
        BY <2>2, <2>4, <3>1, <3>2
    <2>7. \A u \in DOMAIN air : f \in FlightsOf(more[u]) <=> u = s
      BY <1>4, <2>2, <2>4
    <2>8. \A m \in 1 .. k : \A u \in DOMAIN air :
            given[m].plan \in FlightsOf(more[u]) <=> given[m].plan \in FlightsOf(plans[u])
      BY <1>3, <2>2, <2>4
    <2>9. \A m \in 1 .. (k + 1) : SectorsAt(air, given[m]) # {} =>
            \E v \in SectorsAt(air, given[m]) : \A u \in DOMAIN air :
              given[m].plan \in FlightsOf(more[u]) <=> u = v
      <3>1. ASSUME NEW m \in 1 .. k, SectorsAt(air, given[m]) # {}
            PROVE  \E v \in SectorsAt(air, given[m]) : \A u \in DOMAIN air :
                     given[m].plan \in FlightsOf(more[u]) <=> u = v
        BY <2>8, <3>1 DEF Counted
      <3>2. \E v \in SectorsAt(air, last) : \A u \in DOMAIN air :
              f \in FlightsOf(more[u]) <=> u = v
        BY <2>7
      <3>3. ASSUME NEW m \in 1 .. (k + 1), SectorsAt(air, given[m]) # {}, m = k + 1
            PROVE  \E v \in SectorsAt(air, given[m]) : \A u \in DOMAIN air :
                     given[m].plan \in FlightsOf(more[u]) <=> u = v
        BY <3>2, <3>3
      <3>4. \A m \in 1 .. (k + 1) : m \in 1 .. k \/ m = k + 1
        BY <1>2
      <3> QED
        BY <3>1, <3>3, <3>4
    <2> QED
      BY <2>1, <2>5, <2>6, <2>9, <2>11 DEF Counted
  <1> QED
    BY <1>7, <1>8

\* The next flight is the first of those that remain.
LEMMA NextFlight ==
  ASSUME NEW todo, NEW given, NEW k \in Nat, Len(given) \in Nat,
         Uncounted(todo, given, k), todo # <<>>
  PROVE  /\ k + 1 \in 1 .. Len(given) /\ Head(todo) = given[k + 1]
         /\ Uncounted(Tail(todo), given, k + 1)
  <1> DEFINE S == {given[n] : n \in DOMAIN given}
             size == Len(given)
  <1>1. todo \in Seq(S) /\ k \in 0 .. size /\ Len(todo) = size - k
        /\ \A m \in 1 .. Len(todo) : todo[m] = given[k + m]
    BY DEF Uncounted
  <1> HIDE DEF S, size
  <1>2. Len(todo) \in Nat /\ Len(todo) # 0
    BY <1>1
  <1>3. /\ Head(todo) = todo[1] /\ Tail(todo) \in Seq(S) /\ Len(Tail(todo)) = Len(todo) - 1
        /\ \A m \in 1 .. (Len(todo) - 1) : Tail(todo)[m] = todo[m + 1]
    BY <1>1
  <1>4. size \in Nat
    BY DEF size
  <1>5. k + 1 \in 1 .. size /\ k + 1 \in 0 .. size /\ Len(Tail(todo)) = size - (k + 1)
    BY <1>1, <1>2, <1>3, <1>4
  <1>6. \A m \in 1 .. Len(Tail(todo)) : Tail(todo)[m] = given[(k + 1) + m]
    <2> SUFFICES ASSUME NEW m \in 1 .. Len(Tail(todo))
                 PROVE  Tail(todo)[m] = given[(k + 1) + m]
      OBVIOUS
    <2>1. m \in Nat /\ m \in 1 .. (Len(todo) - 1) /\ m + 1 \in 1 .. Len(todo)
      BY <1>2, <1>3
    <2>2. Tail(todo)[m] = todo[m + 1] /\ todo[m + 1] = given[k + (m + 1)]
      BY <1>1, <1>3, <2>1
    <2>3. k + (m + 1) = (k + 1) + m
      BY <2>1
    <2> QED
      BY <2>2, <2>3
  <1>7. Head(todo) = given[k + 1]
    BY <1>1, <1>2, <1>3
  <1> QED
    BY <1>3, <1>5, <1>6, <1>7 DEF Uncounted, S, size

\* One sector more is listed.
LEMMA ListOne ==
  ASSUME NEW air, NEW plans, NEW left, NEW out, NEW s \in left,
         Listed(air, plans, left, out)
  PROVE  Listed(air, plans, left \ {s}, Append(out, Load(s, plans[s], air[s].cap)))
  <1> DEFINE load == Load(s, plans[s], air[s].cap)
             S == {out[n] : n \in DOMAIN out} \cup {load}
             more == Append(out, load)
             size == Len(out) + 1
             rest == left \ {s}
  <1>1. load.sector = s /\ load = Load(s, plans[s], air[s].cap)
    BY DEF Load
  <1>2. s \in DOMAIN air /\ s \notin DOMAIN air \ left /\ rest \subseteq DOMAIN air
        /\ DOMAIN air \ rest = (DOMAIN air \ left) \cup {s}
    BY DEF Listed
  <1> HIDE DEF load
  <1>3. out \in Seq(S) /\ load \in S
    BY DEF Listed
  <1> HIDE DEF S
  <1>4. /\ more \in Seq(S) /\ DOMAIN more = DOMAIN out \cup {size} /\ size \notin DOMAIN out
        /\ more[size] = load /\ \A n \in DOMAIN out : more[n] = out[n]
    BY <1>3, Appended
  <1>5. more \in Seq({more[n] : n \in DOMAIN more})
    BY <1>4
  <1> HIDE DEF more, size, rest
  <1>6. \A n \in DOMAIN more :
          LET u == more[n].sector
          IN  u \in DOMAIN air \ rest /\ more[n] = Load(u, plans[u], air[u].cap)
    <2>1. \A n \in DOMAIN out :
            LET u == out[n].sector
            IN  u \in DOMAIN air \ left /\ out[n] = Load(u, plans[u], air[u].cap)
      BY DEF Listed
    <2> QED
      BY <1>1, <1>2, <1>4, <2>1
  <1>7. \A m, n \in DOMAIN more : more[m].sector = more[n].sector => m = n
    <2>1. \A n \in DOMAIN out : out[n].sector # s
      BY <1>2 DEF Listed
    <2>2. \A m, n \in DOMAIN out : out[m].sector = out[n].sector => m = n
      BY DEF Listed
    <2> QED
      BY <1>1, <1>4, <2>1, <2>2
  <1>8. \A u \in DOMAIN air \ rest : \E n \in DOMAIN more : more[n].sector = u
    <2>1. \A u \in DOMAIN air \ left : \E n \in DOMAIN out : out[n].sector = u
      BY DEF Listed
    <2> QED
      BY <1>1, <1>2, <1>4, <2>1
  <1>9. Listed(air, plans, rest, more)
    BY <1>2, <1>5, <1>6, <1>7, <1>8 DEF Listed
  <1> QED
    BY <1>9 DEF rest, more, load

\* Flights are counted one by one, then the sectors are listed.
LEMMA OccupancyNext ==
  ASSUME Shape(call), OccupancyInv(call), [Next]_call
  PROVE  OccupancyInv(call')
  <1>1. ASSUME NEW tr \in Traffic \cup {SelfCheckTraffic}, NEW caller \in {"client", "selfcheck"},
               call' = OccupancyFrame(tr, caller)
        PROVE  OccupancyInv(call')
    <2> DEFINE air == tr.air
               given == tr.positions
               plans == [s \in DOMAIN air |-> <<>>]
    <2>1. /\ call'.air = air /\ call'.given = given /\ call'.todo = given
          /\ call'.plans = plans /\ call'.left = DOMAIN air /\ call'.out = <<>>
      <3> DEFINE c == OccupancyFrame(tr, caller)
      <3>1. /\ c.air = air /\ c.given = given /\ c.todo = given
            /\ c.plans = plans /\ c.left = DOMAIN air /\ c.out = <<>>
        BY FrameFields
      <3> QED
        BY <1>1, <3>1
    <2>2. Len(given) \in Nat /\ given \in Seq({given[n] : n \in DOMAIN given})
      <3>1. \A g : g = tr.positions => Len(g) \in Nat /\ g \in Seq({g[n] : n \in DOMAIN g})
        BY TrafficFields
      <3> QED
        BY <3>1
    <2>3. Uncounted(given, given, 0)
      <3>1. \A n \in 1 .. Len(given) : given[n] = given[0 + n]
        BY <2>2
      <3> QED
        BY <2>2, <3>1 DEF Uncounted
    <2>4. Counted(air, given, plans, 0)
      <3>1. /\ FlightsOf(<<>>) = {} /\ IsFiniteSet(FlightsOf(<<>>))
            /\ Cardinality(FlightsOf(<<>>)) = Len(<<>>)
        BY FS_EmptySet DEF FlightsOf
      <3>2. \A s \in DOMAIN air : plans[s] = <<>>
        OBVIOUS
      <3>3. 1 .. 0 = {} /\ DOMAIN plans = DOMAIN air
        OBVIOUS
      <3>4. <<>> \in Seq(NamesOf(given))
        OBVIOUS
      <3> HIDE DEF plans, air, given
      <3> QED
        BY <3>1, <3>2, <3>3, <3>4 DEF Counted
    <2>5. Listed(air, plans, DOMAIN air, <<>>)
      BY DEF Listed
    <2> HIDE DEF plans
    <2> QED
      BY <2>1, <2>3, <2>4, <2>5 DEF OccupancyInv
  <1>2. CASE Collect
    <2> DEFINE p == Head(call.todo)
    <2>1. /\ call.op = "Occupancy" /\ call.todo # <<>> /\ call'.op = "Occupancy"
          /\ call'.air = call.air /\ call'.given = call.given /\ call'.todo = Tail(call.todo)
          /\ call'.left = call.left /\ call'.out = call.out
          /\ \/ SectorsAt(call.air, p) = {} /\ call'.plans = call.plans
             \/ \E s \in SectorsAt(call.air, p) :
                  call'.plans = [call.plans EXCEPT ![s] = Append(@, p.plan)]
      BY <1>2, CollectFields DEF SectorsAt
    <2>2. PICK tr \in Traffic \cup {SelfCheckTraffic} :
            call.air = tr.air /\ call.given = tr.positions
      BY <2>1 DEF OccupancyInv
    <2>3. PICK k \in Nat : /\ Uncounted(call.todo, call.given, k)
                           /\ Counted(call.air, call.given, call.plans, k)
      BY <2>1 DEF OccupancyInv
    <2>4. Len(call.given) \in Nat
      BY <2>2, TrafficFields
    <2>5. /\ k + 1 \in 1 .. Len(call.given) /\ p = call.given[k + 1]
          /\ Uncounted(call'.todo, call'.given, k + 1)
      BY <2>1, <2>3, <2>4, NextFlight
    <2> HIDE DEF p
    <2>6. \/ SectorsAt(call.air, call.given[k + 1]) = {} /\ call'.plans = call.plans
          \/ \E s \in SectorsAt(call.air, call.given[k + 1]) :
               call'.plans = [call.plans EXCEPT ![s] = Append(@, call.given[k + 1].plan)]
      BY <2>1, <2>5
    <2>7. Counted(call'.air, call'.given, call'.plans, k + 1)
      BY <2>1, <2>2, <2>3, <2>5, <2>6, CountOne
    <2>8. call'.left = DOMAIN call'.air /\ call'.out = <<>>
      BY <2>1 DEF OccupancyInv
    <2>9. Listed(call'.air, call'.plans, call'.left, call'.out)
      BY <2>8 DEF Listed
    <2>10. k + 1 \in Nat
      OBVIOUS
    <2> QED
      BY <2>1, <2>2, <2>5, <2>7, <2>8, <2>9, <2>10 DEF OccupancyInv
  <1>3. CASE ListSector
    <2>1. PICK s \in call.left :
            /\ call'.left = call.left \ {s}
            /\ call'.out = Append(call.out, Load(s, call.plans[s], call.air[s].cap))
      BY <1>3, ListSectorFields
    <2>2. /\ call.op = "Occupancy" /\ call.todo = <<>> /\ call'.op = "Occupancy"
          /\ call'.air = call.air /\ call'.todo = call.todo /\ call'.plans = call.plans
          /\ call'.given = call.given
      BY <1>3, ListSectorFields
    <2>3. Listed(call.air, call.plans, call'.left, call'.out)
      <3>1. Listed(call.air, call.plans, call.left, call.out)
        BY <2>2 DEF OccupancyInv
      <3>2. Listed(call.air, call.plans, call.left \ {s},
                   Append(call.out, Load(s, call.plans[s], call.air[s].cap)))
        BY <3>1, ListOne
      <3> QED
        BY <2>1, <3>2
    <2> QED
      BY <2>2, <2>3 DEF OccupancyInv
  <1>4. ASSUME NEW f \in Flights,
               call' = [op |-> "Predict", caller |-> "client", flight |-> f,
                        t |-> 0, entry |-> None]
        PROVE  OccupancyInv(call')
    BY <1>4 DEF OccupancyInv
  <1>5. ASSUME NEW q \in Queues,
               call' = [op |-> "Trail", caller |-> "client", queue |-> q, i |-> 1, out |-> <<>>]
        PROVE  OccupancyInv(call')
    BY <1>5 DEF OccupancyInv
  <1>6. CASE call' = Idle \/ call' = call
    BY <1>6 DEF Idle, OccupancyInv
  <1>7. CASE ProbePair \/ SampleRoute \/ CheckGap
    BY <1>7, ProbePairFields, SampleRouteFields, CheckGapFields DEF OccupancyInv
  <1>8. CASE \/ \E tracks \in Pictures \cup {SelfCheckTracks}, caller \in {"client", "selfcheck"} :
                  call' = DetectFrame(tracks, caller)
             \/ \E passed : call' = SelfCheckResult(passed)
    BY <1>8, FrameFields DEF OccupancyInv
  <1> QED
    BY <1>1, <1>2, <1>3, <1>4, <1>5, <1>6, <1>7, <1>8, NextShape

\* Whatever the order of the maps, each sector is listed once, with flights that
\* are inside it and their number, and no flight that is inside some sector is
\* left out (flow.Occupancy).
THEOREM FlightsAreCounted == Spec => []FlightsCounted
  <1>1. Init => Shape(call) /\ OccupancyInv(call)
    BY DEF Init, Shape, OccupancyInv, Idle
  <1>2. Shape(call) /\ OccupancyInv(call) /\ [Next]_call => (Shape(call) /\ OccupancyInv(call))'
    BY NextShape, OccupancyNext
  <1>3. OccupancyInv(call) => FlightsCounted
    <2> SUFFICES ASSUME OccupancyInv(call), OccupancyFinished
                 PROVE  FlightsCounted
      BY DEF FlightsCounted
    <2> DEFINE air == call.air
               given == call.given
               plans == call.plans
               out == call.out
    <2>1. call.op = "Occupancy" /\ call.todo = <<>> /\ call.left = {}
      BY DEF OccupancyFinished, OccupancyDone
    <2>2. PICK tr \in Traffic \cup {SelfCheckTraffic} : air = tr.air /\ given = tr.positions
      BY <2>1 DEF OccupancyInv
    <2>3. PICK k \in Nat : Uncounted(call.todo, given, k) /\ Counted(air, given, plans, k)
      BY <2>1 DEF OccupancyInv
    <2>4. /\ Len(given) \in Nat /\ DOMAIN given = 1 .. Len(given)
          /\ \A m, n \in 1 .. Len(given) : given[m].plan = given[n].plan => m = n
      BY <2>2, TrafficFields
    <2>5. k = Len(given)
      BY <2>1, <2>3, <2>4 DEF Uncounted
    <2>6. /\ \A n \in DOMAIN out :
               /\ out[n].sector \in DOMAIN air /\ out[n].plans = plans[out[n].sector]
               /\ out[n].count = Len(out[n].plans)
          /\ \A m, n \in DOMAIN out : out[m].sector = out[n].sector => m = n
          /\ \A s \in DOMAIN air : \E n \in DOMAIN out : out[n].sector = s
      <3>1. Listed(air, plans, {}, out)
        BY <2>1 DEF OccupancyInv
      <3> HIDE DEF air, plans, out
      <3>2. \A n \in DOMAIN out :
              LET s == out[n].sector
              IN  s \in DOMAIN air /\ out[n] = Load(s, plans[s], air[s].cap)
        BY <3>1 DEF Listed
      <3>3. \A n \in DOMAIN out : /\ out[n].plans = plans[out[n].sector]
                                  /\ out[n].count = Len(out[n].plans)
        BY <3>2, Loads
      <3>4. DOMAIN air \ {} = DOMAIN air
        OBVIOUS
      <3> QED
        BY <3>1, <3>2, <3>3, <3>4 DEF Listed
    <2>7. \A n \in DOMAIN given, s \in DOMAIN air :
            s \in SectorsAt(air, given[n]) <=> InsideSector(air[s], given[n].pos, given[n].fl)
      BY DEF SectorsAt, SectorsFor
    <2>8. /\ \A s \in DOMAIN air : Cardinality(FlightsOf(plans[s])) = Len(plans[s])
          /\ \A s \in DOMAIN air : \A f \in FlightsOf(plans[s]) :
               \E m \in DOMAIN given : given[m].plan = f /\ s \in SectorsAt(air, given[m])
          /\ \A m \in DOMAIN given : SectorsAt(air, given[m]) # {} =>
               \E s \in SectorsAt(air, given[m]) : \A u \in DOMAIN air :
                 given[m].plan \in FlightsOf(plans[u]) <=> u = s
      <3>1. 1 .. k = DOMAIN given
        BY <2>4, <2>5
      <3> HIDE DEF air, given, plans
      <3> QED
        BY <2>3, <3>1 DEF Counted
    <2>9. \A s : InsideOf(s) = {given[n].plan : n \in {m \in DOMAIN given :
                                  InsideSector(air[s], given[m].pos, given[m].fl)}}
      BY DEF InsideOf
    <2>10. \A m \in DOMAIN given : SectorsAt(air, given[m]) \subseteq DOMAIN air
      BY DEF SectorsAt, SectorsFor
    <2> HIDE DEF air, given, plans, out
    <2>11. ASSUME NEW n \in DOMAIN out
           PROVE  /\ FlightsOf(out[n].plans) \subseteq InsideOf(out[n].sector)
                  /\ out[n].count = Cardinality(FlightsOf(out[n].plans))
      <3>1. out[n].sector \in DOMAIN air /\ out[n].plans = plans[out[n].sector]
        BY <2>6
      <3>2. out[n].count = Len(out[n].plans)
        BY <2>6
      <3>3. FlightsOf(out[n].plans) \subseteq InsideOf(out[n].sector)
        BY <2>7, <2>8, <2>9, <3>1
      <3>4. Cardinality(FlightsOf(out[n].plans)) = Len(out[n].plans)
        BY <2>8, <3>1
      <3> QED
        BY <3>2, <3>3, <3>4
    <2>12. ASSUME NEW s \in DOMAIN air, NEW f \in InsideOf(s)
           PROVE  \E n \in DOMAIN out : f \in FlightsOf(out[n].plans)
      <3>1. PICK m \in DOMAIN given : f = given[m].plan /\ s \in SectorsAt(air, given[m])
        BY <2>7, <2>9
      <3>2. PICK home \in SectorsAt(air, given[m]) : \A u \in DOMAIN air :
              f \in FlightsOf(plans[u]) <=> u = home
        BY <2>8, <3>1
      <3>3. home \in DOMAIN air
        BY <2>10
      <3>4. PICK only \in DOMAIN out : out[only].sector = home
        BY <2>6, <3>3
      <3> QED
        BY <2>6, <3>2, <3>3, <3>4
    <2>13. ASSUME NEW s \in DOMAIN air
           PROVE  Cardinality({n \in DOMAIN out : out[n].sector = s}) = 1
      <3>1. PICK only \in DOMAIN out : out[only].sector = s
        BY <2>6
      <3>2. {n \in DOMAIN out : out[n].sector = s} = {only}
        BY <2>6, <3>1
      <3> QED
        BY <3>2, FS_Singleton
    <2> QED
      BY <2>11, <2>12, <2>13 DEF FlightsCounted, air, out
  <1> QED
    BY <1>1, <1>2, <1>3, PTL DEF Spec

-----------------------------------------------------------------------------
(* The smoke test.                                                         *)

\* A smaller number has a smaller square.
LEMMA Squares ==
  ASSUME NEW d \in Int, NEW n \in Nat, -n <= d, d <= n
  PROVE  d * d <= n * n
  <1>1. PICK e \in Nat : (e = d \/ e = -d) /\ e <= n
    <2>1. CASE d >= 0
      BY <2>1
    <2>2. CASE d < 0
      <3>1. -d \in Nat /\ -d <= n
        BY <2>2
      <3> QED
        BY <3>1
    <2> QED
      BY <2>1, <2>2
  <1>2. d = e \/ d = -e
    BY <1>1
  <1>3. (-e) * (-e) = e * e
    OBVIOUS
  <1>4. d * d = e * e
    BY <1>2, <1>3
  <1>5. e * e <= n * e /\ e * n <= n * n
    BY <1>1, Multiples
  <1>6. n * e = e * n /\ e * e \in Nat /\ n * e \in Nat /\ n * n \in Nat
    OBVIOUS
  <1> QED
    BY <1>4, <1>5, <1>6

\* The two tracks of the smoke test are 6 nm apart and close at 960 kt: after 4
\* seconds they are within 5 nm, and until 41 seconds they are.
LEMMA SmokeConflict ==
  ASSUME StepSec \in 4 .. 41, StepSec <= LookaheadSec
  PROVE  detectPair(SelfCheckTracks[1], SelfCheckTracks[2]) # None
  <1> DEFINE a == SelfCheckTracks[1]
             b == SelfCheckTracks[2]
             t == StepSec
  <1>1. /\ a.pos.x = -900 /\ a.pos.y = 0 /\ a.fl = 350 /\ a.hdg = 90 /\ a.gs = 480 /\ a.vr = 0
        /\ b.pos.x = 900 /\ b.pos.y = 0 /\ b.fl = 350 /\ b.hdg = 270 /\ b.gs = 480 /\ b.vr = 0
        /\ Len(SelfCheckTracks) = 2
    BY DEF SelfCheckTracks
  <1>2. TrackState(a) /\ TrackState(b) /\ None \notin ConflictOf(a, b)
    <2>1. Len(SelfCheckTracks) = 2
      BY <1>1
    <2>2. \A n \in 1 .. 2 : TrackState(SelfCheckTracks[n])
      BY <2>1, PictureFields
    <2>3. \A m, n \in 1 .. 2 : None \notin ConflictOf(SelfCheckTracks[m], SelfCheckTracks[n])
      BY <2>1, PictureFields
    <2> QED
      BY <2>2, <2>3
  <1> HIDE DEF a, b
  <1>3. t \in Nat /\ 4 <= t /\ t <= 41 /\ LookaheadSec \in Nat
    BY Window
  <1>4. t \in Samples
    <2>1. t % t = 0
      BY <1>3
    <2> QED
      BY <1>3, <2>1 DEF Samples
  <1> HIDE DEF t
  <1>5. Travel(480, t) = 40 * t
    BY <1>3 DEF Travel
  <1>6. East(90) = 1 /\ North(90) = 0 /\ East(270) = -1 /\ North(270) = 0
    BY DEF East, North
  <1>7. /\ ProjectFromTrack(a, t).pos = [x |-> -900 + 40 * t, y |-> 0]
        /\ ProjectFromTrack(b, t).pos = [x |-> 900 - 40 * t, y |-> 0]
    <2>1. /\ ProjectFromTrack(a, t).pos = [x |-> a.pos.x + Travel(480, t) * East(90),
                                           y |-> a.pos.y + Travel(480, t) * North(90)]
          /\ ProjectFromTrack(b, t).pos = [x |-> b.pos.x + Travel(480, t) * East(270),
                                           y |-> b.pos.y + Travel(480, t) * North(270)]
      BY <1>1 DEF ProjectFromTrack, Shift
    <2>2. PICK d \in Nat : d = Travel(480, t) /\ d = 40 * t
      BY <1>3, <1>5
    <2>3. d * 1 = d /\ d * 0 = 0 /\ d * (-1) = -d
      OBVIOUS
    <2>4. /\ -900 + d * East(90) = -900 + 40 * t /\ 0 + d * North(90) = 0
          /\ 900 + d * East(270) = 900 - 40 * t /\ 0 + d * North(270) = 0
      BY <1>3, <1>6, <2>2, <2>3
    <2> QED
      BY <1>1, <2>1, <2>2, <2>4
  <1>8. Lateral2(a, b, t) < LateralMin * LateralMin
    <2> DEFINE d == (-900 + 40 * t) - (900 - 40 * t)
    <2>1. d \in Int /\ -1480 <= d /\ d <= 1480
      BY <1>3
    <2>2. Lateral2(a, b, t) = d * d + (0 - 0) * (0 - 0)
      BY <1>7 DEF Lateral2, Distance2
    <2> HIDE DEF d
    <2>3. d * d <= 1480 * 1480 /\ d * d \in Int
      BY <2>1, Squares
    <2>4. LateralMin * LateralMin = 2250000 /\ 1480 * 1480 = 2190400 /\ (0 - 0) * (0 - 0) = 0
      BY DEF LateralMin
    <2> QED
      BY <2>2, <2>3, <2>4
  <1>9. Vertical(a, b, t) = 0
    <2>1. ProjectFromTrack(a, t).fl = ProjectFromTrack(b, t).fl
      BY <1>1 DEF ProjectFromTrack
    <2>2. ProjectFromTrack(a, t).fl \in Nat
      BY <1>2, <1>3, ProjectedFields
    <2> QED
      BY <2>1, <2>2 DEF Vertical, absFL, Abs
  <1>10. VerticalMinFt(a.fl, b.fl) = 1000
    BY <1>1 DEF VerticalMinFt
  <1>11. t \in LostAt(a, b)
    BY <1>4, <1>8, <1>9, <1>10 DEF LostAt, Lost
  <1>12. detectPair(a, b) # None
    BY <1>2, <1>11, PairConflict
  <1> QED
    BY <1>12 DEF a, b

\* Both flights of the smoke test are in its sector.
LEMMA SmokeInside ==
  LET tr == SelfCheckTraffic
  IN  /\ DOMAIN tr.air = {"E"} /\ tr.air["E"].cap = 1 /\ DOMAIN tr.positions = 1 .. 2
      /\ tr.positions[1].plan = "A" /\ tr.positions[2].plan = "B"
      /\ \A n \in 1 .. 2 : InsideSector(tr.air["E"], tr.positions[n].pos, tr.positions[n].fl)
  <1> DEFINE tr == SelfCheckTraffic
             s == tr.air["E"]
             box == <<[x |-> -20, y |-> -20], [x |-> 20, y |-> -20],
                      [x |-> 20, y |-> 20], [x |-> -20, y |-> 20]>>
  <1>1. /\ DOMAIN tr.air = {"E"} /\ s.cap = 1 /\ s.floor = 100 /\ s.ceiling = 450
        /\ s.poly = box
        /\ tr.positions = <<[plan |-> "A", pos |-> [x |-> 0, y |-> 0], fl |-> 350],
                            [plan |-> "B", pos |-> [x |-> 4, y |-> 4], fl |-> 350]>>
    BY DEF SelfCheckTraffic
  <1> HIDE DEF tr
  <1>2. ASSUME NEW k \in {0, 4}
        PROVE  PointInPolygon(box, [x |-> k, y |-> k])
    <2> DEFINE pt == [x |-> k, y |-> k]
               East1(i) == Spans(box[i], box[Before(box, i)], pt)
                           /\ WestOf(box[i], box[Before(box, i)], pt)
    <2>1. Len(box) = 4 /\ Before(box, 1) = 4 /\ Before(box, 2) = 1 /\ Before(box, 3) = 2
          /\ Before(box, 4) = 3
      BY DEF Before
    <2>2. /\ ~WestOf(box[1], box[4], pt) /\ ~Spans(box[2], box[1], pt)
          /\ Spans(box[3], box[2], pt) /\ WestOf(box[3], box[2], pt)
          /\ ~Spans(box[4], box[3], pt)
      BY <1>2 DEF Spans, WestOf
    <2>3. ~East1(1) /\ ~East1(2) /\ East1(3) /\ ~East1(4)
      BY <2>1, <2>2
    <2> HIDE DEF East1
    <2>4. {i \in 1 .. Len(box) : East1(i)} = {3}
      <3>1. \A i \in 1 .. Len(box) : i = 1 \/ i = 2 \/ i = 3 \/ i = 4
        BY <2>1
      <3>2. 3 \in 1 .. Len(box)
        BY <2>1
      <3> HIDE DEF box
      <3> QED
        BY <2>3, <3>1, <3>2
    <2>5. Cardinality({i \in 1 .. Len(box) : East1(i)}) = 1
      BY <2>4, FS_Singleton
    <2>6. PointInPolygon(box, pt) <=>
            Len(box) >= 3 /\ Cardinality({i \in 1 .. Len(box) : East1(i)}) % 2 = 1
      BY DEF PointInPolygon, East1
    <2> HIDE DEF box, pt
    <2> QED
      BY <2>1, <2>5, <2>6 DEF pt
  <1> HIDE DEF box
  <1>3. \A n \in 1 .. 2 : InsideSector(s, tr.positions[n].pos, tr.positions[n].fl)
    BY <1>1, <1>2 DEF InsideSector, InBand
  <1> QED
    BY <1>1, <1>3 DEF tr

\* The smoke test passes its own traffic and tracks, and it passes.
SmokeInv(c) ==
  /\ c.op = "Occupancy" /\ c.caller = "selfcheck" =>
       c.air = SelfCheckTraffic.air /\ c.given = SelfCheckTraffic.positions
  /\ c.op = "Detect" /\ c.caller = "selfcheck" => c.tracks = SelfCheckTracks
  /\ c.op = "SelfCheck" => c.passed

\* A sector is listed with the flights inside it, if none is in two sectors.
LEMMA LoadExact ==
  ASSUME OccupancyInv(call), OccupancyFinished, NEW s \in DOMAIN call.air,
         \A u \in DOMAIN call.air : u # s => InsideOf(s) \cap InsideOf(u) = {}
  PROVE  \E n \in DOMAIN call.out :
           /\ call.out[n].sector = s
           /\ call.out[n].count = Cardinality(InsideOf(s))
           /\ call.out[n].alert <=> Cardinality(InsideOf(s)) > call.air[s].cap
  <1> DEFINE air == call.air
             given == call.given
             plans == call.plans
             out == call.out
  <1>1. call.op = "Occupancy" /\ call.todo = <<>> /\ call.left = {}
    BY DEF OccupancyFinished, OccupancyDone
  <1>2. PICK tr \in Traffic \cup {SelfCheckTraffic} : air = tr.air /\ given = tr.positions
    BY <1>1 DEF OccupancyInv
  <1>3. PICK k \in Nat : Uncounted(call.todo, given, k) /\ Counted(air, given, plans, k)
    BY <1>1 DEF OccupancyInv
  <1>4. Len(given) \in Nat /\ DOMAIN given = 1 .. Len(given)
    BY <1>2, TrafficFields
  <1>5. 1 .. k = DOMAIN given
    BY <1>1, <1>3, <1>4 DEF Uncounted
  <1>6. \A u : InsideOf(u) = {given[n].plan : n \in {m \in DOMAIN given :
                                InsideSector(air[u], given[m].pos, given[m].fl)}}
    BY DEF InsideOf
  <1>7. \A n \in DOMAIN given, u \in DOMAIN air :
          u \in SectorsAt(air, given[n]) <=> InsideSector(air[u], given[n].pos, given[n].fl)
    BY DEF SectorsAt, SectorsFor
  <1>8. \A n \in DOMAIN given : SectorsAt(air, given[n]) \subseteq DOMAIN air
    BY DEF SectorsAt, SectorsFor
  <1>9. \A u \in DOMAIN air : u # s => InsideOf(s) \cap InsideOf(u) = {}
    OBVIOUS
  <1>10. Listed(air, plans, {}, out)
    BY <1>1 DEF OccupancyInv
  <1>11. s \in DOMAIN air
    OBVIOUS
  <1> HIDE DEF air, given, plans, out
  <1>12. FlightsOf(plans[s]) \subseteq InsideOf(s)
    BY <1>3, <1>5, <1>6, <1>7, <1>11 DEF Counted
  <1>13. ASSUME NEW f \in InsideOf(s)
         PROVE  f \in FlightsOf(plans[s])
    <2>1. PICK m \in DOMAIN given : f = given[m].plan /\ s \in SectorsAt(air, given[m])
      BY <1>6, <1>7, <1>11
    <2>2. PICK home \in SectorsAt(air, given[m]) : \A u \in DOMAIN air :
            f \in FlightsOf(plans[u]) <=> u = home
      <3>1. \A j \in 1 .. k : SectorsAt(air, given[j]) # {} =>
              \E v \in SectorsAt(air, given[j]) : \A u \in DOMAIN air :
                given[j].plan \in FlightsOf(plans[u]) <=> u = v
        BY <1>3 DEF Counted
      <3>2. m \in 1 .. k
        BY <1>5
      <3> QED
        BY <2>1, <3>1, <3>2
    <2>3. home \in DOMAIN air /\ f \in InsideOf(home)
      BY <1>6, <1>7, <1>8, <2>1
    <2>4. home = s
      BY <1>9, <2>3
    <2> QED
      BY <1>11, <2>2, <2>4
  <1>14. FlightsOf(plans[s]) = InsideOf(s)
    BY <1>12, <1>13
  <1>15. Cardinality(InsideOf(s)) = Len(plans[s])
    BY <1>3, <1>11, <1>14 DEF Counted
  <1>16. PICK n \in DOMAIN out : out[n] = Load(s, plans[s], air[s].cap)
    <2>1. DOMAIN air \ {} = DOMAIN air
      OBVIOUS
    <2> QED
      BY <1>10, <1>11, <2>1 DEF Listed
  <1>17. /\ out[n].sector = s /\ out[n].count = Len(plans[s])
         /\ out[n].alert = (Len(plans[s]) > air[s].cap)
    BY <1>16, Loads
  <1> QED
    BY <1>15, <1>17 DEF out, air

\* The overload of the smoke test is listed, and nothing else.
LEMMA SmokeLoad ==
  ASSUME OccupancyInv(call), SmokeInv(call), OccupancyFinished, call.caller = "selfcheck"
  PROVE  Len(call.out) = 1 /\ call.out[1].alert
  <1> DEFINE out == call.out
  <1>1. /\ call.op = "Occupancy" /\ call.left = {}
        /\ call.air = SelfCheckTraffic.air /\ call.given = SelfCheckTraffic.positions
    BY DEF OccupancyFinished, OccupancyDone, SmokeInv
  <1>2. DOMAIN call.air = {"E"} /\ call.air["E"].cap = 1
    BY <1>1, SmokeInside
  <1>3. InsideOf("E") = {"A", "B"}
    <2>1. /\ DOMAIN call.given = 1 .. 2 /\ call.given[1].plan = "A" /\ call.given[2].plan = "B"
          /\ \A m \in 1 .. 2 :
               InsideSector(call.air["E"], call.given[m].pos, call.given[m].fl)
      BY <1>1, SmokeInside
    <2>2. InsideOf("E") = {call.given[n].plan : n \in 1 .. 2}
      BY <2>1 DEF InsideOf
    <2>3. \A n \in 1 .. 2 : n = 1 \/ n = 2
      OBVIOUS
    <2>4. 1 \in 1 .. 2 /\ 2 \in 1 .. 2
      OBVIOUS
    <2> QED
      BY <2>1, <2>2, <2>3, <2>4
  <1>4. Cardinality(InsideOf("E")) = 2
    <2>1. IsFiniteSet({"A"}) /\ Cardinality({"A"}) = 1
      BY FS_Singleton
    <2>2. "B" \notin {"A"} /\ {"A", "B"} = {"A"} \cup {"B"}
      OBVIOUS
    <2>3. Cardinality({"A"} \cup {"B"}) = Cardinality({"A"}) + 1
      BY <2>1, <2>2, FS_AddElement
    <2> QED
      BY <1>3, <2>1, <2>2, <2>3
  <1>5. PICK n \in DOMAIN out :
          out[n].alert <=> Cardinality(InsideOf("E")) > call.air["E"].cap
    BY <1>2, LoadExact
  <1>6. Listed(call.air, call.plans, {}, out)
    BY <1>1 DEF OccupancyInv
  <1> HIDE DEF out
  <1>7. \A m \in DOMAIN out : m = n
    <2>1. \A m \in DOMAIN out : out[m].sector = "E"
      BY <1>2, <1>6 DEF Listed
    <2> QED
      BY <1>6, <2>1 DEF Listed
  <1>8. Len(out) \in Nat /\ DOMAIN out = 1 .. Len(out)
    BY <1>6 DEF Listed
  <1>9. Len(out) = 1 /\ n = 1
    <2>1. Len(out) >= 1 /\ 1 \in DOMAIN out
      BY <1>8
    <2>2. Len(out) \in DOMAIN out
      BY <1>8, <2>1
    <2> QED
      BY <1>7, <2>1, <2>2
  <1> QED
    BY <1>2, <1>4, <1>5, <1>9 DEF out

\* The conflict of the smoke test is reported, and nothing else.
LEMMA SmokePair ==
  ASSUME StepSec \in 4 .. 41, StepSec <= LookaheadSec,
         DetectInv(call), SmokeInv(call), DetectFinished, call.caller = "selfcheck"
  PROVE  Len(call.out) = 1
  <1> DEFINE out == call.out
             p == <<1, 2>>
  <1>1. call.op = "Detect" /\ call.tracks = SelfCheckTracks
    BY DEF DetectFinished, SmokeInv
  <1>2. Len(SelfCheckTracks) = 2
    BY DEF SelfCheckTracks
  <1>3. p \in Pairs(call.tracks) /\ \A q \in Pairs(call.tracks) : q = p
    BY <1>1, <1>2 DEF Pairs
  <1>4. PICK n \in DOMAIN out :
          /\ Reports(out, call.tracks[1], call.tracks[2]) = {n}
          /\ out[n] = detectPair(call.tracks[1], call.tracks[2])
    BY <1>1, <1>3, ReportsOfPair, SmokeConflict
  <1>5. \A m \in DOMAIN out : out[m] = PairOf(call.tracks, p)
    BY <1>1, <1>3 DEF DetectInv
  <1>6. \A m \in DOMAIN out : m = n
    BY <1>1, <1>5 DEF DetectInv
  <1>7. Len(out) \in Nat /\ DOMAIN out = 1 .. Len(out)
    BY <1>1 DEF DetectInv
  <1> HIDE DEF out
  <1>8. Len(out) >= 1 /\ 1 \in DOMAIN out /\ Len(out) \in DOMAIN out
    BY <1>7
  <1> QED
    BY <1>6, <1>8 DEF out

\* Each step of the smoke test goes on with it, and finds what it looks for.
LEMMA SmokeNext ==
  ASSUME StepSec \in 4 .. 41, StepSec <= LookaheadSec, Shape(call),
         OccupancyInv(call), DetectInv(call), SmokeInv(call), [Next]_call
  PROVE  SmokeInv(call')
  <1>1. CASE Detect \/ Occupancy \/ SelfCheck
    <2>1. ASSUME NEW tracks, call' = DetectFrame(tracks, "client")
          PROVE  SmokeInv(call')
      BY <2>1, FrameFields DEF SmokeInv
    <2>2. ASSUME NEW tr, call' = OccupancyFrame(tr, "client")
          PROVE  SmokeInv(call')
      BY <2>2, FrameFields DEF SmokeInv
    <2>3. ASSUME call' = OccupancyFrame(SelfCheckTraffic, "selfcheck")
          PROVE  SmokeInv(call')
      BY <2>3, FrameFields DEF SmokeInv
    <2> QED
      BY <1>1, <2>1, <2>2, <2>3 DEF Detect, Occupancy, SelfCheck
  <1>2. CASE PredictSectorEntry
    <2>1. call'.op = "Predict"
      BY <1>2 DEF PredictSectorEntry
    <2> QED
      BY <2>1 DEF SmokeInv
  <1>3. CASE MilesInTrailCheck
    <2>1. call'.op = "Trail"
      BY <1>3 DEF MilesInTrailCheck
    <2> QED
      BY <2>1 DEF SmokeInv
  <1>4. CASE ProbePair
    BY <1>4, ProbePairFields DEF SmokeInv
  <1>5. CASE Collect
    BY <1>5, CollectFields DEF SmokeInv
  <1>6. CASE ListSector
    BY <1>6, ListSectorFields DEF SmokeInv
  <1>7. CASE SampleRoute \/ CheckGap
    BY <1>7, SampleRouteFields, CheckGapFields DEF SmokeInv
  <1>8. CASE SelfCheckLoad
    <2>1. Len(call.out) = 1 /\ call.out[1].alert
      BY <1>8, SmokeLoad DEF SelfCheckLoad, OccupancyFinished
    <2>2. call' = DetectFrame(SelfCheckTracks, "selfcheck")
      BY <1>8, <2>1 DEF SelfCheckLoad
    <2> QED
      BY <2>2, FrameFields DEF SmokeInv
  <1>9. CASE SelfCheckConflict
    <2>1. Len(call.out) = 1
      BY <1>9, SmokePair DEF SelfCheckConflict, DetectFinished
    <2>2. call' = SelfCheckResult(TRUE)
      BY <1>9, <2>1 DEF SelfCheckConflict
    <2> QED
      BY <2>2, FrameFields DEF SmokeInv
  <1>10. CASE Return
    BY <1>10 DEF Return, Idle, SmokeInv
  <1>11. CASE call' = call
    BY <1>11
  <1> QED
    BY <1>1, <1>2, <1>3, <1>4, <1>5, <1>6, <1>7, <1>8, <1>9, <1>10, <1>11 DEF Next, Begin, Step

\* When no flight is in two sectors, each sector is listed with all flights
\* inside it, and alerted if and only if they exceed its capacity; and the smoke
\* test passes with any step that has a sample while its two flights are within
\* 5 nm, as the 12 seconds of separation.New have (flow.Occupancy,
\* selfcheck.Run).
THEOREM AlertsAreExact ==
  ASSUME StepSec \in 4 .. 41, StepSec <= LookaheadSec
  PROVE  Spec => []AlertExact
  <1> DEFINE Inv == Shape(call) /\ OccupancyInv(call) /\ DetectInv(call) /\ SmokeInv(call)
  <1>1. Init => Inv
    BY DEF Init, Shape, OccupancyInv, DetectInv, SmokeInv, Idle
  <1>2. Inv /\ [Next]_call => Inv'
    BY NextShape, OccupancyNext, DetectNext, SmokeNext
  <1>3. Inv => AlertExact
    <2>1. ASSUME OccupancyInv(call), OccupancyFinished,
                 \A s, u \in DOMAIN call.air : s # u => InsideOf(s) \cap InsideOf(u) = {}
          PROVE  \A s \in DOMAIN call.air : \E n \in DOMAIN call.out :
                   /\ call.out[n].sector = s
                   /\ call.out[n].count = Cardinality(InsideOf(s))
                   /\ call.out[n].alert <=> Cardinality(InsideOf(s)) > call.air[s].cap
      BY <2>1, LoadExact
    <2> QED
      BY <2>1 DEF AlertExact, SmokeInv
  <1> QED
    BY <1>1, <1>2, <1>3, PTL DEF Spec

-----------------------------------------------------------------------------
(* Positions along a route.                                                *)

\* g[k] is the time that the first k legs take, for k up to n.
IsSum(r, g, n) == g = [k \in 0 .. n |-> IF k = 0 THEN 0 ELSE g[k - 1] + LegSec(r, k)]

\* What such a function is, place by place.
LEMMA SumAt ==
  ASSUME NEW r, NEW g, NEW n \in Nat, IsSum(r, g, n)
  PROVE  g[0] = 0 /\ \A k \in 0 .. n - 1 : g[k + 1] = g[k] + LegSec(r, k + 1)
  <1> DEFINE h == [k \in 0 .. n |-> IF k = 0 THEN 0 ELSE g[k - 1] + LegSec(r, k)]
  <1>1. g = h
    BY DEF IsSum
  <1>2. h[0] = 0 /\ \A k \in 1 .. n : h[k] = g[k - 1] + LegSec(r, k)
    OBVIOUS
  <1> HIDE DEF h
  <1>3. \A k \in 0 .. n - 1 : k + 1 \in 1 .. n /\ (k + 1) - 1 = k
    OBVIOUS
  <1> QED
    BY <1>1, <1>2, <1>3

\* There is one.
LEMMA SumExists ==
  ASSUME NEW r, NEW n \in Nat
  PROVE  \E g : IsSum(r, g, n)
  <1> DEFINE Bad == {m \in Nat : ~ \E g : IsSum(r, g, m)}
  <1>1. 0 \notin Bad
    <2> DEFINE g == [k \in 0 .. 0 |-> 0]
    <2>1. IsSum(r, g, 0)
      BY DEF IsSum
    <2> QED
      BY <2>1
  <1>2. ASSUME NEW m \in Nat, m \notin Bad
        PROVE  m + 1 \notin Bad
    <2>1. PICK g : IsSum(r, g, m)
      BY <1>2
    <2> DEFINE h == [k \in 0 .. m + 1 |-> IF k = m + 1 THEN g[m] + LegSec(r, m + 1) ELSE g[k]]
               e == [k \in 0 .. m + 1 |-> IF k = 0 THEN 0 ELSE h[k - 1] + LegSec(r, k)]
    <2>2. g[0] = 0 /\ \A k \in 0 .. m - 1 : g[k + 1] = g[k] + LegSec(r, k + 1)
      BY <2>1, SumAt
    <2>3. ASSUME NEW k \in 0 .. m + 1
          PROVE  h[k] = e[k]
      <3>1. CASE k = 0
        BY <2>2, <3>1
      <3>2. CASE k # 0
        <4>1. k - 1 \in 0 .. m + 1 /\ k - 1 # m + 1 /\ h[k - 1] = g[k - 1]
          BY <3>2
        <4>2. e[k] = g[k - 1] + LegSec(r, k)
          BY <3>2, <4>1
        <4>3. CASE k = m + 1
          <5>1. h[k] = g[m] + LegSec(r, m + 1) /\ k - 1 = m
            BY <4>3
          <5> QED
            BY <4>2, <4>3, <5>1
        <4>4. CASE k # m + 1
          <5>1. k - 1 \in 0 .. m - 1 /\ (k - 1) + 1 = k
            BY <3>2, <4>4
          <5>2. h[k] = g[k]
            BY <4>4
          <5> QED
            BY <2>2, <4>2, <5>1, <5>2
        <4> QED
          BY <4>3, <4>4
      <3> QED
        BY <3>1, <3>2
    <2>4. h = e
      BY <2>3
    <2>5. IsSum(r, h, m + 1)
      BY <2>4 DEF IsSum
    <2> QED
      BY <2>5
  <1>3. Bad = {}
    <2> SUFFICES ASSUME Bad # {}
                 PROVE  FALSE
      OBVIOUS
    <2>1. Bad \subseteq Nat
      OBVIOUS
    <2> HIDE DEF Bad
    <2>2. PICK m \in Bad : \A j \in Bad : m <= j
      BY <2>1, Smallest
    <2>3. m \in Nat /\ m # 0 /\ m - 1 \in Nat /\ (m - 1) + 1 = m /\ m - 1 \notin Bad
      BY <1>1, <2>1, <2>2
    <2> QED
      BY <1>2, <2>2, <2>3
  <1> QED
    BY <1>3

\* There is only one, however far it goes.
LEMMA SumUnique ==
  ASSUME NEW r, NEW g, NEW h, NEW m \in Nat, NEW n \in Nat,
         IsSum(r, g, m), IsSum(r, h, n), NEW k \in Nat, k <= m, k <= n
  PROVE  g[k] = h[k]
  <1> DEFINE Bad == {j \in Nat : j <= m /\ j <= n /\ g[j] # h[j]}
  <1>1. Bad = {}
    <2> SUFFICES ASSUME Bad # {}
                 PROVE  FALSE
      OBVIOUS
    <2>1. PICK j \in Bad : \A i \in Bad : j <= i
      <3>1. Bad \subseteq Nat
        OBVIOUS
      <3> HIDE DEF Bad
      <3> QED
        BY <3>1, Smallest
    <2>2. j # 0
      BY SumAt
    <2>3. j - 1 \in 0 .. m - 1 /\ j - 1 \in 0 .. n - 1 /\ (j - 1) + 1 = j /\ j - 1 \notin Bad
      BY <2>1, <2>2
    <2>4. g[j - 1] = h[j - 1]
      BY <2>3
    <2>5. g[j] = g[j - 1] + LegSec(r, j) /\ h[j] = h[j - 1] + LegSec(r, j)
      BY <2>3, SumAt
    <2> QED
      BY <2>4, <2>5
  <1> QED
    BY <1>1

\* The seconds before the legs meet the equation that defines them.
LEMMA SecondsStep ==
  ASSUME NEW r
  PROVE  /\ SecondsBefore(r, 1) = 0
         /\ \A i \in Nat \ {0} : SecondsBefore(r, i + 1) = SecondsBefore(r, i) + LegSec(r, i)
  <1> DEFINE G(n) == CHOOSE g : IsSum(r, g, n)
  <1>1. \A n \in Nat : IsSum(r, G(n), n)
    BY SumExists
  <1>2. ASSUME NEW n \in Nat
        PROVE  SecondsBefore(r, n + 1) = G(n)[n]
    <2>1. SecondsBefore(r, n + 1) = (CHOOSE g : IsSum(r, g, (n + 1) - 1))[(n + 1) - 1]
      BY DEF SecondsBefore, IsSum
    <2>2. (n + 1) - 1 = n
      OBVIOUS
    <2> QED
      BY <2>1, <2>2
  <1> HIDE DEF G
  <1>3. SecondsBefore(r, 1) = 0
    <2>1. SecondsBefore(r, 0 + 1) = G(0)[0]
      BY <1>2
    <2>2. G(0)[0] = 0
      BY <1>1, SumAt
    <2> QED
      BY <2>1, <2>2
  <1>4. ASSUME NEW i \in Nat \ {0}
        PROVE  SecondsBefore(r, i + 1) = SecondsBefore(r, i) + LegSec(r, i)
    <2>1. PICK n \in Nat : i = n + 1
      <3>1. i - 1 \in Nat /\ i = (i - 1) + 1
        OBVIOUS
      <3> QED
        BY <3>1
    <2>2. IsSum(r, G(i), i) /\ IsSum(r, G(n), n)
      BY <1>1
    <2>3. G(i)[n + 1] = G(i)[n] + LegSec(r, n + 1)
      BY <2>1, <2>2, SumAt
    <2>4. G(i)[n] = G(n)[n]
      BY <2>1, <2>2, SumUnique
    <2> QED
      BY <1>2, <2>1, <2>3, <2>4
  <1> QED
    BY <1>3, <1>4

\* Times of legs that are numbers add up to numbers that never go down.
LEMMA SecondsGrow ==
  ASSUME NEW r, NEW n \in Nat, \A i \in 1 .. n : LegSec(r, i) \in Nat
  PROVE  \A j \in 1 .. n + 1 :
           /\ SecondsBefore(r, j) \in Nat
           /\ \A i \in 1 .. j : SecondsBefore(r, i) <= SecondsBefore(r, j)
  <1> DEFINE S(j) == SecondsBefore(r, j)
             Fine(j) == \A i \in 1 .. j : S(i) \in Nat /\ S(i) <= S(j)
             Bad == {j \in 1 .. n + 1 : ~Fine(j)}
  <1>1. Fine(1)
    BY SecondsStep
  <1>2. ASSUME NEW j \in 1 .. n, Fine(j)
        PROVE  Fine(j + 1)
    <2>1. S(j + 1) = S(j) + LegSec(r, j) /\ LegSec(r, j) \in Nat
      BY SecondsStep
    <2> HIDE DEF S
    <2>2. S(j) \in Nat
      BY <1>2
    <2>3. S(j + 1) \in Nat /\ S(j) <= S(j + 1)
      BY <2>1, <2>2
    <2>4. ASSUME NEW i \in 1 .. j + 1
          PROVE  S(i) \in Nat /\ S(i) <= S(j + 1)
      <3>1. CASE i = j + 1
        BY <2>3, <3>1
      <3>2. CASE i \in 1 .. j
        <4>1. S(i) \in Nat /\ S(i) <= S(j)
          BY <1>2, <3>2
        <4> QED
          BY <2>2, <2>3, <4>1
      <3> QED
        BY <3>1, <3>2
    <2> QED
      BY <2>4
  <1>3. Bad = {}
    <2> SUFFICES ASSUME Bad # {}
                 PROVE  FALSE
      OBVIOUS
    <2> HIDE DEF Fine
    <2>1. PICK j \in Bad : \A i \in Bad : j <= i
      <3>1. Bad \subseteq Nat
        OBVIOUS
      <3> HIDE DEF Bad
      <3> QED
        BY <3>1, Smallest
    <2>2. j \in 1 .. n + 1 /\ j # 1 /\ ~Fine(j)
      BY <1>1, <2>1
    <2>3. j - 1 \in 1 .. n /\ (j - 1) + 1 = j /\ j - 1 \notin Bad
      BY <2>1, <2>2
    <2>4. Fine(j - 1)
      BY <2>3
    <2>5. Fine((j - 1) + 1)
      BY <1>2, <2>3, <2>4
    <2> QED
      BY <2>2, <2>3, <2>5
  <1> QED
    BY <1>3

\* A multiple is divided exactly.
LEMMA Exact ==
  ASSUME NEW q \in Int, NEW d \in Nat, d > 0
  PROVE  (q * d) \div d = q
  OBVIOUS

\* A leg takes a whole number of seconds, at k units in each.
LEMMA LegTimes ==
  ASSUME NEW f \in Flights, NEW r, r = f.route, r.cruise > 0, NEW i \in 1 .. LastLeg(r)
  PROVE  /\ i \in DOMAIN r.legs /\ i + 1 \in DOMAIN r.legs
         /\ LegSec(r, i) \in Nat
         /\ \E k \in Nat :
              k > 0 /\ Speed(r, i) = k * 12 /\ LegLength(r, i) = k * LegSec(r, i)
  <1>1. /\ i \in DOMAIN r.legs /\ i + 1 \in DOMAIN r.legs
    <2>1. r.legs \in Seq(Range(r.legs))
      BY FlightsAssumption
    <2> QED
      BY <2>1 DEF LastLeg
  <1>2. /\ r.cruise \in Nat
        /\ \A j \in DOMAIN r.legs :
             r.legs[j].pos \in [x : Int, y : Int] /\ r.legs[j].speed \in Int
        /\ Speed(r, i) % 12 = 0
        /\ Speed(r, i) > 0 => (LegLength(r, i) * 12) % Speed(r, i) = 0
    BY RoutesAssumption
  <1> DEFINE s == Speed(r, i)
             l == LegLength(r, i)
             q == (l * 12) \div s
             k == s \div 12
  <1>3. s \in Nat /\ s > 0
    BY <1>1, <1>2 DEF Speed
  <1>4. l \in Nat
    BY <1>1, <1>2 DEF LegLength, AxisDistance, Abs
  <1>5. LegSec(r, i) = q
    BY <1>3 DEF LegSec
  <1>6. s % 12 = 0 /\ (l * 12) % s = 0
    BY <1>2, <1>3
  <1> HIDE DEF s, l
  <1>7. k \in Nat /\ s = k * 12
    BY <1>3, <1>6, Division
  <1>8. q \in Nat /\ l * 12 = q * s
    <2>1. l * 12 \in Nat
      BY <1>4
    <2> DEFINE m == l * 12
    <2> HIDE DEF m
    <2>2. m \div s \in Nat /\ m = (m \div s) * s + (m % s)
      BY <1>3, <2>1, Division DEF m
    <2>3. m % s = 0
      BY <1>6 DEF m
    <2>4. m = (m \div s) * s
      <3>1. PICK p \in Nat : p = (m \div s) * s
        BY <1>3, <2>2
      <3> QED
        BY <2>2, <2>3, <3>1
    <2> QED
      BY <2>2, <2>4 DEF m
  <1> HIDE DEF q, k
  <1>9. l * 12 = (k * q) * 12
    <2>1. q * (k * 12) = (k * q) * 12
      BY <1>7, <1>8
    <2> QED
      BY <1>7, <1>8, <2>1
  <1>10. l = k * q
    <2>1. PICK p \in Nat : p = k * q
      BY <1>7, <1>8
    <2> QED
      BY <1>4, <1>9, <2>1
  <1>11. k > 0
    BY <1>3, <1>7
  <1> QED
    BY <1>1, <1>5, <1>7, <1>8, <1>10, <1>11 DEF s, l

\* A leg along an axis has its length in one coordinate.
LEMMA AlongOne ==
  ASSUME NEW ax \in Int, NEW ay \in Int, NEW bx \in Int, NEW by \in Int,
         ax = bx \/ ay = by, NEW l \in Nat, Abs(ax - bx) + Abs(ay - by) = l
  PROVE  \/ bx - ax \in {l, -l} /\ by - ay = 0
         \/ bx - ax = 0 /\ by - ay \in {l, -l}
  BY DEF Abs

\* A move along an axis has its length in one coordinate.
LEMMA MovedBy ==
  ASSUME NEW ax \in Int, NEW ay \in Int, NEW l \in Nat,
         NEW ex \in Int, NEW ey \in Int,
         \/ ex \in {l, -l} /\ ey = 0
         \/ ex = 0 /\ ey \in {l, -l}
  PROVE  /\ ax + ex \in Int /\ ay + ey \in Int
         /\ Abs(ax - (ax + ex)) + Abs(ay - (ay + ey)) = l
  BY DEF Abs

\* A length of k times d, or none, is covered to n parts in d by k times n.
LEMMA Parts ==
  ASSUME NEW k \in Nat, NEW d \in Nat, d > 0, NEW n \in Nat
  PROVE  /\ ((k * d) * n) \div d = k * n
         /\ ((-(k * d)) * n) \div d = -(k * n)
         /\ (0 * n) \div d = 0
  <1>1. (k * d) * n = (k * n) * d /\ (-(k * d)) * n = (-(k * n)) * d /\ 0 * n = 0 * d
    OBVIOUS
  <1>2. \A m \in Int : (m * d) \div d = m
    BY Exact
  <1>3. k * n \in Int /\ -(k * n) \in Int
    OBVIOUS
  <1>4. ((k * n) * d) \div d = k * n
    BY <1>2, <1>3
  <1>5. ((-(k * n)) * d) \div d = -(k * n)
    BY <1>2, <1>3
  <1>6. (0 * d) \div d = 0
    BY <1>2
  <1> QED
    BY <1>1, <1>4, <1>5, <1>6

\* The point n parts in d of the way from a to b (geo.Interpolate).
Along(a, b, n, d) == [x |-> a.x + ((b.x - a.x) * n) \div d, y |-> a.y + ((b.y - a.y) * n) \div d]

\* After n of the d seconds of a leg, at k units in each, the flight is k * n
\* units along it.
LEMMA AlongAxis ==
  ASSUME NEW a \in [x : Int, y : Int], NEW b \in [x : Int, y : Int],
         a.x = b.x \/ a.y = b.y,
         NEW k \in Nat, NEW d \in Nat, d > 0, NEW n \in Nat, AxisDistance(a, b) = k * d
  PROVE  /\ Along(a, b, n, d) \in [x : Int, y : Int]
         /\ AxisDistance(a, Along(a, b, n, d)) = k * n
  <1> DEFINE dx == b.x - a.x
             dy == b.y - a.y
             kd == k * d
             kn == k * n
             ex == (dx * n) \div d
             ey == (dy * n) \div d
             p == [x |-> a.x + ex, y |-> a.y + ey]
  <1>1. a.x \in Int /\ a.y \in Int /\ b.x \in Int /\ b.y \in Int
    OBVIOUS
  <1>2. kd \in Nat /\ kn \in Nat
    OBVIOUS
  <1>3. (kd * n) \div d = kn /\ ((-kd) * n) \div d = -kn /\ (0 * n) \div d = 0
    BY Parts
  <1>4. Abs(a.x - b.x) + Abs(a.y - b.y) = kd
    BY DEF AxisDistance
  <1> HIDE DEF kd, kn
  <1>6. \/ dx \in {kd, -kd} /\ dy = 0
        \/ dx = 0 /\ dy \in {kd, -kd}
    <2>1. PICK ax \in Int, ay \in Int, bx \in Int, c \in Int :
            ax = a.x /\ ay = a.y /\ bx = b.x /\ c = b.y
      BY <1>1
    <2>2. ax = bx \/ ay = c
      BY <2>1
    <2>3. Abs(ax - bx) + Abs(ay - c) = kd
      BY <1>4, <2>1
    <2>4. \/ bx - ax \in {kd, -kd} /\ c - ay = 0
          \/ bx - ax = 0 /\ c - ay \in {kd, -kd}
      BY <1>2, <2>2, <2>3, AlongOne
    <2> QED
      BY <2>1, <2>4
  <1> HIDE DEF dx, dy
  <1>7. \/ ex \in {kn, -kn} /\ ey = 0
        \/ ex = 0 /\ ey \in {kn, -kn}
    BY <1>3, <1>6
  <1> HIDE DEF ex, ey
  <1>8. /\ a.x + ex \in Int /\ a.y + ey \in Int
        /\ Abs(a.x - (a.x + ex)) + Abs(a.y - (a.y + ey)) = kn
    <2>1. PICK ax \in Int, ay \in Int : ax = a.x /\ ay = a.y
      BY <1>1
    <2>2. ex \in Int /\ ey \in Int
      BY <1>2, <1>7
    <2>3. /\ ax + ex \in Int /\ ay + ey \in Int
          /\ Abs(ax - (ax + ex)) + Abs(ay - (ay + ey)) = kn
      BY <1>2, <1>7, <2>2, MovedBy
    <2> QED
      BY <2>1, <2>3
  <1>9. p.x = a.x + ex /\ p.y = a.y + ey /\ p \in [x : Int, y : Int]
    BY <1>8
  <1>10. AxisDistance(a, p) = kn
    BY <1>8, <1>9 DEF AxisDistance
  <1> QED
    BY <1>9, <1>10 DEF Along, kn, ex, ey, dx, dy

\* With times that are numbers, the loop stops at one leg: the first that is
\* not over, or the last.
LEMMA StopsOnce ==
  ASSUME NEW r, LastLeg(r) \in Nat, LastLeg(r) >= 1,
         \A i \in 1 .. LastLeg(r) : LegSec(r, i) \in Nat, NEW t \in Nat
  PROVE  \E i \in 1 .. LastLeg(r) :
           /\ \A k \in 1 .. LastLeg(r) : StopsAt(r, t, k) <=> k = i
           /\ Remaining(r, t, i) = t - SecondsBefore(r, i)
           /\ SecondsBefore(r, i) <= t
           /\ i = LastLeg(r) \/ t <= SecondsBefore(r, i + 1)
  <1>0. PICK n \in Nat : n = LastLeg(r) /\ n >= 1 /\ \A i \in 1 .. n : LegSec(r, i) \in Nat
    OBVIOUS
  <1> DEFINE S(i) == SecondsBefore(r, i)
             D(i) == LegSec(r, i)
  <1>1. \A i \in 1 .. n : S(i) \in Nat /\ D(i) \in Nat /\ S(i + 1) = S(i) + D(i)
    <2>1. \A i \in 1 .. n : i \in 1 .. n + 1 /\ i \in Nat \ {0}
      OBVIOUS
    <2>2. \A i \in 1 .. n + 1 : SecondsBefore(r, i) \in Nat
      BY <1>0, SecondsGrow
    <2> QED
      BY <1>0, <2>1, <2>2, SecondsStep
  <1>2. \A i \in 1 .. n : Remaining(r, t, i) = t - S(i)
    <2> SUFFICES ASSUME NEW i \in 1 .. n
                 PROVE  ~ \E m \in 1 .. i - 1 : LegSec(r, m) = NaN
      BY DEF Remaining
    <2>1. \A m \in 1 .. i - 1 : m \in 1 .. n
      OBVIOUS
    <2> QED
      BY <1>1, <2>1, FloatAssumption
  <1>3. \A i \in 1 .. n : Reaches(Remaining(r, t, i), LegSec(r, i)) <=> t <= S(i + 1)
    <2> SUFFICES ASSUME NEW i \in 1 .. n
                 PROVE  Reaches(Remaining(r, t, i), LegSec(r, i)) <=> t <= S(i + 1)
      OBVIOUS
    <2> DEFINE s == S(i)
               d == D(i)
    <2>1. s \in Nat /\ d \in Nat /\ S(i + 1) = s + d /\ Remaining(r, t, i) = t - s
      BY <1>1, <1>2
    <2> HIDE DEF S, s
    <2>2. t - s \in Int /\ d \in Int
      BY <2>1
    <2> HIDE DEF d
    <2>3. NaN \notin {t - s, d} /\ d # Inf
      BY <2>2, FloatAssumption
    <2>4. Reaches(t - s, d) <=> t - s <= d
      BY <2>3 DEF Reaches
    <2> QED
      BY <2>1, <2>4 DEF d
  <1> HIDE DEF S, D
  <1> DEFINE Ends == {i \in 1 .. n : i = n \/ t <= S(i + 1)}
  <1>4. PICK i \in Ends : \A j \in Ends : i <= j
    <2>1. Ends \subseteq Nat /\ n \in Ends
      BY <1>0
    <2> HIDE DEF Ends
    <2> QED
      BY <2>1, Smallest
  <1>5. \A k \in 1 .. n :
          StopsAt(r, t, k) <=> (\A m \in 1 .. k - 1 : ~(t <= S(m + 1))) /\ k \in Ends
    <2> SUFFICES ASSUME NEW k \in 1 .. n
                 PROVE  StopsAt(r, t, k) <=>
                          (\A m \in 1 .. k - 1 : ~(t <= S(m + 1))) /\ k \in Ends
      OBVIOUS
    <2>1. \A m \in 1 .. k - 1 : m \in 1 .. n
      OBVIOUS
    <2> QED
      BY <1>0, <1>3, <2>1 DEF StopsAt
  <1>6. \A k \in 1 .. n : StopsAt(r, t, k) <=> k = i
    <2> SUFFICES ASSUME NEW k \in 1 .. n
                 PROVE  StopsAt(r, t, k) <=> k = i
      OBVIOUS
    <2>1. ASSUME StopsAt(r, t, k)
          PROVE  k = i
      <3>1. k \in Ends /\ i <= k
        BY <1>4, <1>5, <2>1
      <3>2. ~(i < k)
        <4> SUFFICES ASSUME i < k
                     PROVE  FALSE
          OBVIOUS
        <4>1. i \in 1 .. k - 1 /\ i # n
          BY <1>4
        <4> QED
          BY <1>4, <1>5, <2>1, <4>1
      <3> QED
        BY <1>4, <3>1, <3>2
    <2>2. ASSUME k = i
          PROVE  StopsAt(r, t, k)
      <3>1. \A m \in 1 .. k - 1 : m \in 1 .. n /\ m \notin Ends
        BY <1>4, <2>2
      <3> QED
        BY <1>4, <1>5, <2>2, <3>1
    <2> QED
      BY <2>1, <2>2
  <1>7. S(i) <= t
    <2>1. CASE i = 1
      BY <2>1, SecondsStep DEF S
    <2>2. CASE i # 1
      <3>1. i - 1 \in 1 .. n /\ i - 1 \notin Ends /\ (i - 1) + 1 = i
        BY <1>4, <2>2
      <3>2. ~(t <= S(i))
        BY <3>1
      <3>3. S(i) \in Nat
        BY <1>1, <1>4
      <3> QED
        BY <3>2, <3>3
    <2> QED
      BY <2>1, <2>2
  <1> QED
    BY <1>0, <1>2, <1>4, <1>6, <1>7 DEF S

\* The smaller of two numbers.
LEMMA MinOfTwo ==
  ASSUME NEW m \in Int, NEW n \in Int, m <= n
  PROVE  Min({m, n}) = m
  BY DEF Min

\* Where a flight is on a leg: as far as it gets in the seconds it has been on
\* it, or at its end.
LEMMA OnLeg ==
  ASSUME NEW f \in Flights, NEW r, r = f.route, r.cruise > 0, NEW i \in 1 .. LastLeg(r),
         NEW rem \in Nat, NEW p,
         p = Interpolate(r.legs[i].pos, r.legs[i + 1].pos, LegFraction(rem, LegSec(r, i)))
  PROVE  /\ p # NaN
         /\ (AxisDistance(r.legs[i].pos, p) * 12) \div Speed(r, i)
              = IF rem <= LegSec(r, i) THEN rem ELSE LegSec(r, i)
  <1> DEFINE u == r.legs[i].pos
             w == r.legs[i + 1].pos
             sec == LegSec(r, i)
             q == IF rem <= sec THEN rem ELSE sec
  <1>1. /\ sec \in Nat /\ i \in DOMAIN r.legs /\ i + 1 \in DOMAIN r.legs
        /\ \E k \in Nat : k > 0 /\ Speed(r, i) = k * 12 /\ LegLength(r, i) = k * sec
    BY LegTimes
  <1>2. PICK k \in Nat : k > 0 /\ Speed(r, i) = k * 12 /\ LegLength(r, i) = k * sec
    BY <1>1
  <1>3. u \in [x : Int, y : Int] /\ w \in [x : Int, y : Int] /\ (u.x = w.x \/ u.y = w.y)
    BY <1>1, RoutesAssumption
  <1>4. AxisDistance(u, w) = k * sec
    BY <1>2 DEF LegLength
  <1>5. p = Interpolate(u, w, LegFraction(rem, sec))
    OBVIOUS
  <1> HIDE DEF u, w, sec
  <1>6. /\ LegFraction(rem, sec) = IF sec = 0 THEN [n |-> 0, d |-> 1] ELSE Clamp(rem, sec)
        /\ LegFraction(rem, sec) # NaN
    <2>1. sec # NaN /\ sec # Inf /\ rem # NaN
      BY <1>1, FloatAssumption DEF sec
    <2>2. LegFraction(rem, sec) = IF sec = 0 THEN [n |-> 0, d |-> 1] ELSE Clamp(rem, sec)
      BY <2>1 DEF LegFraction
    <2>3. LegFraction(rem, sec) \in [n : Int, d : Int]
      BY <1>1, <2>2 DEF Clamp, sec
    <2> QED
      BY <2>2, <2>3, FloatAssumption
  <1>7. sec \in Nat
    BY <1>1 DEF sec
  <1>8. p \in [x : Int, y : Int] /\ AxisDistance(u, p) = k * q
    <2>1. CASE u = w
      <3>1. p = u /\ AxisDistance(u, w) = 0 /\ AxisDistance(u, p) = 0
        <4>1. \A m \in Int : Abs(m - m) = 0
          BY DEF Abs
        <4>2. u.x \in Int /\ u.y \in Int
          BY <1>3
        <4>3. AxisDistance(u, u) = 0
          BY <4>1, <4>2 DEF AxisDistance
        <4> QED
          BY <1>5, <2>1, <4>3 DEF Interpolate
      <3>2. sec = 0
        <4>1. k * sec = 0 /\ k > 0
          BY <1>2, <1>4, <3>1
        <4> QED
          BY <1>7, <4>1, Times
      <3>3. q = 0 /\ k * 0 = 0
        BY <3>2
      <3> QED
        BY <1>3, <3>1, <3>3
    <2>2. CASE u # w
      <3>1. sec > 0
        <4> SUFFICES ASSUME sec = 0
                     PROVE  FALSE
          BY <1>7
        <4>1. AxisDistance(u, w) = 0
          BY <1>4
        <4>2. u.x \in Int /\ u.y \in Int /\ w.x \in Int /\ w.y \in Int
          BY <1>3
        <4>3. u.x = w.x /\ u.y = w.y
          BY <4>1, <4>2 DEF AxisDistance, Abs
        <4> QED
          BY <1>3, <2>2, <4>3
      <3>2. /\ LegFraction(rem, sec) = Clamp(rem, sec)
            /\ p = [x |-> u.x + ((w.x - u.x) * Clamp(rem, sec).n) \div Clamp(rem, sec).d,
                    y |-> u.y + ((w.y - u.y) * Clamp(rem, sec).n) \div Clamp(rem, sec).d]
        BY <1>5, <1>6, <2>2, <3>1 DEF Interpolate
      <3>3. CASE rem <= sec
        <4>1. Clamp(rem, sec) = [n |-> rem, d |-> sec] /\ q = rem
          BY <1>7, <3>3 DEF Clamp
        <4>2. p = [x |-> u.x + ((w.x - u.x) * rem) \div sec,
                    y |-> u.y + ((w.y - u.y) * rem) \div sec]
          BY <3>2, <4>1
        <4>3. p = Along(u, w, rem, sec)
          BY <4>2 DEF Along
        <4>4. k \in Nat
          BY <1>2
        <4>5. /\ Along(u, w, rem, sec) \in [x : Int, y : Int]
              /\ AxisDistance(u, Along(u, w, rem, sec)) = k * rem
          BY <1>3, <1>4, <1>7, <3>1, <4>4, AlongAxis
        <4> QED
          BY <4>1, <4>3, <4>5
      <3>4. CASE rem > sec
        <4>1. Clamp(rem, sec) = [n |-> 1, d |-> 1] /\ q = sec
          BY <1>7, <3>4 DEF Clamp
        <4>2. p = [x |-> u.x + ((w.x - u.x) * 1) \div 1, y |-> u.y + ((w.y - u.y) * 1) \div 1]
          BY <3>2, <4>1
        <4>3. \A m \in Int : (m * 1) \div 1 = m
          OBVIOUS
        <4>4. \A m, n \in Int : m + (n - m) = n
          OBVIOUS
        <4>5. w.x - u.x \in Int /\ w.y - u.y \in Int
          BY <1>3
        <4>6. p = [x |-> u.x + (w.x - u.x), y |-> u.y + (w.y - u.y)]
          BY <4>2, <4>3, <4>5
        <4>7. p = [x |-> w.x, y |-> w.y]
          BY <1>3, <4>4, <4>6
        <4>8. p = w
          BY <1>3, <4>7
        <4> QED
          BY <1>3, <1>4, <4>1, <4>8
      <3> QED
        BY <1>7, <3>3, <3>4
    <2> QED
      BY <2>1, <2>2
  <1>9. q \in Nat
    BY <1>7
  <1> HIDE DEF q
  <1>10. (AxisDistance(u, p) * 12) \div Speed(r, i) = q
    <2>1. (k * q) * 12 = q * (k * 12) /\ k * 12 \in Nat /\ k * 12 > 0
      BY <1>2, <1>9
    <2>2. (q * (k * 12)) \div (k * 12) = q
      BY <1>9, <2>1, Exact
    <2> QED
      BY <1>2, <1>8, <2>1, <2>2
  <1>11. p # NaN
    BY <1>8, FloatAssumption
  <1> QED
    BY <1>10, <1>11 DEF u, sec, q

\* Where a flight is and when agree, at any time and on a route of any number
\* of legs (trajectory.PositionAtTime).
LEMMA Scheduled ==
  ASSUME NEW f \in Flights, NEW r, r = f.route, r.cruise > 0, Len(r.legs) >= 2,
         NEW t \in Nat, NEW p, p = PositionAtTime(r, t)
  PROVE  /\ p.pos # NaN
         /\ SecondsBefore(r, p.leg + 1)
              + (AxisDistance(r.legs[p.leg + 1].pos, p.pos) * 12) \div Speed(r, p.leg + 1)
              = Min({t, SecondsBefore(r, Len(r.legs))})
  <1> DEFINE n == LastLeg(r)
  <1>1. Len(r.legs) \in Nat /\ n \in Nat /\ n >= 1 /\ n + 1 = Len(r.legs)
    <2>1. r.legs \in Seq(Range(r.legs))
      BY FlightsAssumption
    <2>2. Len(r.legs) \in Nat
      BY <2>1
    <2> QED
      BY <2>2 DEF LastLeg
  <1>2. \A i \in 1 .. n : LegSec(r, i) \in Nat
    BY LegTimes
  <1> HIDE DEF n
  <1>3. PICK i \in 1 .. n :
          /\ \A k \in 1 .. n : StopsAt(r, t, k) <=> k = i
          /\ Remaining(r, t, i) = t - SecondsBefore(r, i)
          /\ SecondsBefore(r, i) <= t
          /\ i = n \/ t <= SecondsBefore(r, i + 1)
    BY <1>1, <1>2, StopsOnce DEF n
  <1> DEFINE b == SecondsBefore(r, i)
             d == LegSec(r, i)
             rem == t - b
             w == PositionOn(r, i, LegFraction(rem, d))
  <1>4. PositionAtTime(r, t) = w
    <2>1. {k \in 1 .. LastLeg(r) : StopsAt(r, t, k)} = {i}
      BY <1>3 DEF n
    <2>2. PositionAtTime(r, t) =
            CHOOSE x \in {PositionOn(r, k, LegFraction(Remaining(r, t, k), LegSec(r, k))) :
                            k \in {k \in 1 .. LastLeg(r) : StopsAt(r, t, k)}} : TRUE
      <3>1. \A m \in Nat : m >= 1 => m + 1 # 0 /\ m + 1 # 1
        OBVIOUS
      <3>2. Len(r.legs) # 0 /\ Len(r.legs) # 1
        BY <1>1, <3>1, Zenon
      <3> QED
        BY <3>2, Zenon DEF PositionAtTime
    <2>3. {PositionOn(r, k, LegFraction(Remaining(r, t, k), LegSec(r, k))) : k \in {i}}
            = {PositionOn(r, i, LegFraction(Remaining(r, t, i), LegSec(r, i)))}
      OBVIOUS
    <2>4. PositionAtTime(r, t) = PositionOn(r, i, LegFraction(Remaining(r, t, i), LegSec(r, i)))
      BY <2>1, <2>2, <2>3
    <2> QED
      BY <1>3, <2>4
  <1>5. /\ b \in Nat /\ d \in Nat /\ SecondsBefore(r, i + 1) = b + d
        /\ SecondsBefore(r, n + 1) \in Nat /\ b + d <= SecondsBefore(r, n + 1)
    <2>1. i + 1 \in 1 .. n + 1 /\ n + 1 \in 1 .. n + 1 /\ i \in 1 .. n + 1
      BY <1>1
    <2>2. \A j \in 1 .. n + 1 :
           /\ SecondsBefore(r, j) \in Nat
           /\ \A k \in 1 .. j : SecondsBefore(r, k) <= SecondsBefore(r, j)
      BY <1>1, <1>2, SecondsGrow
    <2>3. SecondsBefore(r, i + 1) = b + d
      <3>1. i \in Nat \ {0}
        OBVIOUS
      <3> QED
        BY <3>1, SecondsStep
    <2> QED
      BY <1>2, <2>1, <2>2, <2>3
  <1>6. /\ p.leg + 1 = i
        /\ p.pos = Interpolate(r.legs[i].pos, r.legs[i + 1].pos, LegFraction(rem, d))
    <2>1. p = w
      BY <1>4
    <2>2. w.leg = i - 1 /\
          w.pos = Interpolate(r.legs[i].pos, r.legs[i + 1].pos, LegFraction(rem, d))
      BY DEF PositionOn
    <2>3. (i - 1) + 1 = i
      OBVIOUS
    <2> QED
      BY <2>1, <2>2, <2>3
  <1>7. rem \in Nat
    BY <1>3, <1>5
  <1>8. /\ p.pos # NaN
        /\ (AxisDistance(r.legs[i].pos, p.pos) * 12) \div Speed(r, i) = IF rem <= d THEN rem ELSE d
    <2>1. i \in 1 .. LastLeg(r)
      BY DEF n
    <2> HIDE DEF rem, d
    <2> QED
      BY <1>6, <1>7, <2>1, OnLeg DEF d
  <1> DEFINE e == SecondsBefore(r, n + 1)
  <1>9. b + (IF rem <= d THEN rem ELSE d) = Min({t, e})
    <2> HIDE DEF e
    <2>1. e \in Nat /\ b + d <= e /\ b \in Nat /\ d \in Nat
      BY <1>5 DEF e
    <2>2. i = n => e = b + d
      BY <1>5 DEF e
    <2>3. i = n \/ t <= b + d
      BY <1>3, <1>5
    <2> HIDE DEF b, d
    <2>4. CASE rem <= d
      <3>1. t <= e /\ b + rem = t
        BY <2>1, <2>4
      <3> QED
        BY <2>1, <2>4, <3>1, MinOfTwo
    <2>5. CASE ~(rem <= d)
      <3>1. e <= t /\ e = b + d
        BY <2>1, <2>2, <2>3, <2>5
      <3>2. Min({e, t}) = e /\ {e, t} = {t, e}
        BY <2>1, <3>1, MinOfTwo
      <3> QED
        BY <2>5, <3>1, <3>2
    <2> QED
      BY <2>4, <2>5
  <1> QED
    BY <1>1, <1>6, <1>8, <1>9

\* Where a flight is and when agree: the seconds to fly from the start to the
\* position, leg by leg, are those that have passed, or those of the whole
\* route once it has been flown, on a route of any number of legs
\* (trajectory.PositionAtTime).
THEOREM FlightsAreOnSchedule == Spec => []OnSchedule
  <1>1. Init => Shape(call) /\ EntryInv(call)
    BY DEF Init, Shape, EntryInv, Idle
  <1>2. Shape(call) /\ EntryInv(call) /\ [Next]_call => (Shape(call) /\ EntryInv(call))'
    BY NextShape, EntryNext
  <1>3. ASSUME EntryInv(call)
        PROVE  OnSchedule
    <2> SUFFICES ASSUME call.op = "Predict", NEW r, r = call.flight.route,
                        r.cruise > 0, Len(r.legs) >= 2,
                        NEW p, p = PositionAtTime(r, call.t)
                 PROVE  /\ p.pos # NaN
                        /\ SecondsBefore(r, p.leg + 1)
                             + (AxisDistance(r.legs[p.leg + 1].pos, p.pos) * 12)
                                 \div Speed(r, p.leg + 1)
                           = Min({call.t, SecondsBefore(r, Len(r.legs))})
      BY DEF OnSchedule
    <2>1. call.flight \in Flights
      BY <1>3 DEF EntryInv
    <2>2. call.t \in Nat
      <3>1. PICK k \in Nat : call.t = k * call.flight.step
        BY <1>3 DEF EntryInv
      <3>2. call.flight.step \in Nat
        BY <2>1, FlightsAssumption
      <3> QED
        BY <3>1, <3>2, Multiples
    <2> QED
      BY <2>1, <2>2, Scheduled
  <1> QED
    BY <1>1, <1>2, <1>3, PTL DEF Spec
-----------------------------------------------------------------------------
(* What the sampling can miss.                                             *)

\* A square is not negative.
LEMMA SquareNat ==
  ASSUME NEW x \in Int
  PROVE  x * x \in Nat
  <1>1. x >= 0 => x * x >= 0
    OBVIOUS
  <1>2. x <= 0 => x * x >= 0
    OBVIOUS
  <1> QED
    BY <1>1, <1>2

\* Larger numbers have larger products.
LEMMA Larger ==
  ASSUME NEW m \in Nat, NEW n \in Nat, NEW k \in Nat, NEW l \in Nat, m <= n, k <= l
  PROVE  m * k <= n * l /\ m * k \in Nat /\ n * l \in Nat
  <1>1. m * k \in Nat /\ n * k \in Nat /\ m * k <= n * k
    BY Multiples
  <1>2. k * n <= l * n /\ l * n \in Nat
    BY Multiples
  <1>3. k * n = n * k /\ l * n = n * l
    OBVIOUS
  <1> QED
    BY <1>1, <1>2, <1>3

\* The squares m steps of v before x and n steps after it, weighed.
LEMMA OneCoordinate ==
  ASSUME NEW x \in Int, NEW v \in Int, NEW m \in Nat, NEW n \in Nat
  PROVE  n * ((x - m * v) * (x - m * v)) + m * ((x + n * v) * (x + n * v))
           = (m + n) * (x * x + (m * n) * (v * v))
  OBVIOUS

\* A product is largest when its factors are equal.
LEMMA FourTimes ==
  ASSUME NEW m \in Nat, NEW n \in Nat
  PROVE  4 * (m * n) <= (m + n) * (m + n)
  <1>1. (m + n) * (m + n) = 4 * (m * n) + (m - n) * (m - n)
    OBVIOUS
  <1>2. (m - n) * (m - n) \in Nat
    BY SquareNat
  <1> QED
    BY <1>1, <1>2

\* What two flights add to the square of their distance between a sample and
\* the next is at most the square of half of what they travel.
LEMMA Added ==
  ASSUME NEW m \in Nat, NEW n \in Nat, NEW w \in Nat, NEW W \in Nat, W <= w * w,
         NEW half \in Nat, w * (m + n) <= 2 * half
  PROVE  (m * n) * W \in Nat /\ (m * n) * W <= half * half
  <1> DEFINE mn == m * n
             ss == (m + n) * (m + n)
             ww == w * w
             ws == w * (m + n)
  <1>1. mn \in Nat /\ ss \in Nat /\ ww \in Nat /\ ws \in Nat
    BY Multiples
  <1>2. 4 * mn <= ss
    BY FourTimes
  <1>3. ss * ww = ws * ws
    OBVIOUS
  <1>4. W <= ww /\ ws <= 2 * half
    OBVIOUS
  <1> HIDE DEF mn, ss, ww, ws
  <1>5. 4 * mn \in Nat /\ 2 * half \in Nat
    BY <1>1
  <1>6. (4 * mn) * W <= ss * ww /\ (4 * mn) * W \in Nat
    BY <1>1, <1>2, <1>4, <1>5, Larger
  <1>7. ws * ws <= (2 * half) * (2 * half)
    BY <1>1, <1>4, <1>5, Larger
  <1>8. (2 * half) * (2 * half) = 4 * (half * half) /\ half * half \in Nat
    BY SquareNat
  <1>9. (4 * mn) * W = 4 * (mn * W) /\ mn * W \in Int
    BY <1>1
  <1>10. mn * W \in Nat /\ mn * W <= half * half
    <2> DEFINE mw == mn * W
               hh == half * half
    <2>1. mw \in Int /\ hh \in Nat
      BY <1>8, <1>9
    <2>2. (4 * mn) * W = 4 * mw /\ (2 * half) * (2 * half) = 4 * hh
      BY <1>8, <1>9
    <2>3. 4 * mw \in Nat /\ 4 * mw <= ss * ww /\ ss * ww <= 4 * hh
      BY <1>3, <1>6, <1>7, <2>2
    <2>4. ss * ww \in Int
      BY <1>1
    <2> HIDE DEF mw, hh
    <2>5. \A f, g, k \in Int : 4 * f >= 0 /\ 4 * f <= k /\ k <= 4 * g => f >= 0 /\ f <= g
      OBVIOUS
    <2>6. mw >= 0 /\ mw <= hh
      BY <2>1, <2>3, <2>4, <2>5
    <2> QED
      BY <2>1, <2>6 DEF mw, hh
  <1> QED
    BY <1>10 DEF mn

\* The square of the distance k seconds from an instant, for flights that are
\* x and y apart at it and move by vx and vy relative to each other in a second.
Later(x, y, vx, vy, k) ==
  (x + k * vx) * (x + k * vx) + (y + k * vy) * (y + k * vy)

\* An instant m seconds after a sample and n before the next at which the
\* flights, which move by w at most, are closer than the minimum but for what
\* they travel in half a step.
CloseBetween(x, y, vx, vy, m, n, w, half, min) ==
  /\ m + n > 0
  /\ vx * vx + vy * vy <= w * w
  /\ w * (m + n) <= 2 * half
  /\ x * x + y * y < min - half * half

\* Of the samples around such an instant, one is closer than the minimum.
LEMMA NearSample ==
  ASSUME NEW x \in Int, NEW y \in Int, NEW vx \in Int, NEW vy \in Int,
         NEW m \in Nat, NEW n \in Nat, NEW w \in Nat, NEW half \in Nat, NEW min \in Nat,
         CloseBetween(x, y, vx, vy, m, n, w, half, min)
  PROVE  Later(x, y, vx, vy, -m) < min \/ Later(x, y, vx, vy, n) < min
  <1> DEFINE ax == (x - m * vx) * (x - m * vx)
             ay == (y - m * vy) * (y - m * vy)
             bx == (x + n * vx) * (x + n * vx)
             by == (y + n * vy) * (y + n * vy)
             V == vx * vx + vy * vy
             D == x * x + y * y
             h == half * half
             s == m + n
             mn == m * n
  <1>1. /\ m + n > 0 /\ vx * vx + vy * vy <= w * w /\ w * (m + n) <= 2 * half
        /\ x * x + y * y < min - half * half
    BY DEF CloseBetween
  <1>2. Later(x, y, vx, vy, -m) = ax + ay /\ Later(x, y, vx, vy, n) = bx + by
    <2>1. x + (-m) * vx = x - m * vx /\ y + (-m) * vy = y - m * vy
      OBVIOUS
    <2> QED
      BY <2>1 DEF Later
  <1>3. /\ ax \in Nat /\ ay \in Nat /\ bx \in Nat /\ by \in Nat
        /\ vx * vx \in Nat /\ vy * vy \in Nat /\ x * x \in Nat /\ y * y \in Nat
        /\ h \in Nat
    <2>1. /\ x - m * vx \in Int /\ y - m * vy \in Int
          /\ x + n * vx \in Int /\ y + n * vy \in Int
      OBVIOUS
    <2> QED
      BY <2>1, SquareNat
  <1>4. /\ n * ax + m * bx = s * (x * x + mn * (vx * vx))
        /\ n * ay + m * by = s * (y * y + mn * (vy * vy))
    BY OneCoordinate
  <1>5. V \in Nat /\ D \in Nat /\ s \in Nat /\ s > 0 /\ mn \in Nat
    <2>1. mn \in Nat
      BY Multiples
    <2> HIDE DEF mn
    <2> QED
      BY <1>1, <1>3, <2>1
  <1>6. mn * V \in Nat /\ mn * V <= h
    <2>1. V <= w * w /\ w * (m + n) <= 2 * half
      BY <1>1
    <2> HIDE DEF V
    <2> QED
      BY <1>5, <2>1, Added
  <1>7. D < min - h
    BY <1>1
  <1>8. s * (x * x + mn * (vx * vx)) + s * (y * y + mn * (vy * vy)) = s * (D + mn * V)
    <2> HIDE DEF mn, s
    <2> QED
      BY <1>3, <1>5
  <1> SUFFICES ASSUME min <= ax + ay, min <= bx + by
               PROVE  FALSE
    <2>1. ax + ay \in Nat /\ bx + by \in Nat
      BY <1>3
    <2>2. ax + ay < min \/ bx + by < min
      <3> SUFFICES ASSUME ~(ax + ay < min), ~(bx + by < min)
                   PROVE  FALSE
        OBVIOUS
      <3> HIDE DEF ax, ay, bx, by
      <3> QED
        BY <2>1
    <2> QED
      BY <1>2, <2>2
  <1>9. n * (ax + ay) + m * (bx + by) = s * (D + mn * V)
    <2> HIDE DEF ax, ay, bx, by, s, mn, D, V
    <2>1. n * (ax + ay) + m * (bx + by) = (n * ax + m * bx) + (n * ay + m * by)
      BY <1>3
    <2> QED
      BY <1>4, <1>8, <2>1
  <1> HIDE DEF ax, ay, bx, by, D, V, h, mn
  <1>10. s * min <= n * (ax + ay) + m * (bx + by)
    <2>1. min \in Nat /\ ax + ay \in Nat /\ bx + by \in Nat
      BY <1>3
    <2>2. n * min <= n * (ax + ay) /\ m * min <= m * (bx + by)
      BY <2>1, Larger
    <2>3. s * min = n * min + m * min
      OBVIOUS
    <2>4. /\ n * min \in Nat /\ m * min \in Nat
          /\ n * (ax + ay) \in Nat /\ m * (bx + by) \in Nat
      BY <2>1, Multiples
    <2> QED
      BY <2>2, <2>3, <2>4
  <1>11. D + mn * V < min /\ D + mn * V \in Nat
    BY <1>3, <1>5, <1>6, <1>7
  <1> HIDE DEF s
  <1>12. (D + mn * V + 1) * s <= min * s
    BY <1>5, <1>11, Multiples
  <1>13. /\ (D + mn * V + 1) * s = s * (D + mn * V) + s /\ min * s = s * min
         /\ s * (D + mn * V) \in Int
    BY <1>5, <1>11
  <1>14. s * min \in Int
    BY <1>5
  <1> QED
    BY <1>5, <1>9, <1>10, <1>12, <1>13, <1>14

\* What a flight moves in a second: all of its speed along one axis, or
\* nothing.
PerSecond(u, vx, vy) == vx \in {u, -u, 0} /\ vy \in {u, -u, 0} /\ (vx = 0 \/ vy = 0)

\* A level flight at a whole number of units in a second moves by as many, and
\* stays at its level.
LEMMA EverySecond ==
  ASSUME NEW a, TrackState(a), a.gs % 12 = 0, a.vr = 0
  PROVE  \E u \in Nat : \E vx, vy \in Int :
           /\ a.gs = u * 12 /\ PerSecond(u, vx, vy)
           /\ \A t \in Nat : LET p == ProjectFromTrack(a, t)
                             IN  /\ p.pos.x = a.pos.x + t * vx
                                 /\ p.pos.y = a.pos.y + t * vy
                                 /\ p.fl = a.fl
  <1>1. a.pos.x \in Int /\ a.pos.y \in Int /\ a.gs \in Nat /\ a.fl \in Nat /\ a.hdg \in Int
    BY TrackFields
  <1>2. PICK u \in Nat : a.gs = u * 12
    <2>1. \A g \in Nat : g % 12 = 0 => g \div 12 \in Nat /\ g = (g \div 12) * 12
      OBVIOUS
    <2> QED
      BY <1>1, <2>1
  <1> DEFINE e == East(a.hdg)
             n == North(a.hdg)
             vx == u * e
             vy == u * n
  <1>3. e \in {1, -1, 0} /\ n \in {1, -1, 0} /\ (e = 0 \/ n = 0)
    BY <1>1 DEF East, North
  <1>4. vx \in Int /\ vy \in Int /\ PerSecond(u, vx, vy)
    <2> HIDE DEF e, n
    <2> QED
      BY <1>3 DEF PerSecond
  <1>5. ASSUME NEW t \in Nat
        PROVE  LET p == ProjectFromTrack(a, t)
               IN  /\ p.pos.x = a.pos.x + t * vx
                   /\ p.pos.y = a.pos.y + t * vy
                   /\ p.fl = a.fl
    <2>1. Travel(a.gs, t) = u * t
      <3>1. (u * 12) * t = (u * t) * 12 /\ u * t \in Int
        OBVIOUS
      <3>2. ((u * t) * 12) \div 12 = u * t
        BY <3>1, Exact
      <3> QED
        BY <1>2, <3>1, <3>2 DEF Travel
    <2>2. ProjectedFL(a.fl, a.vr, t) = a.fl
      <3>1. a.vr * t = 0
        OBVIOUS
      <3>2. RoundDiv(0, 6000) = 0
        BY DEF RoundDiv
      <3> QED
        BY <1>1, <3>1, <3>2 DEF ProjectedFL
    <2>3. /\ ProjectFromTrack(a, t).pos.x = a.pos.x + (u * t) * e
          /\ ProjectFromTrack(a, t).pos.y = a.pos.y + (u * t) * n
          /\ ProjectFromTrack(a, t).fl = a.fl
      BY <2>1, <2>2 DEF ProjectFromTrack, Shift
    <2>4. (u * t) * e = t * vx /\ (u * t) * n = t * vy
      <3>1. e \in Int /\ n \in Int
        BY <1>3
      <3> HIDE DEF e, n
      <3> QED
        BY <3>1
    <2> QED
      BY <2>3, <2>4
  <1> HIDE DEF vx, vy
  <1> QED
    BY <1>2, <1>4, <1>5

\* Two flights move by no more relative to each other than both together.
LEMMA Together ==
  ASSUME NEW u \in Nat, NEW w \in Nat, NEW ax \in Int, NEW ay \in Int,
         NEW bx \in Int, NEW by \in Int, PerSecond(u, ax, ay), PerSecond(w, bx, by)
  PROVE  (ax - bx) * (ax - bx) + (ay - by) * (ay - by) <= (u + w) * (u + w)
  <1> DEFINE m == Abs(ax - bx)
             n == Abs(ay - by)
  <1>1. m \in Nat /\ n \in Nat /\ m + n <= u + w
    BY DEF Abs, PerSecond
  <1>2. \A k \in Int : Abs(k) * Abs(k) = k * k
    BY DEF Abs
  <1>3. (ax - bx) * (ax - bx) = m * m /\ (ay - by) * (ay - by) = n * n
    BY <1>2
  <1> HIDE DEF m, n
  <1>4. (m + n) * (m + n) = m * m + n * n + 2 * (m * n) /\ m * n \in Nat
    BY <1>1, Multiples
  <1>5. m * m \in Nat /\ n * n \in Nat
    BY <1>1, Multiples
  <1>6. m + n \in Nat /\ u + w \in Nat
    BY <1>1
  <1>7. (m + n) * (m + n) <= (u + w) * (u + w) /\ (u + w) * (u + w) \in Nat
    BY <1>1, <1>6, Larger
  <1> QED
    BY <1>3, <1>4, <1>5, <1>7

\* The instants of the window are samples, or between a sample and the next.
LEMMA Around ==
  ASSUME NEW t \in 0 .. Max(SampleTimes)
  PROVE  \E m, n \in Nat :
           /\ m <= t /\ t - m \in SampleTimes
           /\ m + n = StepSec
           /\ m = 0 \/ t + n \in SampleTimes
  <1> DEFINE d == StepSec
             last == LookaheadSec \div d
             q == t \div d
             m == t % d
             n == d - m
  <1>1. d \in Nat /\ d > 0 /\ LookaheadSec \in Nat
    BY Window
  <1>2. last \in Nat
    BY <1>1, Division
  <1> DEFINE S == {k * d : k \in 0 .. last}
  <1>3. SampleTimes = S
    BY DEF SampleTimes
  <1> HIDE DEF d, last
  <1>4. last * d \in Nat /\ last * d \in S /\ \A s \in S : s \in Nat /\ s <= last * d
    <2>1. last \in 0 .. last
      BY <1>2
    <2>2. ASSUME NEW k \in 0 .. last
          PROVE  k * d \in Nat /\ k * d <= last * d
      <3>1. k \in Nat /\ k <= last
        BY <1>2
      <3> QED
        BY <1>1, <1>2, <3>1, Multiples
    <2> QED
      BY <2>1, <2>2
  <1>5. Max(S) \in S /\ Max(S) >= last * d
    <2> HIDE DEF S
    <2>1. \E s \in S : \A r \in S : s >= r
      BY <1>4
    <2> QED
      BY <1>4, <2>1 DEF Max
  <1>6. t \in Nat /\ t <= last * d
    <2> HIDE DEF S
    <2> DEFINE mx == Max(S)
               end == last * d
    <2>1. mx \in Nat /\ mx <= end /\ end \in Nat
      BY <1>4, <1>5
    <2>2. t \in 0 .. mx
      BY <1>3
    <2> HIDE DEF mx, end
    <2>3. t \in Nat /\ t <= end
      BY <2>1, <2>2
    <2> QED
      BY <2>3 DEF end
  <1>7. q \in Nat /\ m \in Nat /\ m < d /\ t = q * d + m
    BY <1>1, <1>6, Division
  <1> HIDE DEF q, m
  <1>8. n \in Nat /\ m + n = d
    BY <1>1, <1>7
  <1> HIDE DEF n
  <1>9. q * d \in Nat /\ (q + 1) * d = q * d + d
    BY <1>1, <1>7, Multiples, OneMore
  <1>10. m <= t /\ t - m = q * d
    BY <1>7, <1>9
  <1>11. q <= last
    <2> SUFFICES ASSUME last + 1 <= q
                 PROVE  FALSE
      BY <1>2, <1>7
    <2>1. (last + 1) * d <= q * d /\ (last + 1) * d = last * d + d
      BY <1>1, <1>2, <1>7, Multiples, OneMore
    <2> QED
      BY <1>1, <1>4, <1>6, <1>7, <1>9, <2>1
  <1>12. t - m \in S
    <2>1. q \in 0 .. last
      BY <1>2, <1>7, <1>11
    <2> QED
      BY <1>10, <2>1
  <1>13. m = 0 \/ t + n \in S
    <2> SUFFICES ASSUME m > 0
                 PROVE  t + n \in S
      BY <1>7
    <2>1. t + n = (q + 1) * d
      BY <1>7, <1>8, <1>9
    <2>2. q # last
      <3> SUFFICES ASSUME q = last
                   PROVE  FALSE
        OBVIOUS
      <3>1. q * d = last * d
        OBVIOUS
      <3> QED
        BY <1>6, <1>7, <1>9, <3>1
    <2>3. q + 1 \in 0 .. last
      BY <1>2, <1>7, <1>11, <2>2
    <2> QED
      BY <2>1, <2>3
  <1>14. m <= t /\ t - m \in SampleTimes /\ m + n = d /\ (m = 0 \/ t + n \in SampleTimes)
    BY <1>3, <1>8, <1>10, <1>12, <1>13
  <1> QED
    BY <1>7, <1>8, <1>14 DEF d

\* The distance of two flights in a coordinate at k, from that at t.
LEMMA FromThen ==
  ASSUME NEW c \in Int, NEW d \in Int, NEW e \in Int, NEW f \in Int,
         NEW k \in Int, NEW t \in Int
  PROVE  (c + k * e) - (d + k * f) = ((c - d) + t * (e - f)) + (k - t) * (e - f)
  OBVIOUS

\* Two flights that move by vx and vy relative to each other in a second, at v
\* units at most, and stay at their levels.
Steady(a, b, v, vx, vy) ==
  /\ a.gs + b.gs = v * 12 /\ vx * vx + vy * vy <= v * v
  /\ \A t \in Nat : \E x, y \in Int : \A k \in Nat :
       /\ Lateral2(a, b, k) = Later(x, y, vx, vy, k - t)
       /\ Vertical(a, b, k) = absFL(a.fl, b.fl)

\* The distance of two level flights at any instant, in terms of that at
\* another.
LEMMA Relative ==
  ASSUME NEW a, NEW b, TrackState(a), TrackState(b), a.gs % 12 = 0, b.gs % 12 = 0,
         a.vr = 0, b.vr = 0
  PROVE  \E v \in Nat : \E vx, vy \in Int : Steady(a, b, v, vx, vy)
  <1>1. /\ a.pos.x \in Int /\ a.pos.y \in Int /\ b.pos.x \in Int /\ b.pos.y \in Int
        /\ a.gs \in Nat /\ b.gs \in Nat
    BY TrackFields
  <1>2. PICK u \in Nat, ax \in Int, ay \in Int :
          /\ a.gs = u * 12 /\ PerSecond(u, ax, ay)
          /\ \A k \in Nat : LET p == ProjectFromTrack(a, k)
                            IN  /\ p.pos.x = a.pos.x + k * ax
                                /\ p.pos.y = a.pos.y + k * ay
                                /\ p.fl = a.fl
    BY EverySecond
  <1>3. PICK w \in Nat, bx \in Int, by \in Int :
          /\ b.gs = w * 12 /\ PerSecond(w, bx, by)
          /\ \A k \in Nat : LET p == ProjectFromTrack(b, k)
                            IN  /\ p.pos.x = b.pos.x + k * bx
                                /\ p.pos.y = b.pos.y + k * by
                                /\ p.fl = b.fl
    BY EverySecond
  <1> DEFINE vx == ax - bx
             vy == ay - by
             v == u + w
  <1>4. vx \in Int /\ vy \in Int /\ v \in Nat /\ a.gs + b.gs = v * 12
    BY <1>2, <1>3
  <1>5. vx * vx + vy * vy <= v * v
    BY <1>2, <1>3, Together
  <1>6. PICK xa \in Int, xb \in Int, ya \in Int, yb \in Int :
          xa = a.pos.x /\ xb = b.pos.x /\ ya = a.pos.y /\ yb = b.pos.y
    BY <1>1
  <1>7. ASSUME NEW t \in Nat
        PROVE  \E x, y \in Int : \A k \in Nat :
                 /\ Lateral2(a, b, k) = Later(x, y, vx, vy, k - t)
                 /\ Vertical(a, b, k) = absFL(a.fl, b.fl)
    <2> DEFINE x == (xa - xb) + t * vx
               y == (ya - yb) + t * vy
    <2>1. x \in Int /\ y \in Int
      <3> HIDE DEF vx, vy
      <3> QED
        BY <1>4
    <2>2. ASSUME NEW k \in Nat
          PROVE  /\ Lateral2(a, b, k) = Later(x, y, vx, vy, k - t)
                 /\ Vertical(a, b, k) = absFL(a.fl, b.fl)
      <3> DEFINE p == ProjectFromTrack(a, k)
                 q == ProjectFromTrack(b, k)
      <3>1. /\ p.pos.x = xa + k * ax /\ p.pos.y = ya + k * ay /\ p.fl = a.fl
            /\ q.pos.x = xb + k * bx /\ q.pos.y = yb + k * by /\ q.fl = b.fl
        BY <1>2, <1>3, <1>6
      <3>2. (xa + k * ax) - (xb + k * bx) = x + (k - t) * vx
        BY FromThen
      <3>3. (ya + k * ay) - (yb + k * by) = y + (k - t) * vy
        BY FromThen
      <3>4. Lateral2(a, b, k) = Distance2(p.pos, q.pos) /\ Vertical(a, b, k) = absFL(a.fl, b.fl)
        BY <3>1 DEF Lateral2, Vertical
      <3>5. p.pos.x - q.pos.x = x + (k - t) * vx /\ p.pos.y - q.pos.y = y + (k - t) * vy
        BY <3>1, <3>2, <3>3
      <3> HIDE DEF p, q, x, y, vx, vy
      <3> QED
        BY <3>4, <3>5 DEF Distance2, Later
    <2> HIDE DEF x, y
    <2> QED
      BY <2>1, <2>2
  <1> HIDE DEF vx, vy, v
  <1>8. Steady(a, b, v, vx, vy)
    BY <1>4, <1>5, <1>7 DEF Steady
  <1> QED
    BY <1>4, <1>8

\* The distance at the instant itself.
LEMMA AtOnce ==
  ASSUME NEW x \in Int, NEW y \in Int, NEW vx \in Int, NEW vy \in Int
  PROVE  Later(x, y, vx, vy, 0) = x * x + y * y
  <1>1. x + 0 * vx = x /\ y + 0 * vy = y
    OBVIOUS
  <1> QED
    BY <1>1 DEF Later

\* What is less than a number but for a square is less than the number.
LEMMA LessASquare ==
  ASSUME NEW d \in Int, NEW min \in Int, NEW h \in Int, d < min - h * h
  PROVE  d < min
  <1>1. h * h \in Nat
    BY SquareNat
  <1> QED
    BY <1>1

\* Two flights cover v units together in each of s seconds; half of it, rounded
\* up.
LEMMA HalfOfIt ==
  ASSUME NEW g \in Nat, NEW v \in Nat, g = v * 12, NEW s \in Nat
  PROVE  LET half == (Travel(g, s) + 1) \div 2
         IN  half \in Nat /\ v * s <= 2 * half
  <1>1. v * s \in Nat
    BY Multiples
  <1>2. (v * 12) * s = (v * s) * 12
    OBVIOUS
  <1>3. ((v * s) * 12) \div 12 = v * s
    BY <1>1, Exact
  <1>4. Travel(g, s) = v * s
    BY <1>2, <1>3 DEF Travel
  <1>5. \A k \in Nat : (k + 1) \div 2 \in Nat /\ k <= 2 * ((k + 1) \div 2)
    OBVIOUS
  <1> QED
    BY <1>1, <1>4, <1>5

\* Two level flights that are that close at some instant of the window are at
\* some sample closer than both minima.
LEMMA CloseSample ==
  ASSUME NEW a, NEW b, TrackState(a), TrackState(b), a.gs % 12 = 0, b.gs % 12 = 0,
         a.vr = 0, b.vr = 0, absFL(a.fl, b.fl) < VerticalMinFt(a.fl, b.fl),
         NEW half, half = (Travel(a.gs + b.gs, StepSec) + 1) \div 2,
         NEW min \in Nat, min = LateralMin * LateralMin,
         NEW t \in 0 .. Max(SampleTimes)
  PROVE  Lateral2(a, b, t) < min - half * half => LostAt(a, b) # {}
  <1>1. PICK m \in Nat, n \in Nat :
          /\ m <= t /\ t - m \in SampleTimes /\ m + n = StepSec
          /\ m = 0 \/ t + n \in SampleTimes
    BY Around
  <1>2. /\ m + n > 0 /\ SampleTimes = Samples /\ Samples \subseteq Nat /\ t - m \in Nat
        /\ t \in Nat /\ StepSec \in Nat
    BY <1>1, Window, SameSamples
  <1>3. PICK v \in Nat, vx \in Int, vy \in Int : Steady(a, b, v, vx, vy)
    BY Relative
  <1>4. PICK x \in Int, y \in Int : \A k \in Nat :
          /\ Lateral2(a, b, k) = Later(x, y, vx, vy, k - t)
          /\ Vertical(a, b, k) = absFL(a.fl, b.fl)
    BY <1>2, <1>3 DEF Steady
  <1>5. half \in Nat /\ v * (m + n) <= 2 * half
    <2>1. a.gs + b.gs \in Nat
      BY TrackFields
    <2>2. v \in Nat /\ a.gs + b.gs = v * 12
      BY <1>3 DEF Steady
    <2>3. half \in Nat /\ v * StepSec <= 2 * half
      BY <1>2, <2>1, <2>2, HalfOfIt
    <2> QED
      BY <1>1, <2>3
  <1>6. t - t = 0 /\ (t - m) - t = -m /\ (t + n) - t = n /\ t + n \in Nat
    BY <1>1, <1>2
  <1>7. /\ Lateral2(a, b, t) = Later(x, y, vx, vy, 0)
        /\ Lateral2(a, b, t - m) = Later(x, y, vx, vy, -m)
        /\ Lateral2(a, b, t + n) = Later(x, y, vx, vy, n)
    BY <1>2, <1>4, <1>6
  <1>8. Later(x, y, vx, vy, 0) = x * x + y * y
    BY <1>3, <1>4, AtOnce
  <1>9. ASSUME NEW k \in Samples, Lateral2(a, b, k) < min
        PROVE  LostAt(a, b) # {}
    BY <1>2, <1>4, <1>9 DEF LostAt, Lost
  <1> SUFFICES ASSUME Lateral2(a, b, t) < min - half * half
               PROVE  LostAt(a, b) # {}
    OBVIOUS
  <1>10. x * x + y * y < min - half * half
    BY <1>7, <1>8
  <1>11. CASE m = 0
    <2>1. x * x + y * y \in Int
      BY <1>4
    <2>2. x * x + y * y < min
      BY <1>5, <1>10, <2>1, LessASquare
    <2>3. t - m = t
      BY <1>2, <1>11
    <2> QED
      BY <1>1, <1>2, <1>7, <1>8, <1>9, <2>2, <2>3
  <1>12. CASE t + n \in SampleTimes
    <2>1. CloseBetween(x, y, vx, vy, m, n, v, half, min)
      BY <1>2, <1>3, <1>5, <1>10 DEF CloseBetween, Steady
    <2>2. Later(x, y, vx, vy, -m) < min \/ Later(x, y, vx, vy, n) < min
      <3>1. /\ x \in Int /\ y \in Int /\ vx \in Int /\ vy \in Int
            /\ m \in Nat /\ n \in Nat /\ v \in Nat
        BY <1>1, <1>3, <1>4
      <3> QED
        BY <1>5, <2>1, <3>1, NearSample
    <2> QED
      BY <1>1, <1>2, <1>7, <1>9, <1>12, <2>2
  <1> QED
    BY <1>1, <1>11, <1>12

\* Two level flights that come closer at some instant of the window, sampled or
\* not, than the minimum but for what they travel relative to each other in half
\* a step, are reported (Prober.Detect, detectPair).
THEOREM CloseEncountersAreFound == Spec => []CloseEncountersFound
  <1>1. ASSUME DetectInv(call), DetectFinished, NEW p \in Pairs(call.tracks),
               NEW a, a = call.tracks[p[1]], NEW b, b = call.tracks[p[2]],
               NEW half, half = (Travel(a.gs + b.gs, StepSec) + 1) \div 2,
               a.vr = 0, b.vr = 0, absFL(a.fl, b.fl) < VerticalMinFt(a.fl, b.fl),
               NEW t \in 0 .. Max(SampleTimes),
               Lateral2(a, b, t) < LateralMin * LateralMin - half * half
        PROVE  Reports(call.out, a, b) # {}
    <2>1. /\ TrackState(a) /\ TrackState(b) /\ None \notin ConflictOf(a, b)
          /\ detectPair(a, b) # None => Reports(call.out, a, b) # {}
      <3>1. \A n \in DOMAIN call.out : {n} # {}
        OBVIOUS
      <3> QED
        BY <1>1, <3>1, ReportsOfPair
    <2>2. a.gs % 12 = 0 /\ b.gs % 12 = 0
      <3>1. call.tracks \in Pictures \cup {SelfCheckTracks}
        BY <1>1 DEF DetectInv, DetectFinished
      <3>2. p[1] \in DOMAIN call.tracks /\ p[2] \in DOMAIN call.tracks
        BY <3>1, PictureFields DEF Pairs
      <3> QED
        BY <1>1, <3>1, <3>2, SpeedsAssumption
    <2>3. LateralMin * LateralMin \in Nat
      BY DEF LateralMin
    <2>4. LostAt(a, b) # {}
      BY <1>1, <2>1, <2>2, <2>3, CloseSample
    <2> QED
      BY <2>1, <2>4, PairConflict
  <1>2. DetectInv(call) => CloseEncountersFound
    BY <1>1 DEF CloseEncountersFound
  <1> QED
    BY <1>2, DetectInvariant, PTL
=============================================================================
