------------------------------ MODULE Analysis ------------------------------
(***************************************************************************)
(* Calls of the stateless packages: the conflict probe (separation), the   *)
(* sector entry (trajectory), the monitors of sectors and of spacing       *)
(* (flow), and the smoke test that calls two of them (selfcheck).  One     *)
(* call runs at a time; `call' is its frame: the arguments, the variables  *)
(* of the loop it is in, and the result so far.                            *)
(***************************************************************************)
EXTENDS Separation, Trajectory, Sectors

CONSTANTS
  Pictures,     \* sequences of track states
  Flights,      \* [route, volume, step, horizon] for the sector entry
  Traffic,      \* [air, positions] for the occupancy, air a function to sectors
  Queues        \* [spacing, required] for the miles in trail

VARIABLE call

Idle == [op |-> "Idle"]

-----------------------------------------------------------------------------
(* Deviations, each one a plausible slip in the code.                      *)

LoadAtCapacity(s, plans, cap) ==
  [sector |-> s, count |-> Len(plans), alert |-> Len(plans) >= cap, plans |-> plans]

\* The list of a sector is begun anew for each flight in it.
CollectLast ==
  /\ call.op = "Occupancy"
  /\ call.todo # <<>>
  /\ LET p    == Head(call.todo)
         in   == SectorsFor(call.air, p.pos, p.fl)
         rest == [call EXCEPT !.todo = Tail(@)]
     IN  \/ /\ in = {}
            /\ call' = rest
         \/ \E s \in in : call' = [rest EXCEPT !.plans[s] = <<p.plan>>]

\* The end of the horizon is not sampled; the last gap is not checked.
PredictDoneOpen ==
  \/ Len(call.flight.route.legs) = 0
  \/ call.entry # None
  \/ call.t >= call.flight.horizon

TrailDoneEarly ==
  call.queue.required <= 0 \/ call.i + 1 >= Len(call.queue.spacing)

-----------------------------------------------------------------------------
(* Prober.Detect: the pairs i < j, by i and then by j.                     *)

DetectFrame(tracks, caller) ==
  [op |-> "Detect", caller |-> caller, tracks |-> tracks,
   i |-> 1, j |-> 2, out |-> <<>>]

DetectDone == call.i >= Len(call.tracks)

Detect ==
  /\ call = Idle
  /\ \E tracks \in Pictures : call' = DetectFrame(tracks, "client")

Found(out, c) == IF c = None THEN out ELSE Append(out, c)

ProbePair ==
  /\ call.op = "Detect"
  /\ ~ DetectDone
  /\ LET c    == detectPair(call.tracks[call.i], call.tracks[call.j])
         next == IF call.j < Len(call.tracks)
                 THEN <<call.i, call.j + 1>> ELSE <<call.i + 1, call.i + 2>>
     IN  call' = [call EXCEPT !.i = next[1], !.j = next[2],
                              !.out = Found(@, c)]

-----------------------------------------------------------------------------
(* PredictSectorEntry.  The test it is given is InsideSector; a position   *)
(* that is not a number is inside no polygon.                              *)

Inside(volume, p) == p.pos # NaN /\ InsideSector(volume, p.pos, p.fl)

PredictSectorEntry ==
  /\ call = Idle
  /\ \E f \in Flights :
       call' = [op |-> "Predict", caller |-> "client", flight |-> f,
                t |-> 0, entry |-> None]

PredictDone ==
  \/ Len(call.flight.route.legs) = 0
  \/ call.entry # None
  \/ call.t > call.flight.horizon

\* Time stands still where the flight is known to be outside.
SampleRouteStuck ==
  /\ call.op = "Predict"
  /\ LET p == PositionAtTime(call.flight.route, call.t)
     IN  call' = IF Inside(call.flight.volume, p)
                 THEN [call EXCEPT !.entry = call.t] ELSE call

SampleRoute ==
  /\ call.op = "Predict"
  /\ ~ PredictDone
  /\ LET p == PositionAtTime(call.flight.route, call.t)
     IN  call' = IF Inside(call.flight.volume, p)
                 THEN [call EXCEPT !.entry = call.t]
                 ELSE [call EXCEPT !.t = @ + call.flight.step]

-----------------------------------------------------------------------------
(* Occupancy: plans are collected by sector, then the sectors are listed.  *)
(* Both loops meet the sectors in the order of a Go map, which is any.     *)

OccupancyFrame(tr, caller) ==
  [op |-> "Occupancy", caller |-> caller, air |-> tr.air,
   todo |-> tr.positions, plans |-> [s \in DOMAIN tr.air |-> <<>>],
   left |-> DOMAIN tr.air, out |-> <<>>,
   given |-> tr.positions]

Occupancy ==
  /\ call = Idle
  /\ \E tr \in Traffic : call' = OccupancyFrame(tr, "client")

Collect ==
  /\ call.op = "Occupancy"
  /\ call.todo # <<>>
  /\ LET p    == Head(call.todo)
         in   == SectorsFor(call.air, p.pos, p.fl)
         rest == [call EXCEPT !.todo = Tail(@)]
     IN  \/ /\ in = {}
            /\ call' = rest
         \/ \E s \in in : call' = [rest EXCEPT !.plans[s] = Append(@, p.plan)]

Load(s, plans, cap) ==
  [sector |-> s, count |-> Len(plans), alert |-> Len(plans) > cap, plans |-> plans]

ListSector ==
  /\ call.op = "Occupancy"
  /\ call.todo = <<>>
  /\ \E s \in call.left :
       call' = [call EXCEPT !.left = @ \ {s},
                            !.out = Append(@, Load(s, call.plans[s], call.air[s].cap))]

OccupancyDone == call.todo = <<>> /\ call.left = {}

-----------------------------------------------------------------------------
(* MilesInTrailCheck: neighbours in the list, whose order is the caller's. *)

MilesInTrailCheck ==
  /\ call = Idle
  /\ \E q \in Queues :
       call' = [op |-> "Trail", caller |-> "client", queue |-> q,
                i |-> 1, out |-> <<>>]

TrailDone == call.queue.required <= 0 \/ call.i >= Len(call.queue.spacing)

TooClose(lead, trail, required) == lead.dist - trail.dist < required

CheckGap ==
  /\ call.op = "Trail"
  /\ ~ TrailDone
  /\ LET lead  == call.queue.spacing[call.i]
         trail == call.queue.spacing[call.i + 1]
     IN  call' = [call EXCEPT
           !.i = @ + 1,
           !.out = IF TooClose(lead, trail, call.queue.required)
                   THEN Append(@, <<lead.plan, trail.plan>>) ELSE @]

-----------------------------------------------------------------------------
(* selfcheck.Run: an overload in sector E, then two flights head-on.  The  *)
(* airspace is in units of 0.05 degrees, the tracks in those of Separation *)
(* (0.05 degrees at the equator are 3 nm).                                 *)

SelfCheckTraffic ==
  [air |-> [s \in {"E"} |->
             [floor |-> 100, ceiling |-> 450, cap |-> 1,
              poly |-> <<[x |-> -20, y |-> -20], [x |-> 20, y |-> -20],
                         [x |-> 20, y |-> 20], [x |-> -20, y |-> 20]>>]],
   positions |-> <<[plan |-> "A", pos |-> [x |-> 0, y |-> 0], fl |-> 350],
                   [plan |-> "B", pos |-> [x |-> 4, y |-> 4], fl |-> 350]>>]

SelfCheckTracks ==
  <<[id |-> "A", pos |-> [x |-> -900, y |-> 0], fl |-> 350, hdg |-> 90,
     gs |-> 480, vr |-> 0],
    [id |-> "B", pos |-> [x |-> 900, y |-> 0], fl |-> 350, hdg |-> 270,
     gs |-> 480, vr |-> 0]>>

SelfCheckResult(passed) ==
  [op |-> "SelfCheck", caller |-> "client", passed |-> passed]

SelfCheck ==
  /\ call = Idle
  /\ call' = OccupancyFrame(SelfCheckTraffic, "selfcheck")

SelfCheckLoad ==
  /\ call.op = "Occupancy" /\ call.caller = "selfcheck"
  /\ OccupancyDone
  /\ call' = IF Len(call.out) = 1 /\ call.out[1].alert
             THEN DetectFrame(SelfCheckTracks, "selfcheck")
             ELSE SelfCheckResult(FALSE)

SelfCheckConflict ==
  /\ call.op = "Detect" /\ call.caller = "selfcheck"
  /\ DetectDone
  /\ call' = SelfCheckResult(Len(call.out) = 1)

-----------------------------------------------------------------------------
Finished ==
  \/ call.op = "Detect" /\ DetectDone
  \/ call.op = "Predict" /\ PredictDone
  \/ call.op = "Occupancy" /\ OccupancyDone
  \/ call.op = "Trail" /\ TrailDone
  \/ call.op = "SelfCheck"

Return ==
  /\ call # Idle
  /\ call.caller = "client"
  /\ Finished
  /\ call' = Idle

Init == call = Idle

Begin == Detect \/ PredictSectorEntry \/ Occupancy \/ MilesInTrailCheck \/ SelfCheck

Step ==
  \/ ProbePair \/ SampleRoute \/ Collect \/ ListSector \/ CheckGap
  \/ SelfCheckLoad \/ SelfCheckConflict \/ Return

Next == Begin \/ Step

Spec == Init /\ [][Next]_call

(* A call runs until it returns; nothing obliges anybody to make one.      *)
FairSpec == Spec /\ WF_call(Step)
=============================================================================
