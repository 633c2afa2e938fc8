------------------------------ MODULE MCService ------------------------------
(***************************************************************************)
(* Small instances of ServiceSafety for TLC.  Every configuration takes    *)
(* its constants from here, from strings and from model values.            *)
(***************************************************************************)
EXTENDS ServiceSafety, TLC

Symmetry == Permutations(Handler)
SymmetryHandoffs == Permutations(Handler) \cup Permutations(HandoffId)

\* Two aircraft types can be registered; jet is there from the start.
JetOnly == [a \in AircraftId |-> IF a = "jet" THEN [envelope |-> {"m78"}] ELSE None]

\* Positions: two flights lose separation when both reports are "near".
BothNear == {<<"near", "near">>}

(* That is what the probe makes of reports of two flights that go north    *)
(* side by side at one level: "near" in one place, "far" each 50 nm from   *)
(* the next place.                                                         *)
Probe == INSTANCE Separation WITH ProberStep <- 0, ProberLookahead <- 0

Reported(p, g) ==
  [id |-> p, pos |-> [x |-> IF g = "near" THEN 0 ELSE 15000 * p, y |-> 0],
   fl |-> 350, hdg |-> 0, gs |-> 120, vr |-> 0]

ASSUME ProbeAssumption ==
  \A g, h \in {"near", "far"} :
    Probe!detectPair(Reported(1, g), Reported(2, h)) # None <=> <<g, h>> \in BothNear

Plan(callsign, sector, state) ==
  [callsign |-> callsign, ac |-> "jet", cruise |-> "m78", sector |-> sector,
   state |-> state, suspended |-> state = "SUSPENDED"]

NoPlans == [p \in PlanId |-> None]

\* Flights 1, 2, ... in the given states, all controlled by sector "s1".
Signs == <<"AAL1", "BAW2", "CSN3">>
Flights(states) ==
  [p \in PlanId |->
     IF p \in DOMAIN states THEN Plan(Signs[p], "s1", states[p]) ELSE None]

OneCleared == Flights(<<"CLEARED">>)
OneActive == Flights(<<"ACTIVE">>)
TwoActive == Flights(<<"ACTIVE", "ACTIVE">>)

NoFilings == {}

\* Filings of the one flight plan a client of the traffic instances sends.
PlainFilings == {Plan(c, "s1", "FILED") : c \in Callsign}

\* Filings that differ in everything File looks at or stores unseen.
MixedFilings ==
  {r \in PlanRow : r.state = "FILED" /\ (r.suspended => r.ac = "jet")}
=============================================================================
