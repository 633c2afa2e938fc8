------------------------------- MODULE Store --------------------------------
(***************************************************************************)
(* The SQLite store of the ATC conflict engine.  Every table is a function *)
(* from its primary key to a row, or None where there is no row.  The      *)
(* store keeps one connection, so each operator below is one statement (or *)
(* one transaction) and takes effect, or fails, as a whole.                *)
(*                                                                         *)
(* Data is abstracted to what the handlers compare:                        *)
(*   - a plan id is a number that stands for its place in the text order   *)
(*     of ids (the store lists plans ORDER BY id);                         *)
(*   - a timestamp is a number that stands for its place in the text order *)
(*     of the ts column, the order LatestTrack and Report use;             *)
(*   - Geo stands for everything detectPair reads from a report;           *)
(*   - an aircraft type is the set of cruise levels and Machs that         *)
(*     ValidateEnvelope lets through;                                      *)
(*   - the times of a handoff are left out, nothing compares them.         *)
(***************************************************************************)
EXTENDS Flight, Naturals

CONSTANTS
  PlanId,       \* ids of flight plans, in text order
  Callsign,
  AircraftId,   \* ids of aircraft types
  Cruise,       \* pairs of cruise level and cruise Mach
  Sector,
  Ts,           \* timestamps of track reports, in text order
  Geo,          \* position, level, heading and rates of a track report
  HandoffId,
  None          \* no row

ASSUME OrderAssumption == PlanId \subseteq Nat /\ Ts \subseteq Nat

VARIABLES
  aircraft,     \* table aircraft_types
  plans,        \* table flight_plans
  tracks,       \* table track_reports, grouped by plan_id
  handoffs,     \* table handoffs
  conflicts,    \* table conflicts
  events        \* table events

tables == <<aircraft, plans, tracks, handoffs, conflicts, events>>

AircraftRow == [envelope: SUBSET Cruise]

PlanRow == [callsign: Callsign, ac: AircraftId, cruise: Cruise,
            sector: Sector, state: FlightState, suspended: BOOLEAN]

Track == [ts: Ts, geo: Geo]

HandoffRow == [plan: PlanId, from: Sector, to: Sector, state: HandoffState]

ConflictRow == [a: PlanId, b: PlanId]

EventRow == [plan: PlanId, kind: FlightState]

ASSUME NoneAssumption ==
  /\ None \notin AircraftRow
  /\ None \notin PlanRow
  /\ None \notin HandoffRow

TablesOK ==
  /\ aircraft  \in [AircraftId -> AircraftRow \cup {None}]
  /\ plans     \in [PlanId -> PlanRow \cup {None}]
  /\ tracks    \in [PlanId -> SUBSET Track]
  /\ handoffs  \in [HandoffId -> HandoffRow \cup {None}]
  /\ conflicts \subseteq ConflictRow
  /\ events    \subseteq EventRow

-----------------------------------------------------------------------------
(* Deviations of the statements, each one a plausible slip in the code.    *)

NoUniqueCallsign(p, c) == TRUE
EarliestTrack(p) == {t \in tracks[p] : \A u \in tracks[p] : t.ts <= u.ts}
ReplaceTrack(p, t) ==
  tracks' = [tracks EXCEPT ![p] = {u \in @ : u.ts > t.ts} \cup {t}]

-----------------------------------------------------------------------------
(* flight_plans: callsign is UNIQUE; PutFlight upserts on the id only, so  *)
(* it fails when another row holds the callsign.                           *)

CallsignExists(c) == \E p \in PlanId : plans[p] # None /\ plans[p].callsign = c

CallsignFree(p, c) ==
  \A q \in PlanId \ {p} : plans[q] # None => plans[q].callsign # c

PutFlight(p, row) == plans' = [plans EXCEPT ![p] = row]

PutAircraft(a, row) == aircraft' = [aircraft EXCEPT ![a] = row]

(* track_reports: rows are only inserted, and (plan_id, ts) is UNIQUE.     *)

\* The set of the one report LatestTrack returns; empty for ErrNotFound.
LatestTrack(p) == {t \in tracks[p] : \A u \in tracks[p] : u.ts <= t.ts}

TrackFree(p, t) == \A u \in tracks[p] : u.ts # t.ts

AddTrack(p, t) == tracks' = [tracks EXCEPT ![p] = @ \cup {t}]

(* handoffs *)

PutHandoff(h, row) == handoffs' = [handoffs EXCEPT ![h] = row]

(* conflicts: DELETE and the INSERTs run in one transaction.               *)

ReplaceConflicts(cs) == conflicts' = cs

(* events: insert-only.  Two events of one kind for one plan are one.      *)

Event(p, kind) == events' = events \cup {[plan |-> p, kind |-> kind]}
=============================================================================
