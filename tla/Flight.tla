------------------------------- MODULE Flight -------------------------------
(***************************************************************************)
(* The pure rules of package flight over the enums of package model: the   *)
(* lifecycle of a flight plan and the state changes of a sector handoff.   *)
(* A row is a record with at least the fields the rule reads or writes.    *)
(***************************************************************************)

FlightState ==
  {"FILED", "ACCEPTED", "CLEARED", "ACTIVE", "SUSPENDED", "TERMINATED"}

\* REJECTED is declared by the source and never assigned by it.
HandoffState == {"INITIATED", "COMPLETED", "REJECTED", "CANCELLED"}

-----------------------------------------------------------------------------
(* Deviations of the rules, each one a plausible slip in the code.         *)

AnyTransition(from, to) == from # to
NoSuspendedUpdate(p, to) == [p EXCEPT !.state = to]
CancelReopens(h) == [h EXCEPT !.state = "INITIATED"]
AcceptUndeclared(h) == [h EXCEPT !.state = "ACCEPTED"]
AcceptSwapsSectors(h) == [h EXCEPT !.state = "COMPLETED", !.from = h.to]

-----------------------------------------------------------------------------
(* flight/state.go *)

Edges == { <<"FILED", "ACCEPTED">>, <<"ACCEPTED", "CLEARED">>,
           <<"CLEARED", "ACTIVE">>,
           <<"ACTIVE", "SUSPENDED">>, <<"ACTIVE", "TERMINATED">>,
           <<"SUSPENDED", "ACTIVE">>, <<"SUSPENDED", "TERMINATED">> }

CanTransition(from, to) == <<from, to>> \in Edges

Transition(p, to) ==
  [p EXCEPT !.state = to, !.suspended = (to = "SUSPENDED")]

(* flight/handoff.go *)

\* Initiate refuses a handoff to the same sector.  The empty strings it also
\* refuses are never among the sectors of the model.
CanInitiate(from, to) == from # to

CanAccept(h) == h.state = "INITIATED"

Accept(h) == [h EXCEPT !.state = "COMPLETED"]

Unaccepted(h) == h.state = "INITIATED"

CancelUnaccepted(h) == [h EXCEPT !.state = "CANCELLED"]
=============================================================================
