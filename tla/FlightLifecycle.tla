--------------------------- MODULE FlightLifecycle --------------------------
(***************************************************************************)
(* What the engine promises about a flight plan: it is filed once and then *)
(* goes through its lifecycle, one named step at a time, and a terminated  *)
(* flight stays terminated.  This is the reading of the state names in     *)
(* package model, stated without the table CanTransition implements.       *)
(***************************************************************************)
CONSTANT PlanId

VARIABLE state   \* state[p] is "NONE" until p is filed

Phase == {"NONE", "FILED", "ACCEPTED", "CLEARED", "ACTIVE", "SUSPENDED",
          "TERMINATED"}

Init == state \in [PlanId -> Phase]

Step(p, from, to) == state[p] = from /\ state' = [state EXCEPT ![p] = to]

File(p)      == Step(p, "NONE", "FILED")
Accept(p)    == Step(p, "FILED", "ACCEPTED")
Clear(p)     == Step(p, "ACCEPTED", "CLEARED")
Activate(p)  == Step(p, "CLEARED", "ACTIVE")
Suspend(p)   == Step(p, "ACTIVE", "SUSPENDED")
Resume(p)    == Step(p, "SUSPENDED", "ACTIVE")
Terminate(p) == Step(p, "ACTIVE", "TERMINATED") \/ Step(p, "SUSPENDED", "TERMINATED")

Next == \E p \in PlanId :
          \/ File(p) \/ Accept(p) \/ Clear(p) \/ Activate(p)
          \/ Suspend(p) \/ Resume(p) \/ Terminate(p)

Spec == Init /\ [][Next]_state
=============================================================================
