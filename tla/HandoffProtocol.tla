--------------------------- MODULE HandoffProtocol --------------------------
(***************************************************************************)
(* What the engine promises about control of a flight: a flight has one    *)
(* controlling sector and at most one pending offer; an offer is settled   *)
(* once, for good; it completes only when the sector it names has control; *)
(* and control moves only to the sector of the pending offer.              *)
(***************************************************************************)
CONSTANTS PlanId, Sector, HandoffId, None

VARIABLES
  sector,   \* sector[p] is the sector in control of p, None until p is filed
  offer     \* offer[h] is a handoff [plan, to, state], None until it is made

Init ==
  /\ sector \in [PlanId -> Sector \cup {None}]
  /\ offer = [h \in HandoffId |-> None]

Pending(h) == offer[h] # None /\ offer[h].state = "INITIATED"

Settle(h, state) == offer' = [offer EXCEPT ![h].state = state]

File(p) ==
  /\ sector[p] = None
  /\ \E s \in Sector : sector' = [sector EXCEPT ![p] = s]
  /\ UNCHANGED offer

Offer(h) ==
  /\ offer[h] = None
  /\ \E p \in PlanId, s \in Sector :
       /\ sector[p] # None
       /\ ~ \E g \in HandoffId : Pending(g) /\ offer[g].plan = p
       /\ offer' = [offer EXCEPT ![h] = [plan |-> p, to |-> s, state |-> "INITIATED"]]
  /\ UNCHANGED sector

Transfer(h) ==
  /\ Pending(h)
  /\ sector' = [sector EXCEPT ![offer[h].plan] = offer[h].to]
  /\ UNCHANGED offer

Complete(h) ==
  /\ Pending(h)
  /\ sector[offer[h].plan] = offer[h].to
  /\ Settle(h, "COMPLETED")
  /\ UNCHANGED sector

Cancel(h) ==
  /\ Pending(h)
  /\ Settle(h, "CANCELLED")
  /\ UNCHANGED sector

Next ==
  \/ \E p \in PlanId : File(p)
  \/ \E h \in HandoffId : Offer(h) \/ Transfer(h) \/ Complete(h) \/ Cancel(h)

Spec == Init /\ [][Next]_<<sector, offer>>
=============================================================================
