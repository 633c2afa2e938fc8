---------------------------- MODULE SerialProofs ----------------------------
(***************************************************************************)
(* Theorems about requests served one at a time: with one handler, what a  *)
(* request has read is still so when it writes, and the service keeps the  *)
(* promises that races break.                                              *)
(***************************************************************************)
EXTENDS HandlerProofs

\* There is at most one handler.
Alone == \A v, w \in Handler : v = w

-----------------------------------------------------------------------------
(* One pending handoff.                                                    *)

\* A set with at most one element.
LEMMA AtMostOneElement ==
  ASSUME NEW S, IsFiniteSet(S), Cardinality(S) <= 1, NEW g \in S, NEW h \in S
  PROVE  g = h
  <1>1. Cardinality(S) = 1
    BY FS_EmptySet, FS_CardinalityType
  <1>2. PICK x : S = {x}
    BY <1>1, FS_Singleton
  <1> QED
    BY <1>2

\* Served one at a time, requests never leave two pending handoffs of one
\* flight: nobody offers between the check and the row (InitiateHandoff).
THEOREM OnePending ==
  ASSUME Alone, ~Faults
  PROVE  Spec => []AtMostOnePending
  <1>1. IsFiniteSet(Handler) /\ Cardinality(Handler) <= 1
    <2>1. CASE Handler = {}
      BY <2>1, FS_EmptySet
    <2>2. CASE Handler # {}
      <3>1. PICK w : Handler = {w}
        BY <2>2 DEF Alone
      <3>2. IsFiniteSet({w}) /\ Cardinality({w}) = 1
        BY FS_Singleton, Zenon
      <3>3. IsFiniteSet(Handler) /\ Cardinality(Handler) = 1
        BY <3>1, <3>2, Zenon
      <3> QED
        BY <3>3
    <2> QED
      BY <2>1, <2>2
  <1>2. TypeInv /\ BoundInv => AtMostOnePending
    <2> SUFFICES ASSUME TypeInv, BoundInv, NEW g \in HandoffId, NEW h \in HandoffId,
                        PendingHandoff(g), PendingHandoff(h),
                        handoffs[g].plan = handoffs[h].plan
                 PROVE  g = h
      BY DEF AtMostOnePending
    <2> DEFINE p == handoffs[g].plan
    <2>1. p \in PlanId
      BY DEF PendingHandoff, Offered, TypeInv, TypeOK, TablesOK, HandoffRow
    <2>2. Offering(p) \subseteq Handler
      BY DEF Offering
    <2>3. IsFiniteSet(Pending(p)) /\ Cardinality(Pending(p)) <= 1
      <3>1. Cardinality(Offering(p)) \in Nat /\ Cardinality(Handler) \in Nat
        BY <1>1, <2>2, FS_Subset, FS_CardinalityType
      <3>2. /\ IsFiniteSet(Pending(p))
            /\ Cardinality(Pending(p)) + Cardinality(Offering(p)) <= Cardinality(Handler)
        BY <2>1 DEF BoundInv
      <3>3. Cardinality(Pending(p)) \in Nat
        BY <3>2, FS_CardinalityType
      <3> QED
        BY <1>1, <3>1, <3>2, <3>3
    <2>4. g \in Pending(p) /\ h \in Pending(p)
      BY DEF Pending
    <2> HIDE DEF p
    <2> QED
      BY <2>3, <2>4, AtMostOneElement
  <1> QED
    BY <1>1, <1>2, BoundInvariant, Typed, PTL

-----------------------------------------------------------------------------
(* Copies of flight plans.                                                 *)

\* What a request knows of the flight plan it names is what is stored.
FlightCopy(r) ==
  /\ r.pc \in {"file_type", "file_put"} =>
       r.row \in Filings /\ (~ExplicitIds => plans[r.plan] = None)
  /\ r.pc = "move_put" =>
       /\ Filed(r.plan)
       /\ \E to \in Targets : /\ CanTransition(plans[r.plan].state, to)
                              /\ r.row = Transition(plans[r.plan], to)
  /\ r.pc = "move_event" => plans[r.plan] = r.row
  /\ r.pc \in HoldsTrack => Filed(r.plan) /\ Airborne(plans[r.plan])
  /\ r.pc \in Initiating => Filed(r.plan)
  /\ r.pc = "accept_putflight" =>
       Filed(r.plan) /\ r.row = TakeControl(plans[r.plan], r.hand)
  /\ r.pc = "accept_puthandoff" => Filed(r.plan) /\ plans[r.plan].sector = r.hand.to

FlightInv == \A w \in Handler : FlightCopy(req[w])

\* A request that writes its row holds the new row.
LEMMA RowWritten ==
  ASSUME TypeInv, NEW w \in Handler, req[w].pc \in Checked, PutsPlan(req[w])
  PROVE  /\ req[w].plan \in PlanId /\ req[w].row \in PlanRow
         /\ plans'[req[w].plan] = req[w].row
         /\ \A p \in PlanId : p # req[w].plan => plans'[p] = plans[p]
  BY NextType DEF PutsPlan, Holding, Checked, HoldsPlan, HoldsRow, TypeInv, TypeOK, TablesOK

\* The only handler at work keeps its copy of the flight true.
LEMMA FlightCopyNext ==
  ASSUME TypeInv, NEW w \in Handler, FlightCopy(req[w]), StepOf(w)
  PROVE  FlightCopy(req[w])'
  <1> DEFINE o == req[w]
             r == req'[w]
  <1>o. o \in Request /\ Holding(o)
    BY NextType
  <1> USE DEF Passes, Held
  <1>1. CASE Ends(r)
    BY <1>1 DEF Ends, FlightCopy, HoldsTrack, Initiating
  <1>2. CASE BeginsFile(o, r)
    BY <1>2 DEF BeginsFile, Begins, tables, FilingIds, FreshPlanIds, FlightCopy,
       HoldsTrack, Initiating
  <1>3. CASE BeginsMove(o, r)
    BY <1>3 DEF BeginsMove, Begins, tables, FlightCopy, Filed, HoldsTrack, Initiating
  <1>4. CASE BeginsReport(o, r)
    BY <1>4 DEF BeginsReport, Begins, tables, FlightCopy, Filed, HoldsTrack, Initiating
  <1>5. CASE BeginsInitiate(o, r)
    BY <1>5 DEF BeginsInitiate, Begins, tables, FlightCopy, Filed, HoldsTrack, Initiating
  <1>6. CASE BeginsAccept(o, r) \/ BeginsReconcile(o, r)
    BY <1>6 DEF BeginsAccept, BeginsReconcile, AfterCancel, FlightCopy, HoldsTrack,
       Initiating
  <1>7. CASE ChecksType(o, r) \/ ChecksOrder(o, r) \/ ChecksPending(o, r)
    BY <1>7 DEF ChecksType, ChecksOrder, ChecksPending, tables, FlightCopy, Filed,
       HoldsTrack, Initiating
  <1>8. CASE ReadsFlight(o, r)
    BY <1>8 DEF ReadsFlight, tables, FlightCopy, Filed, HoldsTrack, Initiating
  <1>9. CASE PutsMoved(o, r)
    BY <1>9, RowWritten DEF PutsMoved, Checked, HoldsRow, FlightCopy, HoldsTrack,
       Initiating
  <1>10. CASE PutsControl(o, r)
    <2>1. o.row = TakeControl(plans[o.plan], o.hand) /\ plans[o.plan] \in PlanRow
      BY <1>10, <1>o
      DEF PutsControl, FlightCopy, Filed, Holding, HoldsPlan, TypeInv, TypeOK, TablesOK
    <2>2. o.row # None /\ o.row.sector = o.hand.to
      BY <1>10, <1>o, <2>1, NoneAssumption
      DEF PutsControl, TakeControl, PlanRow, Holding, HoldsRow
    <2> QED
      BY <1>10, <2>2, RowWritten
      DEF PutsControl, Checked, HoldsRow, FlightCopy, Filed, HoldsTrack, Initiating
  <1>11. CASE AddsTrack(o, r) \/ Cancels(o, r) \/ ListsActive(o, r) \/ ReadsTrack(o, r)
    BY <1>11 DEF AddsTrack, Cancels, ListsActive, ReadsTrack, AfterCancel, AfterRead,
       FlightCopy, HoldsTrack, Initiating
  <1> QED
    BY <1>1, <1>2, <1>3, <1>4, <1>5, <1>6, <1>7, <1>8, <1>9, <1>10, <1>11
    DEF StepOf, Reads, Writes, Refuses, Registers, PutsFiled, Logs, Replaces,
        MakesOffer, Completes

\* The copy of the flight a handler works on is the row of the table.
LEMMA FlightInvariant ==
  ASSUME Alone
  PROVE  Spec => [](TypeInv /\ FlightInv)
  <1>1. Init => FlightInv
    BY DEF Init, Idle, FlightInv, FlightCopy, HoldsTrack, Initiating
  <1>2. TypeInv /\ FlightInv /\ [Next]_vars => FlightInv'
    <2> SUFFICES ASSUME TypeInv, FlightInv, [Next]_vars
                 PROVE  FlightInv'
      OBVIOUS
    <2>1. CASE UNCHANGED vars
      BY <2>1 DEF vars, FlightInv, FlightCopy, Filed
    <2>2. CASE Restart
      BY <2>2 DEF Restart, Idle, FlightInv, FlightCopy, HoldsTrack, Initiating
    <2>3. ASSUME NEW w \in Handler, StepOf(w)
          PROVE  FlightInv'
      <3>1. FlightCopy(req[w])'
        BY <2>3, FlightCopyNext DEF FlightInv
      <3> QED
        BY <3>1 DEF Alone, FlightInv
    <2> QED
      BY <2>1, <2>2, <2>3, NextStep
  <1> QED
    BY <1>1, <1>2, Typed, PTL DEF Spec

-----------------------------------------------------------------------------
(* The lifecycle.                                                          *)

\* How a step may change the flight plans.
LEMMA FlightStep ==
  ASSUME TypeInv, FlightInv, ~ExplicitIds, NEW w \in Handler, StepOf(w)
  PROVE  \/ plans' = plans
         \/ \E p \in PlanId, row \in PlanRow :
              /\ plans' = [plans EXCEPT ![p] = row]
              /\ \/ PutsFiled(req[w], req'[w]) /\ plans[p] = None /\ row.state = "FILED"
                 \/ Filed(p) /\ CanTransition(plans[p].state, row.state)
                      /\ row.sector = plans[p].sector
                 \/ PutsControl(req[w], req'[w]) /\ Filed(p) /\ p = req[w].plan
                      /\ row = TakeControl(plans[p], req[w].hand)
  <1> DEFINE o == req[w]
             r == req'[w]
  <1>o. o \in Request /\ Holding(o) /\ FlightCopy(o)
    BY NextType DEF FlightInv
  <1>1. CASE PutsFiled(o, r)
    <2>1. o.plan \in PlanId /\ o.row \in PlanRow
      BY <1>o, <1>1 DEF PutsFiled, Holding, HoldsPlan, HoldsRow
    <2>2. plans[o.plan] = None /\ o.row.state = "FILED"
      BY <1>o, <1>1, ServiceAssumption DEF PutsFiled, FlightCopy
    <2> QED
      BY <1>1, <2>1, <2>2 DEF PutsFiled, PutsPlan
  <1>2. CASE PutsMoved(o, r)
    <2>1. o.plan \in PlanId /\ o.row \in PlanRow
      BY <1>o, <1>2 DEF PutsMoved, Passes, Holding, HoldsPlan, HoldsRow
    <2>2. PICK to \in Targets : /\ CanTransition(plans[o.plan].state, to)
                                /\ o.row = Transition(plans[o.plan], to)
      BY <1>o, <1>2 DEF PutsMoved, Passes, FlightCopy
    <2>3. Filed(o.plan) /\ plans[o.plan] \in PlanRow
      BY <1>o, <1>2, <2>1
      DEF PutsMoved, Passes, FlightCopy, Filed, TypeInv, TypeOK, TablesOK
    <2>4. o.row.state = to /\ o.row.sector = plans[o.plan].sector
      BY <2>2, <2>3 DEF Transition, PlanRow
    <2> QED
      BY <1>2, <2>1, <2>2, <2>3, <2>4 DEF PutsMoved, PutsPlan
  <1>3. CASE PutsControl(o, r)
    <2>1. o.plan \in PlanId /\ o.row \in PlanRow
      BY <1>o, <1>3 DEF PutsControl, Passes, Holding, HoldsPlan, HoldsRow
    <2>2. Filed(o.plan) /\ o.row = TakeControl(plans[o.plan], o.hand)
      BY <1>o, <1>3 DEF PutsControl, Passes, FlightCopy
    <2> QED
      BY <1>3, <2>1, <2>2 DEF PutsControl, PutsPlan
  <1>4. CASE ~PutsFiled(o, r) /\ ~PutsMoved(o, r) /\ ~PutsControl(o, r)
    BY <1>4, ReadsKeep
    DEF StepOf, tables, Writes, Registers, Logs, AddsTrack, Replaces, MakesOffer,
        Completes, Cancels, PutsHandoff
  <1> QED
    BY <1>1, <1>2, <1>3, <1>4

\* Every step of the service is a step of the lifecycle or none.
LEMMA PhaseStep ==
  ASSUME TypeInv, FlightInv, ~ExplicitIds, NEW w \in Handler, StepOf(w)
  PROVE  [Lifecycle!Next]_Phases
  <1>1. CASE plans' = plans
    BY <1>1 DEF Phases, Filed
  <1>2. ASSUME NEW p \in PlanId, NEW row \in PlanRow,
               plans' = [plans EXCEPT ![p] = row]
        PROVE  Phases' = [Phases EXCEPT ![p] = row.state]
    BY <1>2, NoneAssumption DEF Phases, Filed, TypeInv, TypeOK, TablesOK
  <1> USE DEF Lifecycle!Next, Lifecycle!Step
  <1>3. ASSUME NEW p \in PlanId, NEW row \in PlanRow,
               plans' = [plans EXCEPT ![p] = row], plans[p] = None, row.state = "FILED"
        PROVE  Lifecycle!File(p)
    BY <1>2, <1>3 DEF Lifecycle!File, Phases, Filed
  <1>4. ASSUME NEW p \in PlanId, NEW row \in PlanRow, Filed(p),
               plans' = [plans EXCEPT ![p] = row],
               CanTransition(plans[p].state, row.state)
        PROVE  Lifecycle!Next
    <2>1. Phases[p] = plans[p].state /\ Phases' = [Phases EXCEPT ![p] = row.state]
      BY <1>2, <1>4 DEF Phases
    <2> HIDE DEF Phases
    <2> QED
      BY <1>4, <2>1
      DEF CanTransition, Edges, Lifecycle!Accept, Lifecycle!Clear, Lifecycle!Activate,
          Lifecycle!Suspend, Lifecycle!Resume, Lifecycle!Terminate
  <1>5. ASSUME NEW p \in PlanId, NEW row \in PlanRow, Filed(p), row.state = plans[p].state,
               plans' = [plans EXCEPT ![p] = row]
        PROVE  Phases' = Phases
    <2>1. \A q \in PlanId : Filed(q)' <=> Filed(q)
      BY <1>5, NoneAssumption DEF Filed, TypeInv, TypeOK, TablesOK
    <2>2. \A q \in PlanId : Filed(q) => plans'[q].state = plans[q].state
      BY <1>5 DEF TypeInv, TypeOK, TablesOK
    <2> QED
      BY <2>1, <2>2 DEF Phases
  <1>6. ASSUME NEW p \in PlanId, NEW hand, Filed(p)
        PROVE  TakeControl(plans[p], hand).state = plans[p].state
    BY <1>6 DEF TakeControl, PlanRow, Filed, TypeInv, TypeOK, TablesOK
  <1> HIDE DEF Lifecycle!Next
  <1>7. \A p \in PlanId : Lifecycle!File(p) => Lifecycle!Next
    BY DEF Lifecycle!Next
  <1> QED
    BY <1>1, <1>3, <1>4, <1>5, <1>6, <1>7, FlightStep

\* Served one at a time, and with ids drawn by the service, flights go through
\* the lifecycle the state names promise: no stale row brings an earlier state
\* back (Move, AcceptHandoff, CanTransition), and none is filed twice (File).
THEOREM LifecycleFollowed ==
  ASSUME Alone, ~ExplicitIds
  PROVE  Spec => FollowsLifecycle
  <1>1. TypeInv => Lifecycle!Init
    BY DEF Lifecycle!Init, Lifecycle!Phase, Phases, Filed, TypeInv, TypeOK, TablesOK,
       PlanRow, FlightState
  <1>2. TypeInv /\ FlightInv /\ [Next]_vars => [Lifecycle!Next]_Phases
    BY PhaseStep, NextStep DEF vars, Restart, tables, Phases, Filed
  <1> QED
    BY <1>1, <1>2, FlightInvariant, PTL DEF Spec, FollowsLifecycle, Lifecycle!Spec

-----------------------------------------------------------------------------
(* Events.                                                                 *)

\* The rank of a flight never falls.
LEMMA RankStep ==
  ASSUME TypeInv, FlightInv, ~ExplicitIds, NEW w \in Handler, StepOf(w),
         NEW p \in PlanId, Filed(p)
  PROVE  Filed(p)' /\ Rank[plans'[p].state] >= Rank[plans[p].state]
  <1>0. plans[p] \in PlanRow
    BY DEF Filed, TypeInv, TypeOK, TablesOK
  <1>1. \A k \in FlightState : Rank[k] \in Nat
    BY DEF Rank, FlightState
  <1>2. \A k \in FlightState, j \in FlightState : CanTransition(k, j) => Rank[j] >= Rank[k]
    BY DEF Rank, CanTransition, Edges
  <1>3. CASE plans' = plans
    BY <1>0, <1>1, <1>3 DEF Filed, PlanRow
  <1>4. ASSUME NEW q \in PlanId, NEW row \in PlanRow, plans' = [plans EXCEPT ![q] = row],
               \/ plans[q] = None
               \/ CanTransition(plans[q].state, row.state)
               \/ \E hand : row = TakeControl(plans[q], hand)
        PROVE  Filed(p)' /\ Rank[plans'[p].state] >= Rank[plans[p].state]
    <2>1. CASE p # q
      BY <1>0, <1>1, <1>4, <2>1 DEF Filed, PlanRow, TypeInv, TypeOK, TablesOK
    <2>2. CASE p = q
      <3>1. plans'[p] = row /\ row # None
        BY <1>4, <2>2, NoneAssumption DEF TypeInv, TypeOK, TablesOK
      <3>2. CanTransition(plans[p].state, row.state) \/ row.state = plans[p].state
        BY <1>0, <1>4, <2>2 DEF Filed, TakeControl, PlanRow
      <3>3. row.state \in FlightState /\ plans[p].state \in FlightState
        BY <1>0 DEF PlanRow
      <3> QED
        BY <1>1, <1>2, <3>1, <3>2, <3>3 DEF Filed
    <2> QED
      BY <2>1, <2>2
  <1> QED
    BY <1>3, <1>4, FlightStep

\* Events name filed plans that have got as far.
Behind == \A e \in events : Filed(e.plan) /\ Rank[plans[e.plan].state] >= Rank[e.kind]

\* Every step leaves the events of a flight at or behind its state.
LEMMA BehindNext ==
  ASSUME ~ExplicitIds, TypeInv, TypeInv', FlightInv, Behind, NEW w \in Handler, StepOf(w)
  PROVE  Behind'
  <1>1. \A k \in FlightState : Rank[k] \in Nat
    BY DEF Rank, FlightState
  <1>2. \A e \in events : e.plan \in PlanId /\ e.kind \in FlightState
    BY DEF TypeInv, TypeOK, TablesOK, EventRow
  <1>3. \A p \in PlanId : Filed(p) => plans[p].state \in FlightState
    BY DEF Filed, TypeInv, TypeOK, TablesOK, PlanRow
  <1>4. \A p \in PlanId : Filed(p)' => plans'[p].state \in FlightState
    BY DEF Filed, TypeInv, TypeOK, TablesOK, PlanRow
  <1>5. \A e \in events : /\ plans'[e.plan] # None
                          /\ Rank[plans'[e.plan].state] >= Rank[e.kind]
    <2> TAKE e \in events
    <2> DEFINE p == e.plan
               old == plans[p].state
               new == plans'[p].state
    <2>1. p \in PlanId /\ Filed(p) /\ Rank[old] >= Rank[e.kind]
      BY <1>2 DEF Behind
    <2>2. plans'[p] # None /\ Rank[new] >= Rank[old]
      BY <2>1, RankStep DEF Filed
    <2>3. Rank[old] \in Nat /\ Rank[new] \in Nat /\ Rank[e.kind] \in Nat
      BY <1>1, <1>2, <1>3, <1>4, <2>1, <2>2 DEF Filed
    <2> QED
      BY <2>1, <2>2, <2>3
  <1>6. CASE events' = events
    BY <1>5, <1>6 DEF Behind, Filed
  <1>7. CASE Logs(req[w], req'[w])
    <2> DEFINE o == req[w]
    <2>1. o.plan \in PlanId /\ o.row \in PlanRow /\ plans[o.plan] = o.row /\ plans' = plans
      BY <1>7, NextType
      DEF Logs, Holding, HoldsPlan, HoldsRow, FlightInv, FlightCopy
    <2>2. plans'[o.plan] # None /\ Rank[plans'[o.plan].state] >= Rank[o.row.state]
      BY <1>1, <2>1, NoneAssumption DEF PlanRow
    <2> QED
      BY <1>5, <1>7, <2>2 DEF Logs, Behind, Filed
  <1> QED
    BY <1>6, <1>7, ReadsKeep
    DEF StepOf, tables, Writes, Registers, PutsFiled, PutsMoved, PutsControl, PutsPlan,
        AddsTrack, Replaces, MakesOffer, Completes, Cancels, PutsHandoff

\* The event log never runs ahead of the flights: Move writes the plan before
\* the event, and no other request can take the plan back in between.
THEOREM EventsStayBehind ==
  ASSUME Alone, ~ExplicitIds
  PROVE  Spec => []EventsBehindState
  <1>1. Init => Behind
    BY DEF Init, Behind
  <1>2. TypeInv /\ TypeInv' /\ FlightInv /\ Behind /\ [Next]_vars => Behind'
    BY BehindNext, NextStep DEF vars, Restart, tables, Behind, Filed
  <1>3. Behind => EventsBehindState
    BY DEF Behind, EventsBehindState
  <1> QED
    BY <1>1, <1>2, <1>3, FlightInvariant, PTL DEF Spec

-----------------------------------------------------------------------------
(* Reports.                                                                *)

\* A flight that has reports has a newest one.
HasLatest == \A p \in PlanId : tracks[p] # {} => LatestTrack(p) # {}

\* A report that is about to be stored is newer than the newest one.
Newer(r) == r.pc = "report_add" => ~OutOfOrder(r.plan, r.track)

ReportInv == HasLatest /\ \A w \in Handler : Newer(req[w])

\* Then it is newer than all of them.
LEMMA NewerThanAll ==
  ASSUME TypeInv, HasLatest, NEW p \in PlanId, NEW t \in Track, ~OutOfOrder(p, t),
         NEW u \in tracks[p]
  PROVE  u.ts < t.ts
  <1>1. PICK v \in tracks[p] : v \in LatestTrack(p)
    BY DEF HasLatest, LatestTrack
  <1>2. u.ts <= v.ts /\ ~(v.ts >= t.ts)
    BY <1>1 DEF LatestTrack, OutOfOrder
  <1>3. u.ts \in Nat /\ v.ts \in Nat /\ t.ts \in Nat
    <2>1. u \in Track /\ v \in Track
      BY DEF TypeInv, TypeOK, TablesOK
    <2> QED
      BY <2>1, OrderAssumption DEF Track
  <1> QED
    BY <1>2, <1>3

\* A report that is stored is newer than all those of its flight.
LEMMA ReportStep ==
  ASSUME TypeInv, FlightInv, ReportInv, NEW w \in Handler, AddsTrack(req[w], req'[w])
  PROVE  /\ req[w].plan \in PlanId /\ req[w].track \in Track
         /\ Filed(req[w].plan) /\ Airborne(plans[req[w].plan])
         /\ \A u \in tracks[req[w].plan] : u.ts < req[w].track.ts
  <1>1. req[w].plan \in PlanId /\ req[w].track \in Track
    BY NextType DEF AddsTrack, Passes, Holding, HoldsPlan, HoldsTrack
  <1>2. Filed(req[w].plan) /\ Airborne(plans[req[w].plan])
    BY DEF AddsTrack, Passes, FlightInv, FlightCopy, HoldsTrack
  <1>3. HasLatest /\ ~OutOfOrder(req[w].plan, req[w].track)
    BY DEF AddsTrack, Passes, ReportInv, Newer
  <1> QED
    BY <1>1, <1>2, <1>3, NewerThanAll

\* A flight that has reports still has a newest one after a step.
LEMMA LatestNext ==
  ASSUME TypeInv, FlightInv, ReportInv, NEW w \in Handler, StepOf(w)
  PROVE  HasLatest'
  <1>1. CASE tracks' = tracks
    BY <1>1 DEF ReportInv, HasLatest, LatestTrack
  <1>2. CASE AddsTrack(req[w], req'[w])
    <2> DEFINE q == req[w].plan
               t == req[w].track
    <2>1. /\ q \in PlanId /\ t \in Track
          /\ \A u \in tracks[q] : u.ts < t.ts
      BY <1>2, ReportStep
    <2>2. /\ tracks'[q] = tracks[q] \cup {t}
          /\ \A p \in PlanId : p # q => tracks'[p] = tracks[p]
      BY <1>2, <2>1 DEF AddsTrack, TypeInv, TypeOK, TablesOK
    <2>3. t.ts \in Nat /\ \A u \in tracks[q] : u.ts \in Nat
      <3>1. tracks[q] \subseteq Track
        BY <2>1 DEF TypeInv, TypeOK, TablesOK
      <3> QED
        BY <2>1, <3>1, OrderAssumption DEF Track
    <2> HIDE DEF q, t
    <2>4. \A u \in tracks'[q] : u.ts <= t.ts
      BY <2>1, <2>2, <2>3
    <2>5. \A p \in PlanId : tracks'[p] # {} =>
            {s \in tracks'[p] : \A u \in tracks'[p] : u.ts <= s.ts} # {}
      <3> TAKE p \in PlanId
      <3>1. CASE p = q
        BY <2>2, <2>4, <3>1
      <3>2. CASE p # q
        BY <2>2, <3>2 DEF ReportInv, HasLatest, LatestTrack
      <3> QED
        BY <3>1, <3>2
    <2> QED
      BY <2>5 DEF HasLatest, LatestTrack
  <1> QED
    BY <1>1, <1>2, ReadsKeep
    DEF StepOf, tables, Writes, Registers, PutsFiled, PutsMoved, PutsControl, PutsPlan,
        Logs, Replaces, MakesOffer, Completes, Cancels, PutsHandoff

\* The report that a handler is about to store passed the check.
LEMMA NewerNext ==
  ASSUME ~Faults, NEW w \in Handler, StepOf(w)
  PROVE  Newer(req[w])'
  <1>1. CASE ChecksOrder(req[w], req'[w])
    BY <1>1 DEF ChecksOrder, Passes, Held, tables, Newer, OutOfOrder, LatestTrack
  <1>2. CASE req'[w].pc # "report_add"
    BY <1>2 DEF Newer
  <1> QED
    BY <1>1, <1>2
    DEF StepOf, Reads, Writes, Refuses, Ends, BeginsFile, BeginsMove, BeginsReport,
        BeginsInitiate, BeginsAccept, BeginsReconcile, ChecksType, ChecksPending,
        ReadsFlight, ListsActive, ReadsTrack, Registers, PutsFiled, PutsMoved,
        PutsControl, Logs, AddsTrack, Replaces, MakesOffer, Completes, Cancels, Passes,
        AfterRead, AfterCancel

\* Flights with reports have a newest one, and what is to be stored is newer.
LEMMA ReportInvariant ==
  ASSUME Alone, ~Faults
  PROVE  Spec => []ReportInv
  <1>1. Init => ReportInv
    BY DEF Init, Idle, ReportInv, HasLatest, Newer
  <1>2. TypeInv /\ FlightInv /\ ReportInv /\ [Next]_vars => ReportInv'
    <2> SUFFICES ASSUME TypeInv, FlightInv, ReportInv, [Next]_vars
                 PROVE  ReportInv'
      OBVIOUS
    <2>1. CASE UNCHANGED vars
      BY <2>1 DEF vars, ReportInv, HasLatest, Newer, OutOfOrder, LatestTrack
    <2>2. CASE Restart
      BY <2>2 DEF Restart, tables, Idle, ReportInv, HasLatest, Newer, LatestTrack
    <2>3. ASSUME NEW w \in Handler, StepOf(w)
          PROVE  ReportInv'
      <3>1. HasLatest' /\ Newer(req[w])'
        BY <2>3, LatestNext, NewerNext
      <3> QED
        BY <3>1 DEF Alone, ReportInv
    <2> QED
      BY <2>1, <2>2, <2>3, NextStep
  <1> QED
    BY <1>1, <1>2, FlightInvariant, PTL DEF Spec

\* Served one at a time, a report is stored only when it is newer than all the
\* others of its flight and the flight is ACTIVE: nothing happens between the
\* checks and the row (Report).
THEOREM ReportsOrdered ==
  ASSUME Alone, ~Faults
  PROVE  Spec => ReportsInOrder
  <1>1. TypeInv /\ FlightInv /\ ReportInv /\ [Next]_vars =>
          [\A p \in PlanId : \A t \in tracks'[p] \ tracks[p] :
             /\ Filed(p) /\ plans[p].state = "ACTIVE"
             /\ \A u \in tracks[p] : u.ts < t.ts]_vars
    <2> SUFFICES ASSUME TypeInv, FlightInv, ReportInv, [Next]_vars,
                        NEW p \in PlanId, NEW t \in tracks'[p] \ tracks[p]
                 PROVE  /\ Filed(p) /\ plans[p].state = "ACTIVE"
                        /\ \A u \in tracks[p] : u.ts < t.ts
      OBVIOUS
    <2>1. tracks' # tracks
      OBVIOUS
    <2>2. PICK w \in Handler : StepOf(w)
      BY <2>1, NextStep DEF vars, Restart, tables
    <2>3. AddsTrack(req[w], req'[w])
      BY <2>1, <2>2, ReadsKeep
      DEF StepOf, tables, Writes, Registers, PutsFiled, PutsMoved, PutsControl, PutsPlan,
          Logs, Replaces, MakesOffer, Completes, Cancels, PutsHandoff
    <2>4. p = req[w].plan /\ t = req[w].track
      BY <2>3 DEF AddsTrack, TypeInv, TypeOK, TablesOK
    <2> QED
      BY <2>3, <2>4, ReportStep DEF Airborne
  <1> QED
    BY <1>1, FlightInvariant, ReportInvariant, PTL DEF Spec, ReportsInOrder

-----------------------------------------------------------------------------
(* Refresh.                                                                *)

\* What refresh should have read of the plans in S: their newest reports.
NewestOf(S) ==
  {s \in [plan: PlanId, geo: Geo] :
     s.plan \in S /\ \E t \in LatestTrack(s.plan) : t.geo = s.geo}

\* Refresh has read the active flights that are not left to read, and nothing
\* it has read has changed.
View(r) ==
  /\ r.pc \in {"refresh_track", "refresh_replace"} =>
       r.todo \subseteq ActivePlans /\ r.seen = NewestOf(ActivePlans \ r.todo)
  /\ r.pc = "refresh_replace" => r.todo = {}
  /\ r.pc \notin {"refresh_track", "refresh_replace"} => r.seen = {}

ViewInv == \A w \in Handler : View(req[w])

\* What refresh has read so far stays what the tables hold.
LEMMA ViewNext ==
  ASSUME ~Faults, TypeInv, NEW w \in Handler, View(req[w]), StepOf(w)
  PROVE  View(req[w])'
  <1> DEFINE o == req[w]
             r == req'[w]
  <1>1. CASE Begins(o, r) /\ r.pc \notin {"refresh_track", "refresh_replace"}
    BY <1>1 DEF Begins, View
  <1>2. CASE ListsActive(o, r)
    <2>1. NewestOf({}) = {} /\ ActivePlans \ ActivePlans = {}
      BY DEF NewestOf
    <2>2. ActivePlans' = ActivePlans
      BY <1>2 DEF ListsActive, tables, ActivePlans
    <2>3. \A S : NewestOf(S)' = NewestOf(S)
      BY <1>2 DEF ListsActive, tables, NewestOf, LatestTrack
    <2>4. r.seen = {} /\ r.todo = ActivePlans
      BY <1>2 DEF ListsActive, View
    <2> QED
      BY <1>2, <2>1, <2>2, <2>3, <2>4 DEF ListsActive, AfterRead, View
  <1>3. CASE ReadsTrack(o, r)
    <2>1. PICK p \in o.todo :
            /\ r.pc = AfterRead(o.todo \ {p}) /\ r.todo = o.todo \ {p}
            /\ r.seen = o.seen \cup {[plan |-> p, geo |-> t.geo] : t \in LatestTrack(p)}
      BY <1>3 DEF ReadsTrack
    <2>2. o.todo \subseteq ActivePlans /\ o.seen = NewestOf(ActivePlans \ o.todo)
      BY <1>3 DEF ReadsTrack, View
    <2>3. p \in PlanId /\ LatestTrack(p) \subseteq Track
      BY <2>2 DEF ActivePlans, LatestTrack, TypeInv, TypeOK, TablesOK
    <2>4. {[plan |-> p, geo |-> t.geo] : t \in LatestTrack(p)} = NewestOf({p})
      BY <2>3 DEF NewestOf, Track
    <2>5. r.seen = NewestOf(ActivePlans \ r.todo)
      <3>1. \A S, T : NewestOf(S) \cup NewestOf(T) = NewestOf(S \cup T)
        BY DEF NewestOf
      <3>2. ActivePlans \ r.todo = (ActivePlans \ o.todo) \cup {p}
        BY <2>1, <2>2
      <3> QED
        BY <2>1, <2>2, <2>4, <3>1, <3>2
    <2>6. ActivePlans' = ActivePlans
      BY <1>3 DEF ReadsTrack, tables, ActivePlans
    <2>7. \A S : NewestOf(S)' = NewestOf(S)
      BY <1>3 DEF ReadsTrack, tables, NewestOf, LatestTrack
    <2> QED
      BY <2>1, <2>2, <2>5, <2>6, <2>7 DEF AfterRead, View
  <1>4. CASE /\ o.pc \notin {"refresh_track", "refresh_replace"}
             /\ r.pc \notin {"refresh_track", "refresh_replace"}
             /\ r.seen = o.seen
    BY <1>4 DEF View
  <1>5. CASE \/ BeginsFile(o, r) \/ BeginsMove(o, r) \/ BeginsReport(o, r)
             \/ BeginsInitiate(o, r) \/ BeginsAccept(o, r) \/ BeginsReconcile(o, r)
    BY <1>1, <1>5
    DEF BeginsFile, BeginsMove, BeginsReport, BeginsInitiate, BeginsAccept,
        BeginsReconcile, AfterCancel
  <1>6. CASE \/ ChecksType(o, r) \/ ChecksOrder(o, r) \/ ChecksPending(o, r)
             \/ ReadsFlight(o, r) \/ PutsMoved(o, r) \/ PutsControl(o, r)
             \/ AddsTrack(o, r) \/ Cancels(o, r)
    BY <1>4, <1>6
    DEF ChecksType, ChecksOrder, ChecksPending, ReadsFlight, PutsMoved, PutsControl,
        AddsTrack, Cancels, Passes, AfterCancel
  <1>7. CASE \/ Refuses(o, r) \/ Registers(o, r) \/ PutsFiled(o, r) \/ Logs(o, r)
             \/ Replaces(o, r) \/ MakesOffer(o, r) \/ Completes(o, r)
    BY <1>7
    DEF Refuses, Registers, PutsFiled, Logs, Replaces, MakesOffer, Completes, Ends, View
  <1> QED
    BY <1>2, <1>3, <1>5, <1>6, <1>7 DEF StepOf, Reads, Writes

\* What refresh has read so far is what the tables hold.
LEMMA ViewInvariant ==
  ASSUME Alone, ~Faults
  PROVE  Spec => []ViewInv
  <1>1. Init => ViewInv
    BY DEF Init, Idle, ViewInv, View
  <1>2. TypeInv /\ ViewInv /\ [Next]_vars => ViewInv'
    <2> SUFFICES ASSUME TypeInv, ViewInv, [Next]_vars
                 PROVE  ViewInv'
      OBVIOUS
    <2>1. CASE UNCHANGED vars
      BY <2>1 DEF vars, ViewInv, View, ActivePlans, NewestOf, LatestTrack
    <2>2. CASE Restart
      BY <2>2 DEF Restart, Idle, ViewInv, View
    <2>3. ASSUME NEW w \in Handler, StepOf(w)
          PROVE  ViewInv'
      <3>1. View(req[w])'
        BY <2>3, ViewNext DEF ViewInv
      <3> QED
        BY <3>1 DEF Alone, ViewInv
    <2> QED
      BY <2>1, <2>2, <2>3, NextStep
  <1> QED
    BY <1>1, <1>2, Typed, PTL DEF Spec

\* What refresh detects in the newest reports of the active flights is what
\* should be in the table.
LEMMA DetectsTrueConflicts ==
  ASSUME TypeInv
  PROVE  Detect(NewestOf(ActivePlans)) = TrueConflicts
  <1>1. ASSUME NEW p \in PlanId, NEW t
        PROVE  t \in LatestTrack(p) <=> Newest(p, t)
    <2>1. tracks[p] \subseteq Track
      BY DEF TypeInv, TypeOK, TablesOK
    <2>2. \A u \in tracks[p] : u.ts \in Nat
      BY <2>1, OrderAssumption DEF Track
    <2> QED
      BY <2>2 DEF LatestTrack, Newest
  <1>2. \A p \in PlanId : \A t \in LatestTrack(p) : t.geo \in Geo
    BY DEF LatestTrack, TypeInv, TypeOK, TablesOK, Track
  <1>3. ASSUME NEW c \in ConflictRow
        PROVE  (\E s, t \in NewestOf(ActivePlans) :
                  s.plan = c.a /\ t.plan = c.b /\ <<s.geo, t.geo>> \in LossPairs)
               <=> /\ \A p \in {c.a, c.b} : Filed(p) /\ plans[p].state = "ACTIVE"
                   /\ \E t \in tracks[c.a], u \in tracks[c.b] :
                        Newest(c.a, t) /\ Newest(c.b, u) /\ <<t.geo, u.geo>> \in LossPairs
    <2>1. c.a \in PlanId /\ c.b \in PlanId
      BY DEF ConflictRow
    <2>2. ASSUME NEW p \in PlanId, NEW g
          PROVE  [plan |-> p, geo |-> g] \in NewestOf(ActivePlans)
                 <=> p \in ActivePlans /\ \E t \in LatestTrack(p) : t.geo = g
      BY <1>2 DEF NewestOf
    <2>3. \A s \in NewestOf(ActivePlans) : s = [plan |-> s.plan, geo |-> s.geo]
      BY DEF NewestOf
    <2>4. \A p \in PlanId : p \in ActivePlans <=> Filed(p) /\ plans[p].state = "ACTIVE"
      BY DEF ActivePlans, Filed
    <2> DEFINE a == c.a
               b == c.b
               Seen(p, g) == [plan |-> p, geo |-> g]
    <2>5. ASSUME NEW s \in NewestOf(ActivePlans), NEW t \in NewestOf(ActivePlans),
                 s.plan = a, t.plan = b, <<s.geo, t.geo>> \in LossPairs
          PROVE  /\ a \in ActivePlans /\ b \in ActivePlans
                 /\ \E x \in tracks[a], y \in tracks[b] :
                      Newest(a, x) /\ Newest(b, y) /\ <<x.geo, y.geo>> \in LossPairs
      <3>1. PICK x \in LatestTrack(a) : a \in ActivePlans /\ x.geo = s.geo
        BY <2>1, <2>5 DEF NewestOf
      <3>2. PICK y \in LatestTrack(b) : b \in ActivePlans /\ y.geo = t.geo
        BY <2>1, <2>5 DEF NewestOf
      <3>3. Newest(a, x) /\ Newest(b, y)
        BY <1>1, <2>1
      <3>4. x \in tracks[a] /\ y \in tracks[b]
        BY <3>3 DEF Newest
      <3> QED
        BY <2>5, <3>1, <3>2, <3>3, <3>4
    <2>6. ASSUME a \in ActivePlans, b \in ActivePlans,
                 NEW x \in tracks[a], NEW y \in tracks[b],
                 Newest(a, x), Newest(b, y), <<x.geo, y.geo>> \in LossPairs
          PROVE  \E s, t \in NewestOf(ActivePlans) :
                   s.plan = a /\ t.plan = b /\ <<s.geo, t.geo>> \in LossPairs
      <3>1. x \in LatestTrack(a) /\ y \in LatestTrack(b)
        BY <1>1, <2>1, <2>6
      <3>2. Seen(a, x.geo) \in NewestOf(ActivePlans) /\ Seen(b, y.geo) \in NewestOf(ActivePlans)
        BY <2>1, <2>2, <2>6, <3>1
      <3> QED
        BY <2>6, <3>2
    <2> QED
      BY <2>1, <2>4, <2>5, <2>6
  <1> QED
    BY <1>3 DEF Detect, TrueConflicts, InConflict

\* Served one at a time, a report or a rebuild answered 2xx leaves exactly the
\* true conflicts in the table: what it listed and read is still so when it
\* replaces them (refresh).
THEOREM RefreshIsExact ==
  ASSUME Alone, ~Faults
  PROVE  Spec => RefreshExact
  <1>1. ASSUME TypeInv, ViewInv, [Next]_vars, NEW w \in Handler,
               req[w].pc = "refresh_replace", req'[w].resp = "ok", ~UNCHANGED vars
        PROVE  conflicts' = TrueConflicts
    <2>1. ~Restart
      BY <1>1 DEF Restart, Idle
    <2>2. StepOf(w)
      BY <1>1, <2>1, NextStep DEF Alone
    <2>3. Replaces(req[w], req'[w])
      BY <1>1, <2>2
      DEF StepOf, Reads, Writes, Refuses, BeginsFile, BeginsMove, BeginsReport,
          BeginsInitiate, BeginsAccept, BeginsReconcile, Begins, ChecksType, ChecksOrder,
          ChecksPending, ReadsFlight, ListsActive, ReadsTrack, Registers, PutsFiled,
          PutsMoved, PutsControl, Logs, AddsTrack, MakesOffer, Completes, Cancels, Passes
    <2>4. req[w].seen = NewestOf(ActivePlans)
      <3>1. /\ req[w].todo = {}
            /\ req[w].seen = NewestOf(ActivePlans \ req[w].todo)
        BY <1>1 DEF ViewInv, View
      <3>2. ActivePlans \ {} = ActivePlans
        OBVIOUS
      <3> QED
        BY <3>1, <3>2
    <2> QED
      BY <1>1, <2>3, <2>4, DetectsTrueConflicts DEF Replaces
  <1>2. TypeInv /\ ViewInv /\ [Next]_vars =>
          [\A w \in Handler : At(w, "refresh_replace") /\ req'[w].resp = "ok" =>
             conflicts' = TrueConflicts]_vars
    BY <1>1 DEF At
  <1> QED
    BY <1>2, Typed, ViewInvariant, PTL DEF Spec, RefreshExact

-----------------------------------------------------------------------------
(* The protocol of the handoffs.                                           *)

\* What a request knows of the handoff it names is what is stored: an Accept
\* and a Reconcile will settle a pending one, an Initiate has found none.
OfferCopy(r) ==
  /\ r.pc \in Accepting =>
       /\ PendingHandoff(r.hid)
       /\ r.hand = Accept(handoffs[r.hid]) /\ r.plan = handoffs[r.hid].plan
  /\ r.pc \in Initiating => r.hand.state = "INITIATED"
  /\ r.pc = "initiate_put" => ~HandoffPending(r.plan)
  /\ \A e \in r.hs : PendingHandoff(e.id) /\ e.row = CancelUnaccepted(handoffs[e.id])

OfferInv == \A w \in Handler : OfferCopy(req[w])

\* The only handler at work keeps its copy of the handoffs true.
LEMMA OfferCopyNext ==
  ASSUME ~Faults, TypeInv, NEW w \in Handler, OfferCopy(req[w]), StepOf(w)
  PROVE  OfferCopy(req[w])'
  <1> DEFINE o == req[w]
             r == req'[w]
  <1>o. o \in Request
    BY NextType
  <1> USE DEF PendingHandoff, Offered, HandoffPending, Accepting, Initiating
  <1>1. CASE Ends(r)
    BY <1>1 DEF Ends, OfferCopy
  <1>2. CASE BeginsFile(o, r) \/ BeginsMove(o, r) \/ BeginsReport(o, r)
    BY <1>2 DEF BeginsFile, BeginsMove, BeginsReport, OfferCopy
  <1>3. CASE BeginsInitiate(o, r)
    BY <1>3 DEF BeginsInitiate, OfferCopy
  <1>4. CASE BeginsAccept(o, r)
    BY <1>4 DEF BeginsAccept, Begins, tables, CanAccept, OfferCopy
  <1>5. CASE BeginsReconcile(o, r)
    <2>1. handoffs' = handoffs /\ r.pc \notin Accepting \cup Initiating
      BY <1>5 DEF BeginsReconcile, Begins, tables, AfterCancel
    <2>2. \A e \in Unsettled :
            PendingHandoff(e.id) /\ e.row = CancelUnaccepted(handoffs[e.id])
      BY DEF Unsettled, Unaccepted
    <2> QED
      BY <1>5, <2>1, <2>2 DEF BeginsReconcile, OfferCopy
  <1>6. CASE ChecksType(o, r) \/ ChecksOrder(o, r) \/ ChecksPending(o, r)
    BY <1>6 DEF ChecksType, ChecksOrder, ChecksPending, Passes, Held, tables, OfferCopy
  <1>7. CASE ReadsFlight(o, r)
    BY <1>7 DEF ReadsFlight, tables, OfferCopy
  <1>8. CASE PutsMoved(o, r) \/ PutsControl(o, r) \/ AddsTrack(o, r)
    BY <1>8
    DEF PutsMoved, PutsControl, PutsPlan, AddsTrack, Passes, Held, OfferCopy
  <1>9. CASE ListsActive(o, r) \/ ReadsTrack(o, r)
    BY <1>9 DEF ListsActive, ReadsTrack, tables, AfterRead, OfferCopy
  <1>10. CASE Cancels(o, r)
    <2>1. PICK e \in o.hs : /\ PutsHandoff(e.id, e.row) /\ r.hs = o.hs \ {e}
                            /\ r.pc = AfterCancel(o.hs \ {e})
      BY <1>10 DEF Cancels
    <2>2. r.pc \notin Accepting \cup Initiating
      BY <2>1 DEF AfterCancel
    <2>3. \A f \in o.hs : f = [id |-> f.id, row |-> CancelUnaccepted(handoffs[f.id])]
      BY <1>o DEF Request, OfferCopy
    <2>4. \A f \in r.hs : f.id # e.id
      BY <2>1, <2>3
    <2>5. \A f \in r.hs : handoffs'[f.id] = handoffs[f.id]
      BY <1>o, <2>1, <2>4 DEF PutsHandoff, Request, TypeInv, TypeOK, TablesOK
    <2> QED
      BY <2>1, <2>2, <2>5 DEF OfferCopy
  <1>11. CASE Reads(o, r)
    BY <1>1, <1>2, <1>3, <1>4, <1>5, <1>6, <1>7, <1>9, <1>11 DEF Reads, Refuses
  <1>12. CASE Writes(o, r)
    BY <1>1, <1>8, <1>10, <1>12
    DEF Writes, Registers, PutsFiled, Logs, Replaces, MakesOffer, Completes
  <1> QED
    BY <1>11, <1>12 DEF StepOf

\* The copy of the handoffs a handler works on is what is stored.
LEMMA OfferInvariant ==
  ASSUME Alone, ~Faults
  PROVE  Spec => []OfferInv
  <1>1. Init => OfferInv
    BY DEF Init, Idle, OfferInv, OfferCopy, Accepting, Initiating
  <1>2. TypeInv /\ OfferInv /\ [Next]_vars => OfferInv'
    <2> SUFFICES ASSUME TypeInv, OfferInv, [Next]_vars
                 PROVE  OfferInv'
      OBVIOUS
    <2>1. CASE UNCHANGED vars
      BY <2>1 DEF vars, OfferInv, OfferCopy, PendingHandoff, Offered, HandoffPending
    <2>2. CASE Restart
      BY <2>2 DEF Restart, Idle, OfferInv, OfferCopy, Accepting, Initiating
    <2>3. ASSUME NEW w \in Handler, StepOf(w)
          PROVE  OfferInv'
      <3>1. OfferCopy(req[w])'
        BY <2>3, OfferCopyNext DEF OfferInv
      <3> QED
        BY <3>1 DEF Alone, OfferInv
    <2> QED
      BY <2>1, <2>2, <2>3, NextStep
  <1> QED
    BY <1>1, <1>2, Typed, PTL DEF Spec

\* A row of the handoffs as an offer, and what becomes of the offers when one
\* row is written.
OfferOf(row) == [plan |-> row.plan, to |-> row.to, state |-> row.state]

\* A handoff row is one offer of the protocol.
LEMMA OffersStep ==
  ASSUME TypeInv, NEW h \in HandoffId, NEW row \in HandoffRow, PutsHandoff(h, row)
  PROVE  Offers' = [Offers EXCEPT ![h] = OfferOf(row)] /\ Sectors' = Sectors
  <1>1. /\ handoffs'[h] = row /\ row # None
        /\ \A g \in HandoffId : g # h => handoffs'[g] = handoffs[g]
    BY NoneAssumption DEF PutsHandoff, TypeInv, TypeOK, TablesOK
  <1>2. Offers' = [Offers EXCEPT ![h] = OfferOf(row)]
    BY <1>1 DEF Offers, Offered, OfferOf
  <1>3. Sectors' = Sectors
    BY DEF PutsHandoff, Sectors, Filed
  <1> QED
    BY <1>2, <1>3

\* What the protocol sees of a stored handoff.
LEMMA OfferSeen ==
  ASSUME TypeInv, NEW h \in HandoffId
  PROVE  /\ Offered(h) => Offers[h] = OfferOf(handoffs[h]) /\ Offers[h] # None
         /\ ~Offered(h) => Offers[h] = None
         /\ Protocol!Pending(h) <=> PendingHandoff(h)
  <1>1. Offered(h) => Offers[h] = OfferOf(handoffs[h])
    BY DEF Offers, OfferOf
  <1>2. Offered(h) => OfferOf(handoffs[h]) \in [plan: PlanId, to: Sector, state: HandoffState]
    BY DEF Offered, OfferOf, TypeInv, TypeOK, TablesOK, HandoffRow
  <1>3. ~Offered(h) => Offers[h] = None
    BY DEF Offers
  <1>4. Offered(h) => Offers[h] # None
    BY <1>1, <1>2, OfferAssumption
  <1>5. Offered(h) => OfferOf(handoffs[h]).state = handoffs[h].state
    BY DEF OfferOf
  <1> QED
    BY <1>1, <1>3, <1>4, <1>5 DEF Protocol!Pending, PendingHandoff

\* Settling a pending handoff is settling its offer.
LEMMA SettleStep ==
  ASSUME TypeInv, NEW h \in HandoffId, PendingHandoff(h), NEW s \in HandoffState,
         PutsHandoff(h, [handoffs[h] EXCEPT !.state = s])
  PROVE  Protocol!Settle(h, s) /\ Sectors' = Sectors /\ Protocol!Pending(h)
  <1> DEFINE row == [handoffs[h] EXCEPT !.state = s]
  <1>1. handoffs[h] \in HandoffRow
    BY DEF PendingHandoff, Offered, TypeInv, TypeOK, TablesOK
  <1>2. row \in HandoffRow /\ OfferOf(row) = [OfferOf(handoffs[h]) EXCEPT !.state = s]
    BY <1>1 DEF HandoffRow, OfferOf
  <1> HIDE DEF row
  <1>3. Offers' = [Offers EXCEPT ![h] = OfferOf(row)] /\ Sectors' = Sectors
    BY <1>2, OffersStep DEF row
  <1>4. Offers[h] = OfferOf(handoffs[h]) /\ Protocol!Pending(h)
    BY OfferSeen DEF PendingHandoff
  <1> QED
    BY <1>2, <1>3, <1>4 DEF Protocol!Settle

\* One written plan changes the sector of one flight.
LEMMA SectorsStep ==
  ASSUME TypeInv, NEW p \in PlanId, NEW row \in PlanRow, plans' = [plans EXCEPT ![p] = row],
         handoffs' = handoffs
  PROVE  Sectors' = [Sectors EXCEPT ![p] = row.sector] /\ Offers' = Offers
  <1>1. /\ plans'[p] = row /\ row # None
        /\ \A q \in PlanId : q # p => plans'[q] = plans[q]
    BY NoneAssumption DEF TypeInv, TypeOK, TablesOK
  <1>2. Sectors' = [Sectors EXCEPT ![p] = row.sector]
    <2> DEFINE sectorOf(r) == IF r # None THEN r.sector ELSE None
    <2>1. /\ Sectors = [q \in PlanId |-> sectorOf(plans[q])]
          /\ Sectors' = [q \in PlanId |-> sectorOf(plans'[q])]
      BY DEF Sectors, Filed
    <2>2. sectorOf(plans'[p]) = row.sector
      BY <1>1
    <2> HIDE DEF sectorOf
    <2> QED
      BY <1>1, <2>1, <2>2
  <1>3. Offers' = Offers
    BY DEF Offers, Offered
  <1> QED
    BY <1>2, <1>3

\* An offer of a flight that has none pending.
LEMMA OfferStep ==
  ASSUME TypeInv, FlightInv, HandoffInv, OfferInv, NEW w \in Handler,
         MakesOffer(req[w], req'[w])
  PROVE  Protocol!Offer(req[w].hid)
  <1> DEFINE o == req[w]
             p == o.hand.plan
             s == o.hand.to
  <1>1. /\ o.hid \in HandoffId /\ o.hand \in HandoffRow /\ p = o.plan
        /\ ~Offered(o.hid) /\ o.hand.state = "INITIATED"
        /\ Filed(p) /\ ~HandoffPending(p)
    BY NextType
    DEF MakesOffer, Holding, HoldsHandoff, HandoffInv, Fresh, FlightInv, FlightCopy,
        OfferInv, OfferCopy, Initiating, Offered
  <1>2. p \in PlanId /\ s \in Sector /\ OfferOf(o.hand) = [plan |-> p, to |-> s,
                                                          state |-> "INITIATED"]
    BY <1>1 DEF HandoffRow, OfferOf
  <1>3. Offers' = [Offers EXCEPT ![o.hid] = OfferOf(o.hand)] /\ Sectors' = Sectors
    BY <1>1, OffersStep DEF MakesOffer
  <1>4. Sectors[p] # None
    <2>1. plans[p].sector \in Sector /\ Sectors[p] = plans[p].sector
      BY <1>1, <1>2 DEF Sectors, Filed, TypeInv, TypeOK, TablesOK, PlanRow
    <2> QED
      BY <2>1, OfferAssumption
  <1>5. ASSUME NEW g \in HandoffId, Protocol!Pending(g), Offers[g].plan = p
        PROVE  FALSE
    <2>1. PendingHandoff(g) /\ Offers[g] = OfferOf(handoffs[g])
      BY <1>5, OfferSeen DEF PendingHandoff
    <2>2. handoffs[g].plan = p
      BY <1>5, <2>1 DEF OfferOf
    <2> QED
      BY <1>1, <2>1, <2>2 DEF HandoffPending, PendingHandoff, Offered
  <1>6. Offers[o.hid] = None
    BY <1>1, OfferSeen
  <1> HIDE DEF o
  <1> QED
    BY <1>2, <1>3, <1>4, <1>5, <1>6 DEF Protocol!Offer, o

\* Control passes to the sector of the offer.
LEMMA TransferStep ==
  ASSUME TypeInv, FlightInv, OfferInv, NEW w \in Handler, PutsControl(req[w], req'[w])
  PROVE  req[w].hid \in HandoffId /\ Protocol!Transfer(req[w].hid)
  <1> DEFINE o == req[w]
             h == o.hid
  <1>1. /\ h \in HandoffId /\ PendingHandoff(h) /\ o.hand = Accept(handoffs[h])
        /\ o.plan = handoffs[h].plan /\ o.plan \in PlanId
        /\ Filed(o.plan) /\ o.row = TakeControl(plans[o.plan], o.hand) /\ o.row \in PlanRow
    BY NextType
    DEF PutsControl, Passes, Holding, HoldsHandoff, HoldsPlan, HoldsRow, FlightInv,
        FlightCopy, OfferInv, OfferCopy, Accepting
  <1>2. handoffs[h] \in HandoffRow /\ plans[o.plan] \in PlanRow
    BY <1>1 DEF PendingHandoff, Offered, Filed, TypeInv, TypeOK, TablesOK
  <1>3. o.row.sector = handoffs[h].to
    BY <1>1, <1>2 DEF TakeControl, Accept, PlanRow, HandoffRow
  <1>4. Sectors' = [Sectors EXCEPT ![o.plan] = o.row.sector] /\ Offers' = Offers
    BY <1>1, SectorsStep DEF PutsControl, PutsPlan
  <1>5. Offers[h] = OfferOf(handoffs[h]) /\ Protocol!Pending(h)
    BY <1>1, OfferSeen DEF PendingHandoff
  <1> QED
    BY <1>1, <1>3, <1>4, <1>5 DEF Protocol!Transfer, OfferOf

\* A handoff completes when its sector has control.
LEMMA CompleteStep ==
  ASSUME TypeInv, FlightInv, OfferInv, NEW w \in Handler, Completes(req[w], req'[w])
  PROVE  req[w].hid \in HandoffId /\ Protocol!Complete(req[w].hid)
  <1> DEFINE o == req[w]
             h == o.hid
  <1>1. /\ h \in HandoffId /\ PendingHandoff(h) /\ o.hand = Accept(handoffs[h])
        /\ o.plan = handoffs[h].plan /\ o.plan \in PlanId
        /\ Filed(o.plan) /\ plans[o.plan].sector = o.hand.to
    BY NextType
    DEF Completes, Holding, HoldsHandoff, HoldsPlan, FlightInv, FlightCopy, OfferInv,
        OfferCopy, Accepting
  <1>2. Protocol!Settle(h, "COMPLETED") /\ Sectors' = Sectors /\ Protocol!Pending(h)
    BY <1>1, SettleStep DEF Completes, Accept, HandoffState
  <1>3. handoffs[h] \in HandoffRow
    BY <1>1 DEF PendingHandoff, Offered, TypeInv, TypeOK, TablesOK
  <1>4. o.hand.to = handoffs[h].to
    BY <1>1, <1>3 DEF Accept, HandoffRow
  <1>5. Offers[h] = OfferOf(handoffs[h])
    BY <1>1, OfferSeen DEF PendingHandoff
  <1>6. Sectors[o.plan] = plans[o.plan].sector
    BY <1>1 DEF Sectors
  <1> QED
    BY <1>1, <1>2, <1>4, <1>5, <1>6 DEF Protocol!Complete, OfferOf

\* A handoff that Reconcile cancels was pending.
LEMMA CancelStep ==
  ASSUME TypeInv, OfferInv, NEW w \in Handler, Cancels(req[w], req'[w])
  PROVE  \E h \in HandoffId : Protocol!Cancel(h)
  <1>1. PICK e \in req[w].hs : PutsHandoff(e.id, e.row)
    BY DEF Cancels
  <1>2. /\ e.id \in HandoffId /\ PendingHandoff(e.id)
        /\ e.row = CancelUnaccepted(handoffs[e.id])
    BY NextType DEF Request, OfferInv, OfferCopy
  <1>3. Protocol!Settle(e.id, "CANCELLED") /\ Sectors' = Sectors /\ Protocol!Pending(e.id)
    BY <1>1, <1>2, SettleStep DEF CancelUnaccepted, HandoffState
  <1> QED
    BY <1>2, <1>3 DEF Protocol!Cancel

\* Each step of a handler is a step of the protocol or changes no offer.
LEMMA ProtocolStep ==
  ASSUME ~ExplicitIds, TypeInv, FlightInv, HandoffInv, OfferInv, NEW w \in Handler,
         StepOf(w)
  PROVE  [Protocol!Next]_<<Sectors, Offers>>
  <1> DEFINE o == req[w]
             r == req'[w]
  <1>1. CASE handoffs' = handoffs /\ plans' = plans
    BY <1>1 DEF Sectors, Offers, Filed, Offered
  <1>2. CASE PutsFiled(o, r) \/ PutsMoved(o, r) \/ PutsControl(o, r)
    <2>1. handoffs' = handoffs
      BY <1>2 DEF PutsFiled, PutsMoved, PutsControl, PutsPlan
    <2>2. CASE PutsControl(o, r)
      BY <2>2, TransferStep DEF Protocol!Next
    <2>3. ASSUME NEW p \in PlanId, NEW row \in PlanRow, plans' = [plans EXCEPT ![p] = row],
                 plans[p] = None
          PROVE  Protocol!Next
      <3>1. Sectors[p] = None /\ row.sector \in Sector
        BY <2>3 DEF Sectors, Filed, PlanRow
      <3>2. Sectors' = [Sectors EXCEPT ![p] = row.sector] /\ Offers' = Offers
        BY <2>1, <2>3, SectorsStep
      <3> QED
        BY <3>1, <3>2 DEF Protocol!Next, Protocol!File
    <2>4. ASSUME NEW p \in PlanId, NEW row \in PlanRow, plans' = [plans EXCEPT ![p] = row],
                 Filed(p), row.sector = plans[p].sector
          PROVE  UNCHANGED <<Sectors, Offers>>
      <3>1. Sectors[p] = row.sector /\ Sectors = [q \in PlanId |-> Sectors[q]]
        BY <2>4 DEF Sectors
      <3>2. Sectors' = [Sectors EXCEPT ![p] = row.sector] /\ Offers' = Offers
        BY <2>1, <2>4, SectorsStep
      <3> HIDE DEF Sectors
      <3> QED
        BY <3>1, <3>2
    <2>5. CASE plans' = plans
      BY <1>1, <2>1, <2>5
    <2> QED
      BY <2>2, <2>3, <2>4, <2>5, FlightStep
  <1>3. CASE MakesOffer(o, r)
    BY <1>3, OfferStep, NextType
    DEF Protocol!Next, MakesOffer, Holding, HoldsHandoff
  <1>4. CASE Completes(o, r)
    BY <1>4, CompleteStep DEF Protocol!Next
  <1>5. CASE Cancels(o, r)
    BY <1>5, CancelStep DEF Protocol!Next
  <1>6. CASE /\ ~PutsFiled(o, r) /\ ~PutsMoved(o, r) /\ ~PutsControl(o, r)
             /\ ~HandoffWrites(o, r)
    BY <1>1, <1>6, ReadsKeep
    DEF StepOf, tables, Writes, HandoffWrites, Registers, Logs, AddsTrack, Replaces
  <1> QED
    BY <1>2, <1>3, <1>4, <1>5, <1>6 DEF HandoffWrites

\* Served one at a time, the service implements the protocol of HandoffProtocol:
\* one controlling sector and at most one pending offer per flight, control that
\* moves only to the sector of a pending offer, and a handoff that completes only
\* when that sector has control, even when the process stops between the two
\* writes of AcceptHandoff.
THEOREM ProtocolFollowed ==
  ASSUME Alone, ~Faults, ~ExplicitIds
  PROVE  Spec => FollowsProtocol
  <1>1. Init /\ TypeInv => Protocol!Init
    <2> SUFFICES ASSUME Init, TypeInv
                 PROVE  Protocol!Init
      OBVIOUS
    <2>1. Offers = [h \in HandoffId |-> None]
      BY DEF Init, Offers, Offered
    <2>2. Sectors \in [PlanId -> Sector \cup {None}]
      BY DEF Sectors, Filed, TypeInv, TypeOK, TablesOK, PlanRow
    <2> QED
      BY <2>1, <2>2 DEF Protocol!Init
  <1>2. TypeInv /\ FlightInv /\ HandoffInv /\ OfferInv /\ [Next]_vars =>
          [Protocol!Next]_<<Sectors, Offers>>
    BY ProtocolStep, NextStep DEF vars, Restart, tables, Sectors, Offers, Filed, Offered
  <1> QED
    BY <1>1, <1>2, FlightInvariant, HandoffInvariant, OfferInvariant, PTL
    DEF Spec, FollowsProtocol, Protocol!Spec
=============================================================================
