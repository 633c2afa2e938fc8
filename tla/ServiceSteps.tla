---------------------------- MODULE ServiceSteps ----------------------------
(***************************************************************************)
(* What a step of the service can do, field by field: o is the request of  *)
(* the handler that takes the step before it, r the request after it.  The *)
(* proofs about the handoffs, the reports and the conflicts, and those for *)
(* one handler, look at these steps instead of the actions.                *)
(***************************************************************************)
EXTENDS ServiceProofs

-----------------------------------------------------------------------------
(* The steps.                                                              *)

Held(o, r) ==
  /\ r.plan = o.plan /\ r.row = o.row /\ r.hid = o.hid
  /\ r.hand = o.hand /\ r.track = o.track /\ r.resp = o.resp

Ends(r) ==
  /\ r.pc = "idle" /\ ~r.wrote /\ r.hid = None
  /\ r.hs = {} /\ r.todo = {} /\ r.seen = {}

Begins(o, r) ==
  /\ o.pc = "idle" /\ r.resp = "none" /\ ~r.wrote
  /\ r.todo = {} /\ r.seen = {}
  /\ UNCHANGED tables

\* Labels of the statements that answer 404 or 422.
Refusing == {"idle", "file_type", "report_latest", "initiate_list", "accept_flight"}

Refuses(o, r) ==
  /\ Ends(r)
  /\ r.resp \in {"notfound", "rejected"} => o.pc \in Refusing
  /\ o.pc = "refresh_replace" => r.resp = "failed"
  /\ UNCHANGED tables

Registers(o, r) ==
  /\ Ends(r) /\ o.pc = "idle" /\ r.resp = "ok"
  /\ AircraftStep
  /\ UNCHANGED <<plans, tracks, handoffs, conflicts, events>>

BeginsFile(o, r) ==
  /\ Begins(o, r) /\ r.pc = "file_type" /\ r.hs = {} /\ r.hid = None
  /\ r.plan \in FilingIds /\ r.row \in Filings

BeginsMove(o, r) ==
  /\ Begins(o, r) /\ r.pc = "move_put" /\ r.hs = {} /\ r.hid = None
  /\ r.plan \in PlanId /\ plans[r.plan] # None
  /\ \E to \in Targets : /\ CanTransition(plans[r.plan].state, to)
                         /\ r.row = Transition(plans[r.plan], to)

BeginsReport(o, r) ==
  /\ Begins(o, r) /\ r.pc = "report_latest" /\ r.hs = {} /\ r.hid = None
  /\ r.plan \in PlanId /\ plans[r.plan] # None /\ Airborne(plans[r.plan])
  /\ r.track \in Track

BeginsInitiate(o, r) ==
  /\ Begins(o, r) /\ r.pc = "initiate_list" /\ r.hs = {}
  /\ r.plan \in PlanId /\ plans[r.plan] # None
  /\ r.hid \in FreshHandoffIds
  /\ r.hand.plan = r.plan /\ r.hand.state = "INITIATED"

BeginsAccept(o, r) ==
  /\ Begins(o, r) /\ r.pc = "accept_flight" /\ r.hs = {}
  /\ r.hid \in HandoffId /\ handoffs[r.hid] # None /\ CanAccept(handoffs[r.hid])
  /\ r.hand = Accept(handoffs[r.hid]) /\ r.plan = handoffs[r.hid].plan

BeginsReconcile(o, r) ==
  /\ Begins(o, r) /\ r.pc = AfterCancel(Unsettled) /\ r.hs = Unsettled
  /\ r.hid = None

\* From one statement to the next one, with everything it holds.
Passes(o, r, from, to) ==
  /\ o.pc = from /\ r.pc = to
  /\ Held(o, r) /\ r.hs = o.hs /\ r.todo = o.todo /\ r.seen = o.seen

ChecksType(o, r) ==
  /\ Passes(o, r, "file_type", "file_put") /\ r.wrote = o.wrote
  /\ UNCHANGED tables

ChecksOrder(o, r) ==
  /\ Passes(o, r, "report_latest", "report_add") /\ r.wrote = o.wrote
  /\ ~Faults => ~OutOfOrder(o.plan, o.track)
  /\ UNCHANGED tables

ChecksPending(o, r) ==
  /\ Passes(o, r, "initiate_list", "initiate_put") /\ r.wrote = o.wrote
  /\ ~Faults => ~HandoffPending(o.plan)
  /\ UNCHANGED tables

ReadsFlight(o, r) ==
  /\ o.pc = "accept_flight" /\ r.pc = "accept_putflight" /\ r.wrote = o.wrote
  /\ plans[o.plan] # None /\ r.row = TakeControl(plans[o.plan], o.hand)
  /\ r.plan = o.plan /\ r.hid = o.hid /\ r.hand = o.hand /\ r.track = o.track
  /\ r.resp = o.resp /\ r.hs = o.hs /\ r.todo = o.todo /\ r.seen = o.seen
  /\ UNCHANGED tables

PutsPlan(o) ==
  /\ CallsignFree(o.plan, o.row.callsign)
  /\ plans' = [plans EXCEPT ![o.plan] = o.row]
  /\ UNCHANGED <<aircraft, tracks, handoffs, conflicts, events>>

PutsFiled(o, r) == o.pc = "file_put" /\ PutsPlan(o) /\ Ends(r) /\ r.resp = "ok"

PutsMoved(o, r) ==
  Passes(o, r, "move_put", "move_event") /\ r.wrote /\ PutsPlan(o)

PutsControl(o, r) ==
  Passes(o, r, "accept_putflight", "accept_puthandoff") /\ r.wrote /\ PutsPlan(o)

Logs(o, r) ==
  /\ o.pc = "move_event" /\ Ends(r) /\ r.resp = "ok"
  /\ events' = events \cup {[plan |-> o.plan, kind |-> o.row.state]}
  /\ UNCHANGED <<aircraft, plans, tracks, handoffs, conflicts>>

AddsTrack(o, r) ==
  /\ Passes(o, r, "report_add", "refresh_flights") /\ r.wrote
  /\ TrackFree(o.plan, o.track)
  /\ tracks' = [tracks EXCEPT ![o.plan] = tracks[o.plan] \cup {o.track}]
  /\ UNCHANGED <<aircraft, plans, handoffs, conflicts, events>>

PutsHandoff(h, row) ==
  /\ handoffs' = [handoffs EXCEPT ![h] = row]
  /\ UNCHANGED <<aircraft, plans, tracks, conflicts, events>>

MakesOffer(o, r) ==
  /\ o.pc = "initiate_put" /\ Ends(r) /\ r.resp = "ok"
  /\ PutsHandoff(o.hid, o.hand)

Completes(o, r) ==
  /\ o.pc = "accept_puthandoff" /\ Ends(r) /\ r.resp = "ok"
  /\ PutsHandoff(o.hid, o.hand)

Cancels(o, r) ==
  /\ o.pc = "reconcile_put" /\ Held(o, r) /\ r.wrote
  /\ r.todo = o.todo /\ r.seen = o.seen
  /\ \E e \in o.hs : /\ PutsHandoff(e.id, e.row)
                     /\ r.hs = o.hs \ {e}
                     /\ r.pc = AfterCancel(o.hs \ {e})

ListsActive(o, r) ==
  /\ o.pc = "refresh_flights" /\ r.pc = AfterRead(ActivePlans)
  /\ r.todo = ActivePlans /\ r.seen = o.seen /\ r.hs = o.hs
  /\ Held(o, r) /\ r.wrote = o.wrote
  /\ UNCHANGED tables

ReadsTrack(o, r) ==
  /\ o.pc = "refresh_track" /\ Held(o, r) /\ r.wrote = o.wrote /\ r.hs = o.hs
  /\ \E p \in o.todo :
       /\ r.pc = AfterRead(o.todo \ {p}) /\ r.todo = o.todo \ {p}
       /\ \/ r.seen = o.seen \cup {[plan |-> p, geo |-> t.geo] : t \in LatestTrack(p)}
          \/ Faults /\ r.seen = o.seen
  /\ UNCHANGED tables

Replaces(o, r) ==
  /\ o.pc = "refresh_replace" /\ Ends(r) /\ r.resp = "ok"
  /\ conflicts' = Detect(o.seen)
  /\ UNCHANGED <<aircraft, plans, tracks, handoffs, events>>

\* Steps that leave the tables alone.
Reads(o, r) ==
  \/ Refuses(o, r)
  \/ BeginsFile(o, r) \/ BeginsMove(o, r) \/ BeginsReport(o, r)
  \/ BeginsInitiate(o, r) \/ BeginsAccept(o, r) \/ BeginsReconcile(o, r)
  \/ ChecksType(o, r) \/ ChecksOrder(o, r) \/ ChecksPending(o, r)
  \/ ReadsFlight(o, r) \/ ListsActive(o, r) \/ ReadsTrack(o, r)

\* Steps that change one table.
Writes(o, r) ==
  \/ Registers(o, r)
  \/ PutsFiled(o, r) \/ PutsMoved(o, r) \/ PutsControl(o, r)
  \/ Logs(o, r) \/ AddsTrack(o, r) \/ Replaces(o, r)
  \/ MakesOffer(o, r) \/ Completes(o, r) \/ Cancels(o, r)

StepOf(w) ==
  /\ \A v \in Handler \ {w} : req'[v] = req[v]
  /\ boot' = boot
  /\ Reads(req[w], req'[w]) \/ Writes(req[w], req'[w])

-----------------------------------------------------------------------------
(* Every step of the service is one of them.                               *)

USE DEF At

\* A step of a handler leaves the requests of the others alone.
LEMMA OthersKept ==
  ASSUME TypeInv, NEW w \in Handler, NEW r, req' = [req EXCEPT ![w] = r]
  PROVE  req'[w] = r /\ \A v \in Handler \ {w} : req'[v] = req[v]
  BY DEF TypeInv, TypeOK

\* An answer ends the request.
LEMMA AnswerEnds ==
  ASSUME TypeInv, NEW w \in Handler, NEW s, Answer(w, s)
  PROVE  /\ Ends(req'[w]) /\ req'[w].resp = s
         /\ \A v \in Handler \ {w} : req'[v] = req[v]
  <1> DEFINE r == [Idle EXCEPT !.resp = s]
  <1>1. Ends(r) /\ r.resp = s
    BY DEF Ends, Idle
  <1>2. req' = [req EXCEPT ![w] = r]
    BY DEF Answer
  <1> HIDE DEF r
  <1> QED
    BY <1>1, <1>2, OthersKept

\* A handler that answers without a write.
LEMMA RefusesStep ==
  ASSUME TypeInv, NEW w \in Handler, NEW s, Answer(w, s), UNCHANGED <<tables, boot>>,
         s \in {"notfound", "rejected"} => req[w].pc \in Refusing,
         req[w].pc = "refresh_replace" => s = "failed"
  PROVE  StepOf(w)
  BY AnswerEnds DEF StepOf, Reads, Refuses

\* A request that arrives is a step by its fields.
LEMMA ArriveStep ==
  ASSUME TypeInv, NEW w \in Handler, Arrive(w)
  PROVE  StepOf(w)
  <1> USE DEF Takes
  <1>1. CASE Malformed(w)
    BY <1>1, RefusesStep DEF Malformed
  <1>2. CASE RegisterAircraft(w)
    <2>1. AircraftStep
      BY <1>2 DEF RegisterAircraft, PutAircraft, AircraftStep, RegistrationIds
    <2> QED
      BY <1>2, <2>1, AnswerEnds DEF RegisterAircraft, StepOf, Writes, Registers
  <1>3. ASSUME NEW p \in FilingIds, NEW row \in Filings, FileRequest(w, p, row),
               Takes(w, "File"), UNCHANGED <<tables, boot>>
        PROVE  StepOf(w)
    <2> DEFINE r == [Idle EXCEPT !.pc = "file_type", !.plan = p, !.row = row]
    <2>1. BeginsFile(req[w], r)
      BY <1>3 DEF BeginsFile, Begins, Idle
    <2>2. req' = [req EXCEPT ![w] = r]
      BY <1>3 DEF FileRequest, Begin
    <2> HIDE DEF r
    <2> QED
      BY <1>3, <2>1, <2>2, OthersKept DEF StepOf, Reads
  <1>4. CASE File(w)
    BY <1>3, <1>4, RefusesStep DEF File, Refusing
  <1>5. CASE Move(w)
    <2>1. ASSUME NEW p \in PlanId, NEW to \in Targets, plans[p] # None,
                 CanTransition(plans[p].state, to),
                 Begin(w, [Idle EXCEPT !.pc = "move_put", !.plan = p,
                                       !.row = Transition(plans[p], to)])
          PROVE  StepOf(w)
      <3> DEFINE r == [Idle EXCEPT !.pc = "move_put", !.plan = p,
                                   !.row = Transition(plans[p], to)]
      <3>1. BeginsMove(req[w], r)
        BY <1>5, <2>1 DEF BeginsMove, Begins, Idle, Move
      <3>2. req' = [req EXCEPT ![w] = r]
        BY <2>1 DEF Begin
      <3> HIDE DEF r
      <3> QED
        BY <1>5, <3>1, <3>2, OthersKept DEF StepOf, Reads, Move
    <2> QED
      BY <1>5, <2>1, RefusesStep DEF Move, Refusing
  <1>6. CASE Report(w)
    <2>1. ASSUME NEW p \in PlanId, NEW t \in Track, plans[p] # None, Airborne(plans[p]),
                 Begin(w, [Idle EXCEPT !.pc = "report_latest", !.plan = p, !.track = t])
          PROVE  StepOf(w)
      <3> DEFINE r == [Idle EXCEPT !.pc = "report_latest", !.plan = p, !.track = t]
      <3>1. BeginsReport(req[w], r)
        BY <1>6, <2>1 DEF BeginsReport, Begins, Idle, Report
      <3>2. req' = [req EXCEPT ![w] = r]
        BY <2>1 DEF Begin
      <3> HIDE DEF r
      <3> QED
        BY <1>6, <3>1, <3>2, OthersKept DEF StepOf, Reads, Report
    <2> QED
      BY <1>6, <2>1, RefusesStep DEF Report, Refusing
  <1>7. CASE InitiateHandoff(w)
    <2>1. ASSUME NEW p \in PlanId, NEW from \in Sector, NEW to \in Sector,
                 NEW h \in FreshHandoffIds, plans[p] # None,
                 Begin(w, [Idle EXCEPT !.pc = "initiate_list", !.plan = p, !.hid = h,
                             !.hand = [plan |-> p, from |-> from, to |-> to,
                                       state |-> "INITIATED"]])
          PROVE  StepOf(w)
      <3> DEFINE hand == [plan |-> p, from |-> from, to |-> to, state |-> "INITIATED"]
                 r == [Idle EXCEPT !.pc = "initiate_list", !.plan = p, !.hid = h,
                                   !.hand = hand]
      <3>1. BeginsInitiate(req[w], r)
        BY <1>7, <2>1 DEF BeginsInitiate, Begins, Idle, InitiateHandoff
      <3>2. req' = [req EXCEPT ![w] = r]
        BY <2>1 DEF Begin
      <3> HIDE DEF r
      <3> QED
        BY <1>7, <3>1, <3>2, OthersKept DEF StepOf, Reads, InitiateHandoff
    <2> QED
      BY <1>7, <2>1, RefusesStep DEF InitiateHandoff, Refusing
  <1>8. CASE AcceptHandoff(w)
    <2>1. ASSUME NEW h \in HandoffId, handoffs[h] # None, CanAccept(handoffs[h]),
                 Begin(w, [Idle EXCEPT !.pc = "accept_flight", !.hid = h,
                             !.plan = handoffs[h].plan, !.hand = Accept(handoffs[h])])
          PROVE  StepOf(w)
      <3> DEFINE r == [Idle EXCEPT !.pc = "accept_flight", !.hid = h,
                         !.plan = handoffs[h].plan, !.hand = Accept(handoffs[h])]
      <3>1. BeginsAccept(req[w], r)
        BY <1>8, <2>1 DEF BeginsAccept, Begins, Idle, AcceptHandoff
      <3>2. req' = [req EXCEPT ![w] = r]
        BY <2>1 DEF Begin
      <3> HIDE DEF r
      <3> QED
        BY <1>8, <3>1, <3>2, OthersKept DEF StepOf, Reads, AcceptHandoff
    <2> QED
      BY <1>8, <2>1, RefusesStep DEF AcceptHandoff, Refusing
  <1>9. CASE Reconcile(w)
    <2> DEFINE r == [Idle EXCEPT !.pc = AfterCancel(Unsettled), !.hs = Unsettled]
    <2>1. BeginsReconcile(req[w], r)
      BY <1>9 DEF BeginsReconcile, Begins, Idle, Reconcile
    <2>2. req' = [req EXCEPT ![w] = r]
      BY <1>9 DEF Reconcile, Begin
    <2> HIDE DEF r
    <2> QED
      BY <1>9, <2>1, <2>2, OthersKept DEF StepOf, Reads, Reconcile
  <1> QED
    BY <1>1, <1>2, <1>4, <1>5, <1>6, <1>7, <1>8, <1>9
    DEF Arrive, ArrivePlans, ArriveFlights, ArriveControl

\* A handler that passes to its next statement with what it holds.
LEMMA PassesFields ==
  ASSUME TypeInv, NEW w \in Handler, NEW label, NEW b,
         req' = [req EXCEPT ![w].pc = label, ![w].wrote = b]
  PROVE  /\ Passes(req[w], req'[w], req[w].pc, label) /\ req'[w].wrote = b
         /\ \A v \in Handler \ {w} : req'[v] = req[v]
  <1> DEFINE r == [req[w] EXCEPT !.pc = label, !.wrote = b]
  <1>1. Passes(req[w], r, req[w].pc, label) /\ r.wrote = b
    BY NextType DEF Passes, Held, Request
  <1>2. req' = [req EXCEPT ![w] = r]
    OBVIOUS
  <1> HIDE DEF r
  <1> QED
    BY <1>1, <1>2, OthersKept

\* Moving to a label changes nothing else of the request.
LEMMA GotoFields ==
  ASSUME TypeInv, NEW w \in Handler, NEW label, req' = [req EXCEPT ![w].pc = label]
  PROVE  /\ Passes(req[w], req'[w], req[w].pc, label) /\ req'[w].wrote = req[w].wrote
         /\ \A v \in Handler \ {w} : req'[v] = req[v]
  <1> DEFINE r == [req[w] EXCEPT !.pc = label]
  <1>1. Passes(req[w], r, req[w].pc, label) /\ r.wrote = req[w].wrote
    BY NextType DEF Passes, Held, Request
  <1>2. req' = [req EXCEPT ![w] = r]
    OBVIOUS
  <1> HIDE DEF r
  <1> QED
    BY <1>1, <1>2, OthersKept

\* A handler that has read what refresh asks of one plan.
LEMMA ReadFields ==
  ASSUME TypeInv, NEW w \in Handler, NEW label, NEW rest, NEW new,
         req' = [req EXCEPT ![w].pc = label, ![w].todo = rest, ![w].seen = new]
  PROVE  /\ Held(req[w], req'[w]) /\ req'[w].pc = label /\ req'[w].hs = req[w].hs
         /\ req'[w].wrote = req[w].wrote /\ req'[w].todo = rest /\ req'[w].seen = new
         /\ \A v \in Handler \ {w} : req'[v] = req[v]
  <1> DEFINE r == [req[w] EXCEPT !.pc = label, !.todo = rest, !.seen = new]
  <1>1. /\ Held(req[w], r) /\ r.pc = label /\ r.hs = req[w].hs
        /\ r.wrote = req[w].wrote /\ r.todo = rest /\ r.seen = new
    BY NextType DEF Held, Request
  <1>2. req' = [req EXCEPT ![w] = r]
    OBVIOUS
  <1> HIDE DEF r
  <1> QED
    BY <1>1, <1>2, OthersKept

\* A handler that proceeds takes a step by its fields.
LEMMA ProceedStep ==
  ASSUME TypeInv, NEW w \in Handler, Proceed(w)
  PROVE  StepOf(w)
  <1> USE DEF Reads, Writes, Refusing
  <1>1. CASE FileAircraft(w)
    BY <1>1, RefusesStep, GotoFields DEF FileAircraft, StepOf, ChecksType
  <1>2. CASE FilePut(w)
    BY <1>2, RefusesStep, AnswerEnds
    DEF FilePut, PutFlight, tables, StepOf, PutsFiled, PutsPlan
  <1>3. CASE MovePut(w)
    BY <1>3, RefusesStep, PassesFields
    DEF MovePut, PutFlight, tables, StepOf, PutsMoved, PutsPlan
  <1>4. CASE MoveEvent(w)
    BY <1>4, AnswerEnds DEF MoveEvent, Event, StepOf, Logs
  <1>5. CASE ReportLatest(w)
    BY <1>5, RefusesStep, GotoFields DEF ReportLatest, StepOf, ChecksOrder
  <1>6. CASE ReportAdd(w)
    BY <1>6, RefusesStep, PassesFields
    DEF ReportAdd, AddTrack, tables, StepOf, AddsTrack
  <1>7. CASE RefreshFlights(w)
    <2> DEFINE r == [req[w] EXCEPT !.pc = AfterRead(ActivePlans), !.todo = ActivePlans]
    <2>1. ListsActive(req[w], r)
      BY <1>7, NextType DEF RefreshFlights, ListsActive, Held, Request
    <2>2. req' = [req EXCEPT ![w] = r]
      BY <1>7 DEF RefreshFlights
    <2> HIDE DEF r
    <2> QED
      BY <1>7, <2>1, <2>2, OthersKept DEF StepOf, RefreshFlights
  <1>8. CASE RefreshTrack(w)
    <2>1. PICK p \in req[w].todo :
            req' = [req EXCEPT
              ![w].pc = AfterRead(req[w].todo \ {p}),
              ![w].todo = req[w].todo \ {p},
              ![w].seen = req[w].seen \cup
                            {[plan |-> p, geo |-> t.geo] : t \in LatestTrack(p)}]
      BY <1>8 DEF RefreshTrack, NextPlan
    <2> DEFINE rest == req[w].todo \ {p}
               new == req[w].seen \cup {[plan |-> p, geo |-> t.geo] : t \in LatestTrack(p)}
               label == AfterRead(rest)
    <2>2. req' = [req EXCEPT ![w].pc = label, ![w].todo = rest, ![w].seen = new]
      BY <2>1
    <2> HIDE DEF rest, new, label
    <2>3. /\ Held(req[w], req'[w]) /\ req'[w].pc = label /\ req'[w].hs = req[w].hs
          /\ req'[w].wrote = req[w].wrote /\ req'[w].todo = rest /\ req'[w].seen = new
          /\ \A v \in Handler \ {w} : req'[v] = req[v]
      BY <2>2, ReadFields
    <2>4. ReadsTrack(req[w], req'[w])
      BY <1>8, <2>3 DEF RefreshTrack, ReadsTrack, rest, new, label
    <2> QED
      BY <1>8, <2>3, <2>4 DEF RefreshTrack, StepOf
  <1>9. CASE RefreshReplace(w)
    BY <1>9, AnswerEnds DEF RefreshReplace, ReplaceConflicts, StepOf, Replaces
  <1>10. CASE InitiateList(w)
    BY <1>10, RefusesStep, GotoFields DEF InitiateList, AfterList, StepOf, ChecksPending
  <1>11. CASE InitiatePut(w)
    BY <1>11, AnswerEnds DEF InitiatePut, PutHandoff, PutsHandoff, StepOf, MakesOffer
  <1>12. CASE AcceptFlight(w)
    <2> DEFINE new == TakeControl(plans[req[w].plan], req[w].hand)
               r == [req[w] EXCEPT !.pc = "accept_putflight", !.row = new]
    <2>1. CASE plans[req[w].plan] = None
      BY <1>12, <2>1, RefusesStep DEF AcceptFlight
    <2>2. CASE plans[req[w].plan] # None
      <3>1. ReadsFlight(req[w], r)
        BY <1>12, <2>2, NextType DEF AcceptFlight, ReadsFlight, Request
      <3>2. req' = [req EXCEPT ![w] = r]
        BY <1>12, <2>2 DEF AcceptFlight
      <3> HIDE DEF r
      <3> QED
        BY <1>12, <3>1, <3>2, OthersKept DEF StepOf, AcceptFlight
    <2> QED
      BY <2>1, <2>2
  <1>13. CASE AcceptPutFlight(w)
    BY <1>13, RefusesStep, PassesFields
    DEF AcceptPutFlight, PutFlight, tables, StepOf, PutsControl, PutsPlan
  <1>14. CASE AcceptPutHandoff(w)
    BY <1>14, AnswerEnds DEF AcceptPutHandoff, PutHandoff, PutsHandoff, StepOf, Completes
  <1>15. CASE ReconcilePut(w)
    <2>1. PICK e \in req[w].hs :
            /\ PutHandoff(e.id, e.row)
            /\ req' = [req EXCEPT ![w].pc = AfterCancel(req[w].hs \ {e}),
                                  ![w].hs = req[w].hs \ {e}, ![w].wrote = TRUE]
      BY <1>15 DEF ReconcilePut
    <2> DEFINE r == [req[w] EXCEPT !.pc = AfterCancel(req[w].hs \ {e}),
                                   !.hs = req[w].hs \ {e}, !.wrote = TRUE]
    <2>2. Cancels(req[w], r)
      BY <1>15, <2>1, NextType
      DEF ReconcilePut, PutHandoff, PutsHandoff, Cancels, Held, Request
    <2>3. req' = [req EXCEPT ![w] = r]
      BY <2>1
    <2> HIDE DEF r
    <2> QED
      BY <1>15, <2>2, <2>3, OthersKept DEF StepOf, ReconcilePut
  <1> QED
    BY <1>1, <1>2, <1>3, <1>4, <1>5, <1>6, <1>7, <1>8, <1>9, <1>10, <1>11,
       <1>12, <1>13, <1>14, <1>15 DEF Proceed

\* An error of the database is a step by its fields.
LEMMA FailureStep ==
  ASSUME TypeInv, NEW w \in Handler, DbError(w) \/ IgnoredError(w)
  PROVE  StepOf(w)
  <1> USE DEF Reads, Refusing
  <1>1. CASE DbError(w)
    BY <1>1, RefusesStep DEF DbError
  <1>2. ASSUME Takes(w, "File"), NEW p \in FilingIds, NEW row \in Filings,
               FileRequest(w, p, row), UNCHANGED <<tables, boot>>
        PROVE  StepOf(w)
    <2> DEFINE r == [Idle EXCEPT !.pc = "file_type", !.plan = p, !.row = row]
    <2>1. BeginsFile(req[w], r)
      BY <1>2 DEF Takes, BeginsFile, Begins, Idle
    <2>2. req' = [req EXCEPT ![w] = r]
      BY <1>2 DEF FileRequest, Begin
    <2> HIDE DEF r
    <2> QED
      BY <1>2, <2>1, <2>2, OthersKept DEF StepOf
  <1>3. CASE At(w, "move_event") /\ Answer(w, "ok") /\ UNCHANGED <<tables, boot>>
    BY <1>3, RefusesStep
  <1>4. CASE /\ Faults /\ At(w, "report_latest") /\ req' = [req EXCEPT ![w].pc = "report_add"]
             /\ UNCHANGED <<tables, boot>>
    BY <1>4, GotoFields DEF StepOf, ChecksOrder
  <1>5. ASSUME Faults, At(w, "refresh_track"), NEW p \in PlanId, NextPlan(w, p),
               req' = [req EXCEPT ![w].pc = AfterRead(req[w].todo \ {p}),
                                  ![w].todo = @ \ {p}],
               UNCHANGED <<tables, boot>>
        PROVE  StepOf(w)
    <2> DEFINE r == [req[w] EXCEPT !.pc = AfterRead(req[w].todo \ {p}),
                                   !.todo = req[w].todo \ {p}]
    <2>1. ReadsTrack(req[w], r)
      BY <1>5, NextType DEF NextPlan, ReadsTrack, Held, Request
    <2>2. req' = [req EXCEPT ![w] = r]
      BY <1>5
    <2> HIDE DEF r
    <2> QED
      BY <1>5, <2>1, <2>2, OthersKept DEF StepOf
  <1>6. CASE Faults /\ At(w, "initiate_list") /\ AfterList(w) /\ UNCHANGED <<tables, boot>>
    BY <1>6, RefusesStep, GotoFields DEF AfterList, StepOf, ChecksPending
  <1>7. CASE IgnoredError(w)
    BY <1>7, <1>2, <1>3, <1>4, <1>5, <1>6
    DEF IgnoredError, CallsignsUnread, EventDropped, LatestUnread, TrackSkipped,
        HandoffsUnread
  <1> QED
    BY <1>1, <1>7

\* What each step of the service does to the requests and to the tables.
LEMMA NextStep ==
  ASSUME TypeInv, [Next]_vars
  PROVE  UNCHANGED vars \/ Restart \/ \E w \in Handler : StepOf(w)
  BY ArriveStep, ProceedStep, FailureStep DEF Next
=============================================================================
