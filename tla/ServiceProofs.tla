---------------------------- MODULE ServiceProofs ---------------------------
(***************************************************************************)
(* Theorems about the service, for every value of the constants: any       *)
(* number of handlers, flights and handoffs, with or without failing       *)
(* statements and restarts.                                                *)
(***************************************************************************)
EXTENDS ServiceSafety, TLAPS

-----------------------------------------------------------------------------
(* Types.  TypeOK lets a handler hold None where the next statement needs  *)
(* a row; what it does hold depends on where it is.                        *)

HoldsPlan ==
  {"file_type", "file_put", "move_put", "move_event", "report_latest",
   "report_add", "initiate_list", "initiate_put", "accept_flight",
   "accept_putflight", "accept_puthandoff"}

HoldsRow == {"file_type", "file_put", "move_put", "move_event", "accept_putflight"}

HoldsTrack == {"report_latest", "report_add"}

HoldsHandoff ==
  {"initiate_list", "initiate_put", "accept_flight", "accept_putflight",
   "accept_puthandoff"}

Holding(r) ==
  /\ r.pc \in HoldsPlan => r.plan \in PlanId
  /\ r.pc \in HoldsRow => r.row \in PlanRow
  /\ r.pc \in HoldsTrack => r.track \in Track
  /\ r.pc \in HoldsHandoff => r.hid \in HandoffId /\ r.hand \in HandoffRow

TypeInv ==
  /\ TypeOK
  /\ \A w \in Handler : Holding(req[w])

\* A request that has been answered holds nothing.
LEMMA IdleType ==
  ASSUME NEW s \in Status
  PROVE  [Idle EXCEPT !.resp = s] \in Request /\ Holding([Idle EXCEPT !.resp = s])
  BY DEF Idle, Request, Label, Status, Holding, HoldsPlan, HoldsRow,
         HoldsTrack, HoldsHandoff

\* Tables start empty and handlers idle.
LEMMA InitType == Init => TypeInv
  <1>1. Init => TablesOK
    BY InitialAssumption DEF Init, TablesOK
  <1>2. Idle \in Request /\ Holding(Idle)
    BY DEF Idle, Request, Label, Status, Holding, HoldsPlan, HoldsRow,
           HoldsTrack, HoldsHandoff
  <1> QED
    BY <1>1, <1>2 DEF Init, TypeInv, TypeOK

\* A step that gives one handler a well-formed request keeps the types.
LEMMA RequestType ==
  ASSUME TypeInv, NEW w \in Handler, NEW r \in Request, Holding(r),
         req' = [req EXCEPT ![w] = r], TablesOK', boot' = boot
  PROVE  TypeInv'
  <1>1. req' \in [Handler -> Request]
    BY DEF TypeInv, TypeOK
  <1>2. \A v \in Handler : Holding(req'[v])
    BY DEF TypeInv, TypeOK
  <1> QED
    BY <1>1, <1>2 DEF TypeInv, TypeOK, Holding

\* Answering keeps the types.
LEMMA AnswerType ==
  ASSUME TypeInv, NEW w \in Handler, NEW s \in Status, Answer(w, s),
         TablesOK', boot' = boot
  PROVE  TypeInv'
  BY IdleType, RequestType DEF Answer

\* Rules that rewrite a row keep it a row.
LEMMA TransitionType ==
  ASSUME NEW p \in PlanRow, NEW to \in FlightState
  PROVE  Transition(p, to) \in PlanRow
  BY DEF Transition, PlanRow, FlightState

\* A flight whose control was taken is still a row.
LEMMA TakeControlType ==
  ASSUME NEW p \in PlanRow, NEW h \in HandoffRow
  PROVE  TakeControl(p, h) \in PlanRow
  BY DEF TakeControl, PlanRow, HandoffRow

\* A handoff that was accepted or cancelled is still a row.
LEMMA HandoffRowType ==
  ASSUME NEW h \in HandoffRow
  PROVE  Accept(h) \in HandoffRow /\ CancelUnaccepted(h) \in HandoffRow
  BY DEF Accept, CancelUnaccepted, HandoffRow, HandoffState

\* A request to file carries a row.
LEMMA FileType ==
  ASSUME TypeInv, NEW w \in Handler, NEW p \in PlanId, NEW row \in Filings,
         FileRequest(w, p, row), UNCHANGED <<tables, boot>>
  PROVE  TypeInv'
  <1>1. TablesOK'
    BY DEF TypeInv, TypeOK, TablesOK, tables
  <1> DEFINE r == [Idle EXCEPT !.pc = "file_type", !.plan = p, !.row = row]
  <1>2. row \in PlanRow
    BY ServiceAssumption
  <1>3. r \in Request /\ Holding(r)
    BY <1>2 DEF Idle, Request, Label, Status, Holding, HoldsPlan, HoldsRow,
           HoldsTrack, HoldsHandoff
  <1> QED
    BY <1>1, <1>3, RequestType DEF FileRequest, Begin, tables

\* A request at any statement is a request; with what it holds it stays
\* well-formed when it moves on to a statement that needs no more.
LEMMA NextType ==
  ASSUME TypeInv, NEW w \in Handler
  PROVE  req[w] \in Request /\ Holding(req[w])
  BY DEF TypeInv, TypeOK

\* Tables that do not change stay typed.
LEMMA TablesSame ==
  ASSUME TypeInv, UNCHANGED tables
  PROVE  TablesOK'
  BY DEF TypeInv, TypeOK, TablesOK, tables

USE DEF At

\* A request that arrives keeps the types.
LEMMA ArriveType ==
  ASSUME TypeInv, NEW w \in Handler, Arrive(w)
  PROVE  TypeInv'
  <1> USE DEF Takes
  <1>1. CASE Malformed(w)
    BY <1>1, AnswerType, TablesSame DEF Malformed, Status
  <1>2. CASE RegisterAircraft(w)
    <2>1. RegistrationIds \subseteq AircraftId
      BY DEF RegistrationIds
    <2>2. TablesOK'
      BY <1>2, <2>1 DEF RegisterAircraft, PutAircraft, TypeInv, TypeOK, TablesOK
    <2> QED
      BY <1>2, <2>2, AnswerType DEF RegisterAircraft, Status
  <1>3. CASE File(w)
    <2>1. PICK p \in FilingIds, row \in Filings :
            IF CallsignExists(row.callsign) THEN Answer(w, "rejected")
                                            ELSE FileRequest(w, p, row)
      BY <1>3 DEF File
    <2>2. p \in PlanId
      BY DEF FilingIds, FreshPlanIds
    <2> QED
      BY <1>3, <2>1, <2>2, AnswerType, FileType, TablesSame DEF File, Status
  <1>4. CASE Move(w)
    <2>1. PICK p \in PlanId, to \in Targets :
            \/ Answer(w, "notfound")
            \/ Answer(w, "rejected")
            \/ /\ plans[p] # None
               /\ Begin(w, [Idle EXCEPT !.pc = "move_put", !.plan = p,
                                        !.row = Transition(plans[p], to)])
      BY <1>4 DEF Move
    <2>2. CASE Answer(w, "notfound") \/ Answer(w, "rejected")
      BY <1>4, <2>2, AnswerType, TablesSame DEF Move, Status
    <2>3. CASE plans[p] # None
               /\ Begin(w, [Idle EXCEPT !.pc = "move_put", !.plan = p,
                                        !.row = Transition(plans[p], to)])
      <3> DEFINE r == [Idle EXCEPT !.pc = "move_put", !.plan = p,
                                   !.row = Transition(plans[p], to)]
      <3>1. plans[p] \in PlanRow
        BY <2>3 DEF TypeInv, TypeOK, TablesOK
      <3>2. Transition(plans[p], to) \in PlanRow
        BY <3>1, TransitionType, ServiceAssumption
      <3>3. r \in Request /\ Holding(r)
        BY <3>2 DEF Idle, Request, Label, Status, Holding, HoldsPlan,
             HoldsRow, HoldsTrack, HoldsHandoff
      <3> QED
        BY <1>4, <2>3, <3>3, RequestType, TablesSame DEF Move, Begin
    <2> QED
      BY <2>1, <2>2, <2>3
  <1>5. CASE Report(w)
    <2>1. PICK p \in PlanId, t \in Track :
            \/ Answer(w, "notfound")
            \/ Answer(w, "rejected")
            \/ Begin(w, [Idle EXCEPT !.pc = "report_latest", !.plan = p,
                                     !.track = t])
      BY <1>5 DEF Report
    <2> DEFINE r == [Idle EXCEPT !.pc = "report_latest", !.plan = p, !.track = t]
    <2>2. r \in Request /\ Holding(r)
      BY DEF Idle, Request, Label, Status, Holding, HoldsPlan,
           HoldsRow, HoldsTrack, HoldsHandoff
    <2> QED
      BY <1>5, <2>1, <2>2, AnswerType, RequestType, TablesSame
      DEF Report, Status, Begin
  <1>6. CASE InitiateHandoff(w)
    <2>1. PICK p \in PlanId, from \in Sector, to \in Sector, h \in FreshHandoffIds :
            \/ Answer(w, "notfound")
            \/ Answer(w, "rejected")
            \/ /\ plans[p] # None
               /\ Begin(w, [Idle EXCEPT !.pc = "initiate_list", !.plan = p,
                              !.hid = h,
                              !.hand = [plan |-> p, from |-> from, to |-> to,
                                        state |-> "INITIATED"]])
      BY <1>6 DEF InitiateHandoff
    <2>2. CASE Answer(w, "notfound") \/ Answer(w, "rejected")
      BY <1>6, <2>2, AnswerType, TablesSame DEF InitiateHandoff, Status
    <2>3. CASE plans[p] # None
               /\ Begin(w, [Idle EXCEPT !.pc = "initiate_list", !.plan = p,
                              !.hid = h,
                              !.hand = [plan |-> p, from |-> from, to |-> to,
                                        state |-> "INITIATED"]])
      <3> DEFINE hand == [plan |-> p, from |-> from, to |-> to, state |-> "INITIATED"]
                 r == [Idle EXCEPT !.pc = "initiate_list", !.plan = p,
                                   !.hid = h, !.hand = hand]
      <3>1. hand \in HandoffRow
        BY DEF HandoffRow, HandoffState
      <3>2. h \in HandoffId
        BY DEF FreshHandoffIds
      <3> HIDE DEF hand
      <3>3. r \in Request /\ Holding(r)
        BY <3>1, <3>2 DEF Idle, Request, Label, Status, Holding, HoldsPlan,
             HoldsRow, HoldsTrack, HoldsHandoff
      <3>4. req' = [req EXCEPT ![w] = r]
        BY <2>3 DEF Begin, hand
      <3> QED
        BY <1>6, <3>3, <3>4, RequestType, TablesSame DEF InitiateHandoff
    <2> QED
      BY <2>1, <2>2, <2>3
  <1>7. CASE AcceptHandoff(w)
    <2>1. PICK h \in HandoffId :
            \/ Answer(w, "notfound")
            \/ Answer(w, "rejected")
            \/ /\ handoffs[h] # None
               /\ Begin(w, [Idle EXCEPT !.pc = "accept_flight", !.hid = h,
                              !.plan = handoffs[h].plan,
                              !.hand = Accept(handoffs[h])])
      BY <1>7 DEF AcceptHandoff
    <2>2. CASE Answer(w, "notfound") \/ Answer(w, "rejected")
      BY <1>7, <2>2, AnswerType, TablesSame DEF AcceptHandoff, Status
    <2>3. CASE handoffs[h] # None
               /\ Begin(w, [Idle EXCEPT !.pc = "accept_flight", !.hid = h,
                              !.plan = handoffs[h].plan,
                              !.hand = Accept(handoffs[h])])
      <3> DEFINE r == [Idle EXCEPT !.pc = "accept_flight", !.hid = h,
                                   !.plan = handoffs[h].plan,
                                   !.hand = Accept(handoffs[h])]
      <3>1. handoffs[h] \in HandoffRow
        BY <2>3 DEF TypeInv, TypeOK, TablesOK
      <3>2. Accept(handoffs[h]) \in HandoffRow /\ handoffs[h].plan \in PlanId
        BY <3>1, HandoffRowType DEF HandoffRow
      <3>3. r \in Request /\ Holding(r)
        BY <3>2 DEF Idle, Request, Label, Status, Holding, HoldsPlan,
             HoldsRow, HoldsTrack, HoldsHandoff
      <3> QED
        BY <1>7, <2>3, <3>3, RequestType, TablesSame DEF AcceptHandoff, Begin
    <2> QED
      BY <2>1, <2>2, <2>3
  <1>8. CASE Reconcile(w)
    <2> DEFINE r == [Idle EXCEPT !.pc = AfterCancel(Unsettled), !.hs = Unsettled]
    <2>1. Unsettled \in SUBSET [id : HandoffId, row : HandoffRow]
      BY HandoffRowType DEF Unsettled, TypeInv, TypeOK, TablesOK
    <2>2. AfterCancel(Unsettled) \in {"refresh_flights", "reconcile_put"}
      BY DEF AfterCancel
    <2>3. r \in Request /\ Holding(r)
      BY <2>1, <2>2 DEF Idle, Request, Label, Status, Holding, HoldsPlan,
           HoldsRow, HoldsTrack, HoldsHandoff
    <2> QED
      BY <1>8, <2>3, RequestType, TablesSame DEF Reconcile, Begin
  <1> QED
    BY <1>1, <1>2, <1>3, <1>4, <1>5, <1>6, <1>7, <1>8
    DEF Arrive, ArrivePlans, ArriveFlights, ArriveControl

\* Moving on without loading anything: only pc and wrote of a request change.
LEMMA AdvanceType ==
  ASSUME TypeInv, NEW w \in Handler, NEW label \in Label, NEW b \in BOOLEAN,
         label \in HoldsPlan => req[w].pc \in HoldsPlan,
         label \in HoldsRow => req[w].pc \in HoldsRow,
         label \in HoldsTrack => req[w].pc \in HoldsTrack,
         label \in HoldsHandoff => req[w].pc \in HoldsHandoff,
         req' = [req EXCEPT ![w].pc = label, ![w].wrote = b],
         TablesOK', boot' = boot
  PROVE  TypeInv'
  <1> DEFINE r == [req[w] EXCEPT !.pc = label, !.wrote = b]
  <1>1. r \in Request /\ Holding(r)
    BY NextType DEF Request, Holding
  <1>2. req' = [req EXCEPT ![w] = r]
    OBVIOUS
  <1> QED
    BY <1>1, <1>2, RequestType

\* Moving to a label that holds no more than the last one keeps the types.
LEMMA GotoType ==
  ASSUME TypeInv, NEW w \in Handler, NEW label \in Label,
         label \in HoldsPlan => req[w].pc \in HoldsPlan,
         label \in HoldsRow => req[w].pc \in HoldsRow,
         label \in HoldsTrack => req[w].pc \in HoldsTrack,
         label \in HoldsHandoff => req[w].pc \in HoldsHandoff,
         req' = [req EXCEPT ![w].pc = label], UNCHANGED <<tables, boot>>
  PROVE  TypeInv'
  <1> DEFINE r == [req[w] EXCEPT !.pc = label]
  <1>1. r \in Request /\ Holding(r)
    BY NextType DEF Request, Holding
  <1> QED
    BY <1>1, RequestType, TablesSame

\* A handler that proceeds keeps the types.
LEMMA ProceedType ==
  ASSUME TypeInv, NEW w \in Handler, Proceed(w)
  PROVE  TypeInv'
  <1> DEFINE p == req[w].plan
             row == req[w].row
  <1> USE DEF HoldsPlan, HoldsRow, HoldsTrack, HoldsHandoff
  <1>a. req[w] \in Request /\ Holding(req[w])
    BY NextType
  <1>b. /\ req[w].pc \in HoldsRow => p \in PlanId /\ row \in PlanRow
        /\ req[w].pc \in HoldsTrack => p \in PlanId /\ req[w].track \in Track
        /\ req[w].pc \in HoldsHandoff =>
             p \in PlanId /\ req[w].hid \in HandoffId /\ req[w].hand \in HandoffRow
    BY <1>a DEF Holding
  <1>1. CASE FileAircraft(w)
    <2>1. CASE Answer(w, "notfound") \/ Answer(w, "rejected")
      BY <1>1, <2>1, AnswerType, TablesSame DEF FileAircraft, Status
    <2>2. CASE req' = [req EXCEPT ![w].pc = "file_put"]
      BY <1>1, <2>2, GotoType DEF FileAircraft, Label
    <2> QED
      BY <1>1, <2>1, <2>2 DEF FileAircraft
  <1>2. CASE FilePut(w)
    <2>1. TablesOK'
      BY <1>2, <1>b DEF FilePut, PutFlight, TypeInv, TypeOK, TablesOK
    <2> QED
      BY <1>2, <2>1, AnswerType DEF FilePut, Status
  <1>3. CASE MovePut(w)
    <2>1. TablesOK'
      BY <1>3, <1>b DEF MovePut, PutFlight, TypeInv, TypeOK, TablesOK
    <2>2. CASE Answer(w, "failed")
      BY <1>3, <2>1, <2>2, AnswerType DEF MovePut, Status
    <2>3. CASE req' = [req EXCEPT ![w].pc = "move_event", ![w].wrote = TRUE]
      BY <1>3, <2>1, <2>3, AdvanceType DEF MovePut, Label
    <2> QED
      BY <1>3, <2>2, <2>3 DEF MovePut
  <1>4. CASE MoveEvent(w)
    <2>1. [plan |-> p, kind |-> row.state] \in EventRow
      BY <1>4, <1>b DEF MoveEvent, EventRow, PlanRow
    <2>2. TablesOK'
      BY <1>4, <2>1 DEF MoveEvent, Event, TypeInv, TypeOK, TablesOK
    <2> QED
      BY <1>4, <2>2, AnswerType DEF MoveEvent, Status
  <1>5. CASE ReportLatest(w)
    <2>1. CASE Answer(w, "rejected")
      BY <1>5, <2>1, AnswerType, TablesSame DEF ReportLatest, Status
    <2>2. CASE req' = [req EXCEPT ![w].pc = "report_add"]
      BY <1>5, <2>2, GotoType DEF ReportLatest, Label
    <2> QED
      BY <1>5, <2>1, <2>2 DEF ReportLatest
  <1>6. CASE ReportAdd(w)
    <2>1. TablesOK'
      BY <1>6, <1>b DEF ReportAdd, AddTrack, TypeInv, TypeOK, TablesOK
    <2>2. CASE Answer(w, "failed")
      BY <1>6, <2>1, <2>2, AnswerType DEF ReportAdd, Status
    <2>3. CASE req' = [req EXCEPT ![w].pc = "refresh_flights", ![w].wrote = TRUE]
      BY <1>6, <2>1, <2>3, AdvanceType DEF ReportAdd, Label
    <2> QED
      BY <1>6, <2>2, <2>3 DEF ReportAdd
  <1>7. CASE RefreshFlights(w)
    <2> DEFINE r == [req[w] EXCEPT !.pc = AfterRead(ActivePlans), !.todo = ActivePlans]
    <2>1. AfterRead(ActivePlans) \in {"refresh_replace", "refresh_track"}
      BY DEF AfterRead
    <2>2. ActivePlans \in SUBSET PlanId
      BY DEF ActivePlans
    <2>3. r \in Request /\ Holding(r)
      BY <1>a, <2>1, <2>2 DEF Request, Label, Holding
    <2>4. req' = [req EXCEPT ![w] = r]
      BY <1>7 DEF RefreshFlights
    <2> QED
      BY <1>7, <2>3, <2>4, RequestType, TablesSame DEF RefreshFlights
  <1>8. CASE RefreshTrack(w)
    <2>1. PICK q \in PlanId :
            req' = [req EXCEPT
              ![w].pc = AfterRead(req[w].todo \ {q}),
              ![w].todo = @ \ {q},
              ![w].seen = @ \cup {[plan |-> q, geo |-> t.geo] : t \in LatestTrack(q)}]
      BY <1>8 DEF RefreshTrack
    <2> DEFINE new == {[plan |-> q, geo |-> t.geo] : t \in LatestTrack(q)}
               label == AfterRead(req[w].todo \ {q})
               r == [req[w] EXCEPT !.pc = label, !.todo = @ \ {q}, !.seen = @ \cup new]
    <2>2. label \in {"refresh_replace", "refresh_track"}
      BY DEF AfterRead
    <2>3. new \in SUBSET [plan : PlanId, geo : Geo]
      BY DEF LatestTrack, TypeInv, TypeOK, TablesOK, Track
    <2>4. req' = [req EXCEPT ![w] = r]
      BY <2>1
    <2> HIDE DEF new, label
    <2>5. r \in Request /\ Holding(r)
      BY <1>a, <2>2, <2>3 DEF Request, Label, Holding
    <2> QED
      BY <1>8, <2>4, <2>5, RequestType, TablesSame DEF RefreshTrack
  <1>9. CASE RefreshReplace(w)
    <2>1. TablesOK'
      BY <1>9 DEF RefreshReplace, ReplaceConflicts, Detect, TypeInv, TypeOK, TablesOK
    <2> QED
      BY <1>9, <2>1, AnswerType DEF RefreshReplace, Status
  <1>10. CASE InitiateList(w)
    <2>1. CASE Answer(w, "rejected")
      BY <1>10, <2>1, AnswerType, TablesSame DEF InitiateList, Status
    <2>2. CASE req' = [req EXCEPT ![w].pc = "initiate_put"]
      BY <1>10, <2>2, GotoType DEF InitiateList, Label
    <2> QED
      BY <1>10, <2>1, <2>2 DEF InitiateList, AfterList
  <1>11. CASE InitiatePut(w)
    <2>1. TablesOK'
      BY <1>11, <1>b DEF InitiatePut, PutHandoff, TypeInv, TypeOK, TablesOK
    <2> QED
      BY <1>11, <2>1, AnswerType DEF InitiatePut, Status
  <1>12. CASE AcceptFlight(w)
    <2>1. CASE plans[p] = None
      BY <1>12, <2>1, AnswerType, TablesSame DEF AcceptFlight, Status
    <2>2. CASE plans[p] # None
      <3> DEFINE new == TakeControl(plans[p], req[w].hand)
                 r == [req[w] EXCEPT !.pc = "accept_putflight", !.row = new]
      <3>1. plans[p] \in PlanRow
        BY <1>12, <1>b, <2>2 DEF AcceptFlight, TypeInv, TypeOK, TablesOK
      <3>2. new \in PlanRow
        BY <1>12, <1>b, <3>1, TakeControlType DEF AcceptFlight
      <3>3. req' = [req EXCEPT ![w] = r]
        BY <1>12, <2>2 DEF AcceptFlight
      <3> HIDE DEF new
      <3>4. r \in Request /\ Holding(r)
        BY <1>12, <1>a, <3>2 DEF AcceptFlight, Request, Label, Holding
      <3> QED
        BY <1>12, <3>3, <3>4, RequestType, TablesSame DEF AcceptFlight
    <2> QED
      BY <2>1, <2>2
  <1>13. CASE AcceptPutFlight(w)
    <2>1. TablesOK'
      BY <1>13, <1>b DEF AcceptPutFlight, PutFlight, TypeInv, TypeOK, TablesOK
    <2>2. CASE Answer(w, "failed")
      BY <1>13, <2>1, <2>2, AnswerType DEF AcceptPutFlight, Status
    <2>3. CASE req' = [req EXCEPT ![w].pc = "accept_puthandoff", ![w].wrote = TRUE]
      BY <1>13, <2>1, <2>3, AdvanceType DEF AcceptPutFlight, Label
    <2> QED
      BY <1>13, <2>2, <2>3 DEF AcceptPutFlight
  <1>14. CASE AcceptPutHandoff(w)
    <2>1. TablesOK'
      BY <1>14, <1>b DEF AcceptPutHandoff, PutHandoff, TypeInv, TypeOK, TablesOK
    <2> QED
      BY <1>14, <2>1, AnswerType DEF AcceptPutHandoff, Status
  <1>15. CASE ReconcilePut(w)
    <2>1. PICK e \in req[w].hs :
            /\ PutHandoff(e.id, e.row)
            /\ req' = [req EXCEPT ![w].pc = AfterCancel(req[w].hs \ {e}),
                                  ![w].hs = @ \ {e}, ![w].wrote = TRUE]
      BY <1>15 DEF ReconcilePut
    <2> DEFINE label == AfterCancel(req[w].hs \ {e})
               r == [req[w] EXCEPT !.pc = label, !.hs = @ \ {e}, !.wrote = TRUE]
    <2>2. e.id \in HandoffId /\ e.row \in HandoffRow
      BY <1>a DEF Request
    <2>3. TablesOK'
      BY <1>15, <2>1, <2>2 DEF ReconcilePut, PutHandoff, TypeInv, TypeOK, TablesOK
    <2>4. label \in {"refresh_flights", "reconcile_put"}
      BY DEF AfterCancel
    <2>5. req' = [req EXCEPT ![w] = r]
      BY <2>1
    <2> HIDE DEF label
    <2>6. r \in Request /\ Holding(r)
      BY <1>a, <2>4 DEF Request, Label, Holding
    <2> QED
      BY <1>15, <2>3, <2>5, <2>6, RequestType DEF ReconcilePut
  <1> QED
    BY <1>1, <1>2, <1>3, <1>4, <1>5, <1>6, <1>7, <1>8, <1>9, <1>10, <1>11,
       <1>12, <1>13, <1>14, <1>15 DEF Proceed

\* An error of the database keeps the types.
LEMMA FailureType ==
  ASSUME TypeInv, NEW w \in Handler, DbError(w) \/ IgnoredError(w)
  PROVE  TypeInv'
  <1> USE DEF HoldsPlan, HoldsRow, HoldsTrack, HoldsHandoff
  <1>1. CASE DbError(w)
    BY <1>1, AnswerType, TablesSame DEF DbError, Status
  <1>2. ASSUME UNCHANGED <<tables, boot>>, NEW p \in FilingIds, NEW row \in Filings,
               FileRequest(w, p, row)
        PROVE  TypeInv'
    <2>1. p \in PlanId
      BY DEF FilingIds, FreshPlanIds
    <2> QED
      BY <1>2, <2>1, FileType
  <1>3. CASE UNCHANGED <<tables, boot>> /\ At(w, "move_event") /\ Answer(w, "ok")
    BY <1>3, AnswerType, TablesSame DEF Status
  <1>4. CASE /\ UNCHANGED <<tables, boot>>
             /\ At(w, "report_latest")
             /\ req' = [req EXCEPT ![w].pc = "report_add"]
    BY <1>4, GotoType DEF Label
  <1>5. ASSUME UNCHANGED <<tables, boot>>, NEW p \in PlanId,
               req' = [req EXCEPT ![w].pc = AfterRead(req[w].todo \ {p}),
                                  ![w].todo = @ \ {p}]
        PROVE  TypeInv'
    <2> DEFINE label == AfterRead(req[w].todo \ {p})
               r == [req[w] EXCEPT !.pc = label, !.todo = @ \ {p}]
    <2>1. label \in {"refresh_replace", "refresh_track"}
      BY DEF AfterRead
    <2>2. req' = [req EXCEPT ![w] = r]
      BY <1>5
    <2> HIDE DEF label
    <2>3. r \in Request /\ Holding(r)
      BY <2>1, NextType DEF Request, Label, Holding
    <2> QED
      BY <1>5, <2>2, <2>3, RequestType, TablesSame
  <1>6. CASE UNCHANGED <<tables, boot>> /\ At(w, "initiate_list") /\ AfterList(w)
    <2>1. CASE Answer(w, "rejected")
      BY <1>6, <2>1, AnswerType, TablesSame DEF Status
    <2>2. CASE req' = [req EXCEPT ![w].pc = "initiate_put"]
      BY <1>6, <2>2, GotoType DEF Label
    <2> QED
      BY <1>6, <2>1, <2>2 DEF AfterList
  <1>7. CASE IgnoredError(w)
    BY <1>7, <1>2, <1>3, <1>4, <1>5, <1>6
    DEF IgnoredError, CallsignsUnread, EventDropped, LatestUnread, TrackSkipped,
        HandoffsUnread
  <1> QED
    BY <1>1, <1>7

\* A restart keeps the tables and leaves idle handlers.
LEMMA RestartType ==
  ASSUME TypeInv, Restart
  PROVE  TypeInv'
  <1>1. Idle \in Request /\ Holding(Idle)
    BY DEF Idle, Request, Label, Status, Holding, HoldsPlan, HoldsRow,
           HoldsTrack, HoldsHandoff
  <1>2. TablesOK' /\ boot' \in Nat
    BY TablesSame DEF Restart, TypeInv, TypeOK
  <1>3. \A w \in Handler : Holding(req'[w])
    BY <1>1 DEF Restart
  <1> QED
    BY <1>1, <1>2, <1>3 DEF Restart, TypeInv, TypeOK, Holding

\* Every step keeps the types.
LEMMA NextTypeInv == TypeInv /\ [Next]_vars => TypeInv'
  <1> SUFFICES ASSUME TypeInv, [Next]_vars
               PROVE  TypeInv'
    OBVIOUS
  <1>1. CASE UNCHANGED vars
    <2>1. TablesOK' /\ req' = req /\ boot' = boot
      BY <1>1, TablesSame DEF vars, tables
    <2> QED
      BY <2>1 DEF TypeInv, TypeOK, Holding
  <1>2. CASE Next
    BY <1>2, ArriveType, ProceedType, FailureType, RestartType DEF Next
  <1> QED
    BY <1>1, <1>2

\* The type invariant holds in every state.
LEMMA Typed == Spec => []TypeInv
  BY InitType, NextTypeInv, PTL DEF Spec

\* Every table and every request in flight has its type, whatever the requests,
\* the interleaving, the failures and the restarts (store, service).
THEOREM TypeCorrect == Spec => []TypeOK
  <1>1. TypeInv => TypeOK
    BY DEF TypeInv
  <1> QED
    BY <1>1, Typed, PTL

-----------------------------------------------------------------------------
(* What one step can do to the flight plans and to the handlers' copies of *)
(* them.  The properties of the plans need nothing else about the actions. *)

\* Where a handler holds a plan that has passed the checks of File.
Checked == HoldsRow \ {"file_type"}

\* A plan is written only from the copy of a handler, and only if no other row
\* has its callsign.
PlanStep ==
  \/ plans' = plans
  \/ \E w \in Handler :
       /\ req[w].pc \in Checked
       /\ CallsignFree(req[w].plan, req[w].row.callsign)
       /\ plans' = [plans EXCEPT ![req[w].plan] = req[w].row]

\* A handler's copy comes from a client, from a stored plan that Move or Accept
\* has changed, or is the one it had.
CopyStep(w) ==
  \/ req'[w].pc \notin HoldsRow
  \/ req'[w].pc = "file_type" /\ req'[w].row \in Filings
  \/ \E p \in PlanId, to \in Targets :
       plans[p] # None /\ req'[w].row = Transition(plans[p], to)
  \/ \E p \in PlanId, h \in HandoffRow :
       plans[p] # None /\ req'[w].row = TakeControl(plans[p], h)
  \/ /\ req'[w].row = req[w].row
     /\ req[w].pc \in HoldsRow
     /\ req'[w].pc \in Checked =>
          req[w].pc \in Checked \/ ValidateEnvelope(req[w].row)

\* An aircraft type is never removed, and only clients that choose ids can
\* change one.
AircraftStep ==
  \/ aircraft' = aircraft
  \/ \E a \in AircraftId, row \in AircraftRow :
       /\ ~ExplicitIds => aircraft[a] = None
       /\ aircraft' = [aircraft EXCEPT ![a] = row]

RowStep == PlanStep /\ AircraftStep /\ \A w \in Handler : CopyStep(w)

\* A handler that does not move keeps its copy.
LEMMA SameCopy ==
  ASSUME NEW w \in Handler, req'[w] = req[w]
  PROVE  CopyStep(w)
  BY DEF CopyStep

\* A step of w that leaves the tables alone but for those refresh and the
\* handoffs use, and loads no plan.
LEMMA OtherStep ==
  ASSUME TypeInv, NEW w \in Handler, NEW r,
         req' = [req EXCEPT ![w] = r],
         r.pc \notin HoldsRow, UNCHANGED <<aircraft, plans>>
  PROVE  RowStep
  <1>1. \A v \in Handler : CopyStep(v)
    BY SameCopy DEF CopyStep, TypeInv, TypeOK
  <1> QED
    BY <1>1 DEF RowStep, PlanStep, AircraftStep

\* An answer that changes no row otherwise is a step of the rows.
LEMMA AnswerStep ==
  ASSUME TypeInv, NEW w \in Handler, NEW s, Answer(w, s), PlanStep, AircraftStep
  PROVE  RowStep
  <1>1. \A v \in Handler : CopyStep(v)
    BY SameCopy DEF Answer, Idle, HoldsRow, CopyStep, TypeInv, TypeOK
  <1> QED
    BY <1>1 DEF RowStep

\* A request that arrives changes the rows as the rows may change.
LEMMA ArriveRow ==
  ASSUME TypeInv, NEW w \in Handler, Arrive(w)
  PROVE  RowStep
  <1> USE DEF Begin, HoldsRow
  <1>p. ASSUME UNCHANGED plans PROVE PlanStep
    BY <1>p DEF PlanStep
  <1>a. ASSUME UNCHANGED aircraft PROVE AircraftStep
    BY <1>a DEF AircraftStep
  <1>1. CASE Malformed(w)
    BY <1>1, <1>p, <1>a, AnswerStep DEF Malformed, tables
  <1>2. CASE RegisterAircraft(w)
    <2>1. AircraftStep
      BY <1>2 DEF RegisterAircraft, PutAircraft, AircraftStep, RegistrationIds
    <2> QED
      BY <1>2, <2>1, <1>p, AnswerStep DEF RegisterAircraft
  <1>3. CASE File(w)
    <2>1. PICK p \in FilingIds, row \in Filings :
            Answer(w, "rejected") \/ FileRequest(w, p, row)
      BY <1>3 DEF File
    <2>2. CASE Answer(w, "rejected")
      BY <1>3, <2>2, <1>p, <1>a, AnswerStep DEF File, tables
    <2>3. CASE FileRequest(w, p, row)
      <3>1. CopyStep(w)
        BY <2>3 DEF FileRequest, CopyStep, Idle, TypeInv, TypeOK
      <3>2. \A v \in Handler \ {w} : CopyStep(v)
        BY <2>3, SameCopy DEF FileRequest, TypeInv, TypeOK
      <3> QED
        BY <1>3, <3>1, <3>2, <1>p, <1>a DEF File, RowStep, tables
    <2> QED
      BY <2>1, <2>2, <2>3
  <1>4. CASE Move(w)
    <2>1. PICK p \in PlanId, to \in Targets :
            \/ Answer(w, "notfound")
            \/ Answer(w, "rejected")
            \/ /\ plans[p] # None
               /\ Begin(w, [Idle EXCEPT !.pc = "move_put", !.plan = p,
                                        !.row = Transition(plans[p], to)])
      BY <1>4 DEF Move
    <2>2. CASE Answer(w, "notfound") \/ Answer(w, "rejected")
      BY <1>4, <2>2, <1>p, <1>a, AnswerStep DEF Move, tables
    <2>3. CASE /\ plans[p] # None
               /\ Begin(w, [Idle EXCEPT !.pc = "move_put", !.plan = p,
                                        !.row = Transition(plans[p], to)])
      <3>1. req'[w].row = Transition(plans[p], to)
        BY <2>3 DEF Idle, TypeInv, TypeOK
      <3>2. CopyStep(w)
        BY <2>3, <3>1 DEF CopyStep
      <3>3. \A v \in Handler \ {w} : CopyStep(v)
        BY <2>3, SameCopy DEF TypeInv, TypeOK
      <3> QED
        BY <1>4, <3>2, <3>3, <1>p, <1>a DEF Move, RowStep, tables
    <2> QED
      BY <2>1, <2>2, <2>3
  <1>5. CASE Report(w)
    <2>1. CASE \E s \in {"notfound", "rejected"} : Answer(w, s)
      BY <1>5, <2>1, <1>p, <1>a, AnswerStep DEF Report, tables
    <2>2. CASE \E p \in PlanId, t \in Track :
            Begin(w, [Idle EXCEPT !.pc = "report_latest", !.plan = p, !.track = t])
      BY <1>5, <2>2, OtherStep DEF Report, Idle, tables
    <2> QED
      BY <1>5, <2>1, <2>2 DEF Report
  <1>6. CASE InitiateHandoff(w)
    <2>1. CASE \E s \in {"notfound", "rejected"} : Answer(w, s)
      BY <1>6, <2>1, <1>p, <1>a, AnswerStep DEF InitiateHandoff, tables
    <2>2. ASSUME NEW p, NEW h, NEW hand,
            Begin(w, [Idle EXCEPT !.pc = "initiate_list", !.plan = p,
                                  !.hid = h, !.hand = hand])
          PROVE  RowStep
      BY <1>6, <2>2, OtherStep DEF InitiateHandoff, Idle, tables
    <2> QED
      BY <1>6, <2>1, <2>2 DEF InitiateHandoff
  <1>7. CASE AcceptHandoff(w)
    <2>1. CASE \E s \in {"notfound", "rejected"} : Answer(w, s)
      BY <1>7, <2>1, <1>p, <1>a, AnswerStep DEF AcceptHandoff, tables
    <2>2. ASSUME NEW h, NEW p, NEW hand,
            Begin(w, [Idle EXCEPT !.pc = "accept_flight", !.hid = h,
                                  !.plan = p, !.hand = hand])
          PROVE  RowStep
      BY <1>7, <2>2, OtherStep DEF AcceptHandoff, Idle, tables
    <2> QED
      BY <1>7, <2>1, <2>2 DEF AcceptHandoff
  <1>8. CASE Reconcile(w)
    <2> DEFINE r == [Idle EXCEPT !.pc = AfterCancel(Unsettled), !.hs = Unsettled]
    <2>1. r.pc \notin HoldsRow
      BY DEF Idle, AfterCancel
    <2>2. req' = [req EXCEPT ![w] = r] /\ UNCHANGED <<aircraft, plans>>
      BY <1>8 DEF Reconcile, tables
    <2> HIDE DEF r
    <2> QED
      BY <2>1, <2>2, OtherStep
  <1> QED
    BY <1>1, <1>2, <1>3, <1>4, <1>5, <1>6, <1>7, <1>8
    DEF Arrive, ArrivePlans, ArriveFlights, ArriveControl

\* A step of w that moves on with the copy it has.
LEMMA KeepStep ==
  ASSUME TypeInv, NEW w \in Handler, NEW r,
         req' = [req EXCEPT ![w] = r],
         r.row = req[w].row,
         r.pc \in HoldsRow => req[w].pc \in HoldsRow,
         r.pc \in Checked => req[w].pc \in Checked \/ ValidateEnvelope(req[w].row),
         PlanStep, aircraft' = aircraft
  PROVE  RowStep
  <1>1. CopyStep(w)
    BY DEF CopyStep, TypeInv, TypeOK
  <1>2. \A v \in Handler \ {w} : CopyStep(v)
    BY SameCopy DEF TypeInv, TypeOK
  <1> QED
    BY <1>1, <1>2 DEF RowStep, AircraftStep

\* A handler that proceeds changes the rows as the rows may change.
LEMMA ProceedRow ==
  ASSUME TypeInv, NEW w \in Handler, Proceed(w)
  PROVE  RowStep
  <1> USE DEF HoldsRow, Checked
  <1>t. req[w] \in Request
    BY NextType
  <1>p. ASSUME UNCHANGED plans PROVE PlanStep
    BY <1>p DEF PlanStep
  <1>a. ASSUME UNCHANGED aircraft PROVE AircraftStep
    BY <1>a DEF AircraftStep
  <1>1. CASE FileAircraft(w)
    <2>1. CASE \E s \in {"notfound", "rejected"} : Answer(w, s)
      BY <1>1, <2>1, <1>p, <1>a, AnswerStep DEF FileAircraft, tables
    <2>2. CASE /\ ValidateEnvelope(req[w].row)
               /\ req' = [req EXCEPT ![w].pc = "file_put"]
      <3> DEFINE r == [req[w] EXCEPT !.pc = "file_put"]
      <3>1. r.pc = "file_put" /\ r.row = req[w].row
        BY <1>t DEF Request
      <3>2. req' = [req EXCEPT ![w] = r]
        BY <2>2
      <3> HIDE DEF r
      <3> QED
        BY <1>1, <2>2, <3>1, <3>2, <1>p, KeepStep DEF FileAircraft, tables
    <2> QED
      BY <1>1, <2>1, <2>2 DEF FileAircraft
  <1>2. CASE FilePut(w)
    <2>1. PlanStep
      BY <1>2 DEF FilePut, PutFlight, PlanStep
    <2> QED
      BY <1>2, <2>1, <1>a, AnswerStep DEF FilePut
  <1>3. CASE MovePut(w)
    <2>1. PlanStep
      BY <1>3 DEF MovePut, PutFlight, PlanStep
    <2>2. CASE Answer(w, "failed")
      BY <1>3, <2>1, <2>2, <1>a, AnswerStep DEF MovePut
    <2>3. CASE req' = [req EXCEPT ![w].pc = "move_event", ![w].wrote = TRUE]
      <3> DEFINE r == [req[w] EXCEPT !.pc = "move_event", !.wrote = TRUE]
      <3>1. r.pc = "move_event" /\ r.row = req[w].row
        BY <1>t DEF Request
      <3>2. req' = [req EXCEPT ![w] = r]
        BY <2>3
      <3> HIDE DEF r
      <3> QED
        BY <1>3, <2>1, <3>1, <3>2, KeepStep DEF MovePut
    <2> QED
      BY <1>3, <2>2, <2>3 DEF MovePut
  <1>4. CASE MoveEvent(w)
    BY <1>4, <1>p, <1>a, AnswerStep DEF MoveEvent
  <1>5. CASE ReportLatest(w)
    <2>1. CASE Answer(w, "rejected")
      BY <1>5, <2>1, <1>p, <1>a, AnswerStep DEF ReportLatest, tables
    <2>2. CASE req' = [req EXCEPT ![w].pc = "report_add"]
      <3>1. req' = [req EXCEPT ![w] = [req[w] EXCEPT !.pc = "report_add"]]
        BY <2>2
      <3> QED
        BY <1>5, <3>1, <1>t, OtherStep DEF ReportLatest, tables, Request
    <2> QED
      BY <1>5, <2>1, <2>2 DEF ReportLatest
  <1>6. CASE ReportAdd(w)
    <2>1. CASE Answer(w, "failed")
      BY <1>6, <2>1, <1>p, <1>a, AnswerStep DEF ReportAdd
    <2>2. CASE req' = [req EXCEPT ![w].pc = "refresh_flights", ![w].wrote = TRUE]
      <3>1. req' = [req EXCEPT ![w] = [req[w] EXCEPT !.pc = "refresh_flights",
                                                     !.wrote = TRUE]]
        BY <2>2
      <3> QED
        BY <1>6, <3>1, <1>t, OtherStep DEF ReportAdd, Request
    <2> QED
      BY <1>6, <2>1, <2>2 DEF ReportAdd
  <1>7. CASE RefreshFlights(w)
    <2> DEFINE r == [req[w] EXCEPT !.pc = AfterRead(ActivePlans), !.todo = ActivePlans]
    <2>1. req' = [req EXCEPT ![w] = r]
      BY <1>7 DEF RefreshFlights
    <2>2. r.pc \notin HoldsRow
      BY <1>t DEF AfterRead, Request
    <2> HIDE DEF r
    <2> QED
      BY <1>7, <2>1, <2>2, OtherStep DEF RefreshFlights, tables
  <1>8. CASE RefreshTrack(w)
    <2>1. PICK q \in PlanId :
            req' = [req EXCEPT
              ![w].pc = AfterRead(req[w].todo \ {q}),
              ![w].todo = @ \ {q},
              ![w].seen = @ \cup {[plan |-> q, geo |-> t.geo] : t \in LatestTrack(q)}]
      BY <1>8 DEF RefreshTrack
    <2> DEFINE new == {[plan |-> q, geo |-> t.geo] : t \in LatestTrack(q)}
               label == AfterRead(req[w].todo \ {q})
               r == [req[w] EXCEPT !.pc = label, !.todo = @ \ {q}, !.seen = @ \cup new]
    <2>2. req' = [req EXCEPT ![w] = r]
      BY <2>1
    <2>3. label \notin HoldsRow
      BY DEF AfterRead
    <2> HIDE DEF new, label
    <2>4. r.pc = label
      BY <1>t DEF Request
    <2> HIDE DEF r
    <2> QED
      BY <1>8, <2>2, <2>3, <2>4, OtherStep DEF RefreshTrack, tables
  <1>9. CASE RefreshReplace(w)
    BY <1>9, <1>p, <1>a, AnswerStep DEF RefreshReplace
  <1>10. CASE InitiateList(w)
    <2>1. CASE Answer(w, "rejected")
      BY <1>10, <2>1, <1>p, <1>a, AnswerStep DEF InitiateList, tables
    <2>2. CASE req' = [req EXCEPT ![w].pc = "initiate_put"]
      <3>1. req' = [req EXCEPT ![w] = [req[w] EXCEPT !.pc = "initiate_put"]]
        BY <2>2
      <3> QED
        BY <1>10, <3>1, <1>t, OtherStep DEF InitiateList, tables, Request
    <2> QED
      BY <1>10, <2>1, <2>2 DEF InitiateList, AfterList
  <1>11. CASE InitiatePut(w)
    BY <1>11, <1>p, <1>a, AnswerStep DEF InitiatePut
  <1>12. CASE AcceptFlight(w)
    <2> DEFINE p == req[w].plan
    <2>1. CASE plans[p] = None
      BY <1>12, <2>1, <1>p, <1>a, AnswerStep DEF AcceptFlight, tables
    <2>2. CASE plans[p] # None
      <3>1. p \in PlanId /\ req[w].hand \in HandoffRow
        BY <1>12, NextType DEF AcceptFlight, Holding, HoldsPlan, HoldsHandoff
      <3>2. req'[w].row = TakeControl(plans[p], req[w].hand)
        BY <1>12, <2>2, <1>t DEF AcceptFlight, TypeInv, TypeOK, Request
      <3>3. CopyStep(w)
        BY <2>2, <3>1, <3>2 DEF CopyStep
      <3>4. \A v \in Handler \ {w} : CopyStep(v)
        BY <1>12, <2>2, SameCopy DEF AcceptFlight, TypeInv, TypeOK
      <3> QED
        BY <1>12, <3>3, <3>4, <1>p, <1>a DEF AcceptFlight, RowStep, tables
    <2> QED
      BY <2>1, <2>2
  <1>13. CASE AcceptPutFlight(w)
    <2>1. PlanStep
      BY <1>13 DEF AcceptPutFlight, PutFlight, PlanStep
    <2>2. CASE Answer(w, "failed")
      BY <1>13, <2>1, <2>2, <1>a, AnswerStep DEF AcceptPutFlight
    <2>3. CASE req' = [req EXCEPT ![w].pc = "accept_puthandoff", ![w].wrote = TRUE]
      <3> DEFINE r == [req[w] EXCEPT !.pc = "accept_puthandoff", !.wrote = TRUE]
      <3>1. r.pc = "accept_puthandoff" /\ r.row = req[w].row
        BY <1>t DEF Request
      <3>2. req' = [req EXCEPT ![w] = r]
        BY <2>3
      <3> HIDE DEF r
      <3> QED
        BY <1>13, <2>1, <3>1, <3>2, KeepStep DEF AcceptPutFlight
    <2> QED
      BY <1>13, <2>2, <2>3 DEF AcceptPutFlight
  <1>14. CASE AcceptPutHandoff(w)
    BY <1>14, <1>p, <1>a, AnswerStep DEF AcceptPutHandoff
  <1>15. CASE ReconcilePut(w)
    <2>1. PICK e \in req[w].hs :
            req' = [req EXCEPT ![w].pc = AfterCancel(req[w].hs \ {e}),
                               ![w].hs = @ \ {e}, ![w].wrote = TRUE]
      BY <1>15 DEF ReconcilePut
    <2> DEFINE label == AfterCancel(req[w].hs \ {e})
               r == [req[w] EXCEPT !.pc = label, !.hs = @ \ {e}, !.wrote = TRUE]
    <2>2. req' = [req EXCEPT ![w] = r]
      BY <2>1
    <2>3. label \notin HoldsRow
      BY DEF AfterCancel
    <2> HIDE DEF label
    <2>4. r.pc = label
      BY <1>t DEF Request
    <2> HIDE DEF r
    <2> QED
      BY <1>15, <2>2, <2>3, <2>4, OtherStep DEF ReconcilePut
  <1> QED
    BY <1>1, <1>2, <1>3, <1>4, <1>5, <1>6, <1>7, <1>8, <1>9, <1>10, <1>11,
       <1>12, <1>13, <1>14, <1>15 DEF Proceed

\* An error changes the rows as the rows may change.
LEMMA FailureRow ==
  ASSUME TypeInv, NEW w \in Handler, DbError(w) \/ IgnoredError(w)
  PROVE  RowStep
  <1> USE DEF HoldsRow, Checked
  <1>t. req[w] \in Request
    BY NextType
  <1>u. UNCHANGED <<aircraft, plans>>
    BY DEF DbError, IgnoredError, tables
  <1>p. PlanStep /\ AircraftStep
    BY <1>u DEF PlanStep, AircraftStep
  <1>1. CASE DbError(w)
    BY <1>1, <1>p, AnswerStep DEF DbError
  <1>2. ASSUME NEW p \in FilingIds, NEW row \in Filings, FileRequest(w, p, row)
        PROVE  RowStep
    <2>1. CopyStep(w)
      BY <1>2 DEF FileRequest, Begin, CopyStep, Idle, TypeInv, TypeOK
    <2>2. \A v \in Handler \ {w} : CopyStep(v)
      BY <1>2, SameCopy DEF FileRequest, Begin, TypeInv, TypeOK
    <2> QED
      BY <2>1, <2>2, <1>p DEF RowStep
  <1>3. CASE Answer(w, "ok")
    BY <1>3, <1>p, AnswerStep
  <1>4. CASE req' = [req EXCEPT ![w].pc = "report_add"]
    <2>1. req' = [req EXCEPT ![w] = [req[w] EXCEPT !.pc = "report_add"]]
      BY <1>4
    <2> QED
      BY <2>1, <1>t, <1>u, OtherStep DEF Request
  <1>5. ASSUME NEW p \in PlanId,
               req' = [req EXCEPT ![w].pc = AfterRead(req[w].todo \ {p}),
                                  ![w].todo = @ \ {p}]
        PROVE  RowStep
    <2> DEFINE label == AfterRead(req[w].todo \ {p})
               r == [req[w] EXCEPT !.pc = label, !.todo = @ \ {p}]
    <2>1. label \notin HoldsRow
      BY DEF AfterRead
    <2>2. req' = [req EXCEPT ![w] = r]
      BY <1>5
    <2> HIDE DEF label
    <2>3. r.pc = label
      BY <1>t DEF Request
    <2> HIDE DEF r
    <2> QED
      BY <2>1, <2>2, <2>3, <1>u, OtherStep
  <1>6. CASE AfterList(w)
    <2>1. CASE Answer(w, "rejected")
      BY <2>1, <1>p, AnswerStep
    <2>2. CASE req' = [req EXCEPT ![w].pc = "initiate_put"]
      <3>1. req' = [req EXCEPT ![w] = [req[w] EXCEPT !.pc = "initiate_put"]]
        BY <2>2
      <3> QED
        BY <3>1, <1>t, <1>u, OtherStep DEF Request
    <2> QED
      BY <1>6, <2>1, <2>2 DEF AfterList
  <1>7. CASE IgnoredError(w)
    BY <1>7, <1>2, <1>3, <1>4, <1>5, <1>6
    DEF IgnoredError, CallsignsUnread, EventDropped, LatestUnread, TrackSkipped,
        HandoffsUnread
  <1> QED
    BY <1>1, <1>7

\* Every step changes the rows as the rows may change.
LEMMA NextRow == TypeInv /\ [Next]_vars => RowStep
  <1> SUFFICES ASSUME TypeInv, [Next]_vars
               PROVE  RowStep
    OBVIOUS
  <1>1. CASE UNCHANGED vars
    BY <1>1, SameCopy DEF vars, RowStep, PlanStep, AircraftStep
  <1>2. CASE Restart
    <2>1. \A w \in Handler : CopyStep(w)
      BY <1>2 DEF Restart, CopyStep, Idle, HoldsRow
    <2> QED
      BY <1>2, <2>1 DEF Restart, tables, RowStep, PlanStep, AircraftStep
  <1>3. CASE Next
    BY <1>2, <1>3, ArriveRow, ProceedRow, FailureRow DEF Next
  <1> QED
    BY <1>1, <1>3

-----------------------------------------------------------------------------
(* Callsigns.  The check File makes is stale when it writes; what keeps    *)
(* callsigns unique is the constraint on the table, at every write.        *)

\* No two stored plans have one callsign (File, Move, AcceptHandoff).
THEOREM CallsignsUnique == Spec => []CallsignUnique
  <1>1. Init => CallsignUnique
    BY InitialAssumption DEF Init, CallsignUnique, Filed
  <1>2. TypeInv /\ CallsignUnique /\ [Next]_vars => CallsignUnique'
    <2> SUFFICES ASSUME TypeInv, CallsignUnique, PlanStep
                 PROVE  CallsignUnique'
      BY NextRow DEF RowStep
    <2>1. CASE plans' = plans
      BY <2>1 DEF CallsignUnique, Filed
    <2>2. ASSUME NEW w \in Handler, req[w].pc \in Checked,
                 CallsignFree(req[w].plan, req[w].row.callsign),
                 plans' = [plans EXCEPT ![req[w].plan] = req[w].row]
          PROVE  CallsignUnique'
      BY <2>2 DEF CallsignUnique, CallsignFree, Filed, TypeInv, TypeOK, TablesOK
    <2> QED
      BY <2>1, <2>2 DEF PlanStep
  <1> QED
    BY <1>1, <1>2, Typed, PTL DEF Spec

-----------------------------------------------------------------------------
(* The suspended flag.  Inductive only with the copies the handlers hold:  *)
(* a stale copy is written back long after it was read.                    *)

Flagged(row) == row.state # "FILED" => row.suspended = (row.state = "SUSPENDED")

FlagInv ==
  /\ \A p \in PlanId : Filed(p) => Flagged(plans[p])
  /\ \A w \in Handler : req[w].pc \in HoldsRow => Flagged(req[w].row)

\* Outside FILED the suspended flag of every stored plan says whether it is
\* SUSPENDED (Transition, AcceptHandoff).
THEOREM SuspendedFlagCorrect == Spec => []SuspendedFlag
  <1>1. Init => FlagInv
    BY InitialAssumption DEF Init, FlagInv, Filed, Flagged, Idle, HoldsRow
  <1>2. TypeInv /\ FlagInv /\ [Next]_vars => FlagInv'
    <2> SUFFICES ASSUME TypeInv, FlagInv, RowStep
                 PROVE  FlagInv'
      BY NextRow
    <2>1. ASSUME NEW p \in PlanId, Filed(p)'
          PROVE  Flagged(plans'[p])
      <3>1. CASE plans' = plans
        BY <2>1, <3>1 DEF FlagInv, Filed
      <3>2. ASSUME NEW w \in Handler, req[w].pc \in Checked,
                   plans' = [plans EXCEPT ![req[w].plan] = req[w].row]
            PROVE  Flagged(plans'[p])
        BY <2>1, <3>2 DEF FlagInv, Filed, Checked, TypeInv, TypeOK, TablesOK
      <3> QED
        BY <3>1, <3>2 DEF RowStep, PlanStep
    <2>2. ASSUME NEW w \in Handler, req'[w].pc \in HoldsRow
          PROVE  Flagged(req'[w].row)
      <3>1. CASE req'[w].row \in Filings
        BY <3>1, ServiceAssumption DEF Flagged
      <3>2. ASSUME NEW p \in PlanId, NEW to \in Targets, plans[p] # None,
                   req'[w].row = Transition(plans[p], to)
            PROVE  Flagged(req'[w].row)
        <4>1. plans[p] \in PlanRow
          BY <3>2 DEF TypeInv, TypeOK, TablesOK
        <4>2. Flagged(Transition(plans[p], to))
          BY <4>1 DEF Flagged, Transition, PlanRow
        <4> QED
          BY <3>2, <4>2
      <3>3. ASSUME NEW p \in PlanId, NEW h \in HandoffRow, plans[p] # None,
                   req'[w].row = TakeControl(plans[p], h)
            PROVE  Flagged(req'[w].row)
        <4>1. plans[p] \in PlanRow /\ Flagged(plans[p])
          BY <3>3 DEF TypeInv, TypeOK, TablesOK, FlagInv, Filed
        <4>2. Flagged(TakeControl(plans[p], h))
          BY <4>1 DEF Flagged, TakeControl, PlanRow
        <4> QED
          BY <3>3, <4>2
      <3>4. CASE req'[w].row = req[w].row /\ req[w].pc \in HoldsRow
        BY <3>4 DEF FlagInv
      <3> QED
        BY <2>2, <3>1, <3>2, <3>3, <3>4 DEF RowStep, CopyStep
    <2> QED
      BY <2>1, <2>2 DEF FlagInv, Flagged
  <1>3. FlagInv => SuspendedFlag
    BY DEF FlagInv, Flagged, SuspendedFlag
  <1> QED
    BY <1>1, <1>2, <1>3, Typed, PTL DEF Spec

-----------------------------------------------------------------------------
(* Envelopes.  File reads the aircraft type one statement before it writes *)
(* the plan; the check stays good because an aircraft type is only added   *)
(* when clients do not choose ids.                                         *)

Fits(types, row) ==
  /\ types[row.ac] # None
  /\ ~ExplicitIds => row.cruise \in types[row.ac].envelope

FitInv ==
  /\ \A p \in PlanId : Filed(p) => Fits(aircraft, plans[p])
  /\ \A w \in Handler : req[w].pc \in Checked => Fits(aircraft, req[w].row)

\* A row that fits its aircraft goes on to fit it.
LEMMA FitsStable ==
  ASSUME TypeInv, AircraftStep, NEW row \in PlanRow, Fits(aircraft, row)
  PROVE  Fits(aircraft', row)
  <1>1. row.ac \in AircraftId
    BY DEF PlanRow
  <1>2. CASE aircraft' = aircraft
    BY <1>2
  <1>3. ASSUME NEW a \in AircraftId, NEW new \in AircraftRow,
               ~ExplicitIds => aircraft[a] = None,
               aircraft' = [aircraft EXCEPT ![a] = new]
        PROVE  Fits(aircraft', row)
    <2>1. new # None
      BY NoneAssumption
    <2>2. CASE row.ac = a
      BY <1>1, <1>3, <2>1, <2>2 DEF Fits, TypeInv, TypeOK, TablesOK
    <2>3. CASE row.ac # a
      BY <1>1, <1>3, <2>3 DEF Fits, TypeInv, TypeOK, TablesOK
    <2> QED
      BY <2>2, <2>3
  <1> QED
    BY <1>2, <1>3 DEF AircraftStep

\* Move and Accept keep the aircraft type and the cruise of a plan.
LEMMA FitsKept ==
  ASSUME NEW types, NEW row \in PlanRow, Fits(types, row)
  PROVE  /\ \A to \in Targets : Fits(types, Transition(row, to))
         /\ \A h \in HandoffRow : Fits(types, TakeControl(row, h))
  BY DEF Fits, Transition, TakeControl, PlanRow

\* Rows, and the copies that are about to be stored, fit their aircraft.
LEMMA FitInvariant == Spec => []FitInv
  <1>1. Init => FitInv
    BY InitialAssumption DEF Init, FitInv, Fits, Filed, Idle, Checked, HoldsRow
  <1>2. TypeInv /\ FitInv /\ [Next]_vars => FitInv'
    <2> SUFFICES ASSUME TypeInv, FitInv, RowStep
                 PROVE  FitInv'
      BY NextRow
    <2> USE DEF RowStep
    <2>r. /\ \A p \in PlanId : Filed(p) => plans[p] \in PlanRow
          /\ \A w \in Handler : req[w].pc \in HoldsRow => req[w].row \in PlanRow
      BY DEF TypeInv, TypeOK, TablesOK, Filed, Holding
    <2>1. ASSUME NEW p \in PlanId, Filed(p)'
          PROVE  Fits(aircraft', plans'[p])
      <3>1. CASE plans' = plans
        BY <2>1, <2>r, <3>1, FitsStable DEF FitInv, Filed
      <3>2. ASSUME NEW w \in Handler, req[w].pc \in Checked,
                   plans' = [plans EXCEPT ![req[w].plan] = req[w].row]
            PROVE  Fits(aircraft', plans'[p])
        <4>1. plans'[p] = plans[p] \/ plans'[p] = req[w].row
          BY <3>2 DEF TypeInv, TypeOK, TablesOK
        <4>2. Fits(aircraft', req[w].row)
          BY <2>r, <3>2, FitsStable DEF FitInv, Checked
        <4> QED
          BY <2>1, <2>r, <4>1, <4>2, FitsStable DEF FitInv, Filed
      <3> QED
        BY <3>1, <3>2 DEF PlanStep
    <2>2. ASSUME NEW w \in Handler, req'[w].pc \in Checked
          PROVE  Fits(aircraft', req'[w].row)
      <3>1. ASSUME NEW p \in PlanId, NEW to \in Targets, plans[p] # None,
                   req'[w].row = Transition(plans[p], to)
            PROVE  Fits(aircraft', req'[w].row)
        BY <2>r, <3>1, FitsStable, FitsKept DEF FitInv, Filed
      <3>2. ASSUME NEW p \in PlanId, NEW h \in HandoffRow, plans[p] # None,
                   req'[w].row = TakeControl(plans[p], h)
            PROVE  Fits(aircraft', req'[w].row)
        BY <2>r, <3>2, FitsStable, FitsKept DEF FitInv, Filed
      <3>3. CASE /\ req'[w].row = req[w].row
                 /\ req[w].pc \in HoldsRow
                 /\ req[w].pc \in Checked \/ ValidateEnvelope(req[w].row)
        <4>1. Fits(aircraft, req[w].row)
          BY <3>3 DEF FitInv, ValidateEnvelope, Fits
        <4> QED
          BY <2>r, <3>3, <4>1, FitsStable
      <3> QED
        BY <2>2, <3>1, <3>2, <3>3 DEF CopyStep, Checked
    <2> QED
      BY <2>1, <2>2 DEF FitInv, Fits
  <1> QED
    BY <1>1, <1>2, Typed, PTL DEF Spec

\* When clients do not choose ids, every stored plan cruises inside the
\* envelope of its aircraft type (File, ValidateEnvelope).
THEOREM EnvelopesRespected == Spec => []EnvelopeRespected
  <1>1. FitInv => EnvelopeRespected
    BY DEF FitInv, Fits, EnvelopeRespected
  <1> QED
    BY <1>1, FitInvariant, PTL
=============================================================================
