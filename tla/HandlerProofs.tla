---------------------------- MODULE HandlerProofs ---------------------------
(***************************************************************************)
(* Theorems about any number of handlers, with or without failing          *)
(* statements and restarts: references, evidence of conflicts, handoffs,   *)
(* answers.                                                                *)
(***************************************************************************)
EXTENDS ServiceSteps, FiniteSetTheorems

-----------------------------------------------------------------------------
(* What a request holds stays what it is.                                  *)

\* A plan is never removed.
LEMMA FiledStays ==
  ASSUME TypeInv, [Next]_vars, NEW p \in PlanId, Filed(p)
  PROVE  Filed(p)'
  <1>1. CASE plans' = plans
    BY <1>1 DEF Filed
  <1>2. ASSUME NEW w \in Handler, req[w].pc \in Checked,
               plans' = [plans EXCEPT ![req[w].plan] = req[w].row]
        PROVE  Filed(p)'
    <2>1. req[w].row # None
      BY <1>2, NextType, NoneAssumption DEF Holding, Checked
    <2> QED
      BY <1>2, <2>1 DEF Filed, TypeInv, TypeOK, TablesOK
  <1> QED
    BY <1>1, <1>2, NextRow DEF RowStep, PlanStep

\* Steps that read leave the tables alone.
LEMMA ReadsKeep ==
  ASSUME NEW o, NEW r, Reads(o, r)
  PROVE  UNCHANGED tables
  BY DEF Reads, Refuses, Begins, BeginsFile, BeginsMove, BeginsReport, BeginsInitiate,
     BeginsAccept, BeginsReconcile, ChecksType, ChecksOrder, ChecksPending, ReadsFlight,
     ListsActive, ReadsTrack

\* Neither is a report.
LEMMA TracksStay ==
  ASSUME TypeInv, [Next]_vars, NEW p \in PlanId
  PROVE  tracks[p] \subseteq tracks'[p]
  <1>1. CASE tracks' = tracks
    BY <1>1
  <1>2. ASSUME NEW w \in Handler, AddsTrack(req[w], req'[w])
        PROVE  tracks[p] \subseteq tracks'[p]
    BY <1>2 DEF AddsTrack, TypeInv, TypeOK, TablesOK
  <1>3. ASSUME NEW w \in Handler, Writes(req[w], req'[w]), ~AddsTrack(req[w], req'[w])
        PROVE  tracks' = tracks
    BY <1>3 DEF Writes, Registers, PutsFiled, PutsMoved, PutsControl, PutsPlan, Logs,
       Replaces, MakesOffer, Completes, Cancels, PutsHandoff
  <1>4. ASSUME NEW w \in Handler, StepOf(w)
        PROVE  tracks[p] \subseteq tracks'[p]
    BY <1>1, <1>2, <1>3, <1>4, ReadsKeep DEF StepOf, tables
  <1> QED
    BY <1>1, <1>4, NextStep DEF vars, Restart, tables

-----------------------------------------------------------------------------
(* References.                                                             *)

\* Rows that a request will insert, and the plan they refer to.
Refers(r) ==
  /\ r.pc \in HoldsTrack \cup {"move_event"} => Filed(r.plan)
  /\ r.pc \in HoldsHandoff => Filed(r.hand.plan)
  /\ \A e \in r.hs : Filed(e.row.plan)
  /\ \A s \in r.seen : Filed(s.plan)

RefInv ==
  /\ \A p \in PlanId : tracks[p] # {} => Filed(p)
  /\ \A h \in HandoffId : Offered(h) => Filed(handoffs[h].plan)
  /\ \A e \in events : Filed(e.plan)
  /\ \A c \in conflicts : Filed(c.a) /\ Filed(c.b)
  /\ \A w \in Handler : Refers(req[w])

\* A request that does not move keeps what it refers to.
LEMMA RefersStays ==
  ASSUME TypeInv, [Next]_vars, NEW w \in Handler, Refers(req[w]), req'[w] = req[w]
  PROVE  Refers(req[w])'
  <1> req[w] \in Request /\ Holding(req[w])
    BY NextType
  <1>1. req[w].pc \in HoldsTrack \cup {"move_event"} => req[w].plan \in PlanId
    BY DEF Holding, HoldsPlan, HoldsTrack
  <1>2. req[w].pc \in HoldsHandoff => req[w].hand.plan \in PlanId
    BY DEF Holding, HandoffRow
  <1>3. \A e \in req[w].hs : e.row.plan \in PlanId
    BY DEF Request, HandoffRow
  <1>4. \A s \in req[w].seen : s.plan \in PlanId
    BY DEF Request
  <1> QED
    BY <1>1, <1>2, <1>3, <1>4, FiledStays DEF Refers

\* The rows that were read refer to filed plans, so the request does.
LEMMA RefersReads ==
  ASSUME TypeInv, RefInv, [Next]_vars, NEW w \in Handler, Reads(req[w], req'[w])
  PROVE  Refers(req[w])'
  <1> DEFINE o == req[w]
             r == req'[w]
  <1>u. plans' = plans
    BY ReadsKeep DEF tables
  <1>o. o \in Request /\ Holding(o) /\ Refers(o)
    BY NextType DEF RefInv
  <1> SUFFICES Refers(r)
    BY <1>u DEF Refers, Filed
  <1> USE DEF Refers, HoldsTrack, HoldsHandoff, Begins, Passes, Held
  <1>1. CASE Refuses(o, r)
    BY <1>1 DEF Refuses, Ends
  <1>2. CASE BeginsFile(o, r) \/ BeginsMove(o, r) \/ BeginsReport(o, r)
    BY <1>2 DEF BeginsFile, BeginsMove, BeginsReport, Filed
  <1>3. CASE BeginsInitiate(o, r)
    BY <1>3 DEF BeginsInitiate, Filed
  <1>4. CASE BeginsAccept(o, r)
    <2>1. handoffs[r.hid] \in HandoffRow /\ Filed(handoffs[r.hid].plan)
      BY <1>4 DEF BeginsAccept, RefInv, Offered, TypeInv, TypeOK, TablesOK
    <2>2. r.hand.plan = handoffs[r.hid].plan
      BY <1>4, <2>1 DEF BeginsAccept, Accept, HandoffRow
    <2> QED
      BY <1>4, <2>1, <2>2 DEF BeginsAccept
  <1>5. CASE BeginsReconcile(o, r)
    <2>1. \A e \in Unsettled : Filed(e.row.plan)
      <3> TAKE e \in Unsettled
      <3>1. PICK h \in HandoffId : handoffs[h] # None /\ e.row = CancelUnaccepted(handoffs[h])
        BY DEF Unsettled
      <3>2. handoffs[h] \in HandoffRow /\ Filed(handoffs[h].plan)
        BY <3>1 DEF RefInv, Offered, TypeInv, TypeOK, TablesOK
      <3> QED
        BY <3>1, <3>2 DEF CancelUnaccepted, HandoffRow
    <2> QED
      BY <1>5, <2>1 DEF BeginsReconcile, AfterCancel
  <1>6. CASE ChecksType(o, r) \/ ChecksOrder(o, r) \/ ChecksPending(o, r)
    BY <1>o, <1>6 DEF ChecksType, ChecksOrder, ChecksPending
  <1>7. CASE ReadsFlight(o, r)
    BY <1>o, <1>7 DEF ReadsFlight
  <1>8. CASE ListsActive(o, r)
    BY <1>o, <1>8 DEF ListsActive, AfterRead
  <1>9. CASE ReadsTrack(o, r)
    <2>1. PICK p \in o.todo :
            /\ r.pc = AfterRead(o.todo \ {p})
            /\ r.seen \subseteq o.seen \cup {[plan |-> p, geo |-> t.geo] : t \in LatestTrack(p)}
      BY <1>9 DEF ReadsTrack
    <2>2. p \in PlanId
      BY <1>o DEF Request
    <2>3. LatestTrack(p) # {} => Filed(p)
      BY <2>2 DEF LatestTrack, RefInv
    <2>4. \A s \in r.seen : Filed(s.plan)
      BY <1>o, <2>1, <2>3
    <2> QED
      BY <1>o, <1>9, <2>1, <2>4 DEF ReadsTrack, AfterRead
  <1> QED
    BY <1>1, <1>2, <1>3, <1>4, <1>5, <1>6, <1>7, <1>8, <1>9 DEF Reads

\* A request that writes refers to what it did, and a plan that was written.
LEMMA RefersWrites ==
  ASSUME TypeInv, RefInv, [Next]_vars, NEW w \in Handler, Writes(req[w], req'[w])
  PROVE  Refers(req[w])'
  <1> DEFINE o == req[w]
             r == req'[w]
  <1>o. o \in Request /\ Holding(o) /\ Refers(o)
    BY NextType DEF RefInv
  <1>p. /\ o.pc \in HoldsHandoff => plans'[o.hand.plan] # None
        /\ \A e \in o.hs : Filed(e.row.plan)'
        /\ \A s \in o.seen : Filed(s.plan)'
    <2>1. o.pc \in HoldsHandoff => o.hand.plan \in PlanId
      BY <1>o DEF Holding, HandoffRow
    <2>2. \A e \in o.hs : e.row.plan \in PlanId
      BY <1>o DEF Request, HandoffRow
    <2>3. \A s \in o.seen : s.plan \in PlanId
      BY <1>o DEF Request
    <2>4. \A p \in PlanId : Filed(p) => plans'[p] # None
      BY FiledStays DEF Filed
    <2> QED
      BY <1>o, <2>1, <2>2, <2>3, <2>4 DEF Refers, Filed
  <1> USE DEF Filed, Refers, HoldsTrack, HoldsHandoff, Passes, Held
  <1>1. CASE Ends(r)
    BY <1>1 DEF Ends
  <1>2. CASE PutsMoved(o, r)
    <2>1. o.row # None /\ o.plan \in PlanId
      BY <1>o, <1>2, NoneAssumption DEF PutsMoved, Holding, HoldsPlan, HoldsRow
    <2>2. Filed(o.plan)'
      BY <1>2, <2>1 DEF PutsMoved, PutsPlan, Filed, TypeInv, TypeOK, TablesOK
    <2> QED
      BY <1>p, <1>2, <2>2 DEF PutsMoved
  <1>3. CASE PutsControl(o, r)
    BY <1>p, <1>3 DEF PutsControl
  <1>4. CASE AddsTrack(o, r)
    BY <1>p, <1>4 DEF AddsTrack
  <1>5. CASE Cancels(o, r)
    BY <1>p, <1>5 DEF Cancels, AfterCancel
  <1> QED
    BY <1>1, <1>2, <1>3, <1>4, <1>5
    DEF Writes, Registers, PutsFiled, Logs, Replaces, MakesOffer, Completes

\* Rows that are in the tables after a step refer to filed plans.
LEMMA TablesRefer ==
  ASSUME TypeInv, RefInv, [Next]_vars, NEW w \in Handler, Writes(req[w], req'[w])
  PROVE  /\ \A p \in PlanId : tracks'[p] # {} => Filed(p)'
         /\ \A h \in HandoffId : Offered(h)' => Filed(handoffs[h].plan)'
         /\ \A e \in events' : Filed(e.plan)'
         /\ \A c \in conflicts' : Filed(c.a)' /\ Filed(c.b)'
  <1> DEFINE o == req[w]
             r == req'[w]
  <1>o. o \in Request /\ Holding(o) /\ Refers(o)
    BY NextType DEF RefInv
  <1>t. /\ \A p \in PlanId : tracks[p] # {} => Filed(p)'
        /\ \A h \in HandoffId : Offered(h) =>
             handoffs[h].plan \in PlanId /\ Filed(handoffs[h].plan) /\ plans'[handoffs[h].plan] # None
        /\ \A e \in events : Filed(e.plan)'
        /\ \A c \in conflicts : Filed(c.a)' /\ Filed(c.b)'
    <2>1. \A p \in PlanId : Filed(p) => plans'[p] # None
      BY FiledStays DEF Filed
    <2>2. \A h \in HandoffId : Offered(h) => handoffs[h].plan \in PlanId
      BY DEF Offered, TypeInv, TypeOK, TablesOK, HandoffRow
    <2>3. \A e \in events : e.plan \in PlanId
      BY DEF TypeInv, TypeOK, TablesOK, EventRow
    <2>4. \A c \in conflicts : c.a \in PlanId /\ c.b \in PlanId
      BY DEF TypeInv, TypeOK, TablesOK, ConflictRow
    <2> QED
      BY <2>1, <2>2, <2>3, <2>4 DEF RefInv, Filed
  <1> USE DEF Filed, Offered
  <1>1. CASE UNCHANGED <<tracks, handoffs, conflicts, events>>
    BY <1>t, <1>1
  <1>2. CASE AddsTrack(o, r)
    <2>1. plans[o.plan] # None /\ o.plan \in PlanId
      BY <1>o, <1>2 DEF AddsTrack, Passes, Refers, HoldsTrack, Holding, HoldsPlan
    <2> QED
      BY <1>t, <1>2, <2>1 DEF AddsTrack, TypeInv, TypeOK, TablesOK
  <1>3. CASE Logs(o, r)
    <2>1. plans[o.plan] # None
      BY <1>o, <1>3 DEF Logs, Refers
    <2> QED
      BY <1>t, <1>3, <2>1 DEF Logs
  <1>4. CASE Replaces(o, r)
    <2>1. \A c \in Detect(o.seen) : plans[c.a] # None /\ plans[c.b] # None
      BY <1>o DEF Detect, Refers
    <2> QED
      BY <1>t, <1>4, <2>1 DEF Replaces
  <1>5. ASSUME NEW h \in HandoffId, NEW row, PutsHandoff(h, row), plans[row.plan] # None
        PROVE  /\ \A p \in PlanId : tracks'[p] # {} => Filed(p)'
               /\ \A g \in HandoffId : Offered(g)' => Filed(handoffs[g].plan)'
               /\ \A e \in events' : Filed(e.plan)'
               /\ \A c \in conflicts' : Filed(c.a)' /\ Filed(c.b)'
    BY <1>t, <1>5 DEF PutsHandoff, TypeInv, TypeOK, TablesOK
  <1>6. CASE MakesOffer(o, r) \/ Completes(o, r)
    <2>1. plans[o.hand.plan] # None /\ o.hid \in HandoffId
      BY <1>o, <1>6 DEF MakesOffer, Completes, Refers, HoldsHandoff, Holding
    <2> QED
      BY <1>5, <1>6, <2>1 DEF MakesOffer, Completes
  <1>7. CASE Cancels(o, r)
    <2>1. PICK e \in o.hs : PutsHandoff(e.id, e.row)
      BY <1>7 DEF Cancels
    <2>2. e.id \in HandoffId /\ plans[e.row.plan] # None
      BY <1>o DEF Request, Refers
    <2> QED
      BY <1>5, <2>1, <2>2
  <1> QED
    BY <1>1, <1>2, <1>3, <1>4, <1>6, <1>7
    DEF Writes, Registers, PutsFiled, PutsMoved, PutsControl, PutsPlan

\* Flight plans are never removed, so every reference stays intact.
LEMMA RefInvNext == TypeInv /\ RefInv /\ [Next]_vars => RefInv'
  <1> SUFFICES ASSUME TypeInv, RefInv, [Next]_vars
               PROVE  RefInv'
    OBVIOUS
  <1>1. CASE UNCHANGED vars
    BY <1>1 DEF vars, RefInv, Refers, Filed, Offered
  <1>2. CASE Restart
    BY <1>2 DEF Restart, tables, RefInv, Refers, Filed, Offered, Idle, HoldsTrack, HoldsHandoff
  <1>3. ASSUME NEW w \in Handler, StepOf(w)
        PROVE  RefInv'
    <2>1. \A v \in Handler \ {w} : Refers(req[v])'
      BY <1>3, RefersStays DEF StepOf, RefInv
    <2>2. Refers(req[w])'
      BY <1>3, RefersReads, RefersWrites DEF StepOf
    <2>3. CASE Reads(req[w], req'[w])
      BY <2>1, <2>2, <2>3, ReadsKeep DEF tables, RefInv, Filed, Offered
    <2>4. CASE Writes(req[w], req'[w])
      BY <2>1, <2>2, <2>4, TablesRefer DEF RefInv
    <2> QED
      BY <1>3, <2>3, <2>4 DEF StepOf
  <1> QED
    BY <1>1, <1>2, <1>3, NextStep

\* References are intact, and so are those that requests hold.
LEMMA RefInvariant == Spec => []RefInv
  <1>1. Init => RefInv
    BY DEF Init, RefInv, Refers, Offered, Idle, HoldsTrack, HoldsHandoff
  <1> QED
    BY <1>1, RefInvNext, Typed, PTL DEF Spec

\* No table ever refers to a plan or an aircraft type that is not there,
\* although no foreign key says so: what a request has read before it inserts is
\* never removed (File, Report, InitiateHandoff, refresh, Reconcile).
THEOREM ReferencesIntact == Spec => []ReferentialIntegrity
  <1>1. RefInv /\ FitInv => ReferentialIntegrity
    BY DEF RefInv, FitInv, Fits, ReferentialIntegrity
  <1> QED
    BY <1>1, RefInvariant, FitInvariant, PTL

-----------------------------------------------------------------------------
(* Evidence of conflicts.                                                  *)

\* What refresh has read of a flight is the geometry of a stored report.
Stored(s) == \E t \in tracks[s.plan] : t.geo = s.geo

EvidenceInv ==
  /\ \A w \in Handler : \A s \in req[w].seen : Stored(s)
  /\ ConflictEvidence

\* What a request has seen grows by what is stored.
LEMMA SeenStored ==
  ASSUME TypeInv, NEW w \in Handler, StepOf(w), NEW s \in req'[w].seen
  PROVE  s \in req[w].seen \/ Stored(s)
  <1> DEFINE o == req[w]
             r == req'[w]
  <1>1. CASE Ends(r) \/ Begins(o, r)
    BY <1>1 DEF Ends, Begins
  <1>2. CASE ReadsTrack(o, r)
    <2>1. PICK p \in o.todo :
            r.seen \subseteq o.seen \cup {[plan |-> p, geo |-> t.geo] : t \in LatestTrack(p)}
      BY <1>2 DEF ReadsTrack
    <2>2. LatestTrack(p) \subseteq tracks[p]
      BY DEF LatestTrack
    <2> QED
      BY <2>1, <2>2 DEF Stored
  <1>3. CASE r.seen = o.seen
    BY <1>3
  <1> QED
    BY <1>1, <1>2, <1>3
    DEF StepOf, Reads, Writes, Refuses, BeginsFile, BeginsMove, BeginsReport,
        BeginsInitiate, BeginsAccept, BeginsReconcile, ChecksType, ChecksOrder,
        ChecksPending, ReadsFlight, ListsActive, Registers, PutsFiled, PutsMoved,
        PutsControl, Logs, AddsTrack, Replaces, MakesOffer, Completes, Cancels, Passes

\* Reports are never removed, and conflicts are found in what refresh has read.
LEMMA EvidenceNext == TypeInv /\ EvidenceInv /\ [Next]_vars => EvidenceInv'
  <1> SUFFICES ASSUME TypeInv, EvidenceInv, [Next]_vars
               PROVE  EvidenceInv'
    OBVIOUS
  <1>t. \A p \in PlanId : tracks[p] \subseteq tracks'[p]
    BY TracksStay
  <1>s. \A w \in Handler : \A s \in req[w].seen : s.plan \in PlanId /\ Stored(s)
    BY NextType DEF Request, EvidenceInv
  <1>k. \A w \in Handler : \A s \in req[w].seen : Stored(s)'
    BY <1>s, <1>t DEF Stored
  <1>1. CASE UNCHANGED vars \/ Restart
    BY <1>1 DEF vars, Restart, tables, Idle, EvidenceInv, Stored, ConflictEvidence
  <1>2. ASSUME NEW w \in Handler, StepOf(w)
        PROVE  EvidenceInv'
    <2>1. ASSUME NEW v \in Handler, NEW s \in req'[v].seen
          PROVE  \E t \in tracks'[s.plan] : t.geo = s.geo
      <3>1. s \in req[v].seen \/ Stored(s)
        BY <1>2, <2>1, SeenStored DEF StepOf
      <3>2. s.plan \in PlanId
        BY <2>1, NextTypeInv DEF TypeInv, TypeOK, Request
      <3> QED
        BY <1>s, <1>t, <3>1, <3>2 DEF Stored
    <2>2. CASE conflicts' = conflicts
      <3>1. \A c \in conflicts : c.a \in PlanId /\ c.b \in PlanId
        BY DEF TypeInv, TypeOK, TablesOK, ConflictRow
      <3>2. ConflictEvidence'
        BY <1>t, <2>2, <3>1 DEF EvidenceInv, ConflictEvidence
      <3> QED
        BY <2>1, <3>2 DEF EvidenceInv, Stored
    <2>3. CASE Replaces(req[w], req'[w])
      <3>1. \A c \in Detect(req[w].seen) :
              /\ c.a < c.b
              /\ \E t \in tracks'[c.a], u \in tracks'[c.b] : <<t.geo, u.geo>> \in LossPairs
        BY <1>k DEF Detect, Stored
      <3>2. ConflictEvidence'
        BY <2>3, <3>1 DEF Replaces, ConflictEvidence
      <3> QED
        BY <2>1, <3>2 DEF EvidenceInv, Stored
    <2> QED
      BY <1>2, <2>2, <2>3, ReadsKeep
      DEF StepOf, tables, Writes, Registers, PutsFiled, PutsMoved, PutsControl, PutsPlan,
          Logs, AddsTrack, MakesOffer, Completes, Cancels, PutsHandoff
  <1> QED
    BY <1>1, <1>2, NextStep

\* Every conflict in the table is backed by two stored reports that lose
\* separation, however many refreshes run beside each other and whichever of
\* them writes last (refresh, ReplaceConflicts).
THEOREM ConflictsBacked == Spec => []ConflictEvidence
  <1>1. Init => EvidenceInv
    BY DEF Init, Idle, EvidenceInv, ConflictEvidence
  <1>2. EvidenceInv => ConflictEvidence
    BY DEF EvidenceInv
  <1> QED
    BY <1>1, <1>2, EvidenceNext, Typed, PTL DEF Spec

-----------------------------------------------------------------------------
(* Answers.                                                                *)

\* A request in flight has no answer yet, and none that may still be refused
\* has written.
AnswerInv ==
  \A w \in Handler : req[w].pc # "idle" =>
    /\ req[w].resp = "none"
    /\ req[w].pc \in Refusing => ~req[w].wrote

\* The handler that moves stays unanswered, or answers as it may.
LEMMA AnswerStepOf ==
  ASSUME TypeInv, AnswerInv, NEW w \in Handler, StepOf(w)
  PROVE  /\ req'[w].pc # "idle" =>
              /\ req'[w].resp = "none"
              /\ req'[w].pc \in Refusing => ~req'[w].wrote
         /\ req'[w].resp \in {"notfound", "rejected"} /\ req[w].pc # "idle" =>
              ~req[w].wrote /\ UNCHANGED tables
  <1> DEFINE o == req[w]
             r == req'[w]
  <1>1. CASE Refuses(o, r)
    BY <1>1 DEF Refuses, Ends, AnswerInv
  <1>2. CASE Begins(o, r)
    BY <1>2 DEF Begins
  <1>3. ASSUME o.pc # "idle", r.resp = o.resp, r.pc \notin Refusing
        PROVE  r.resp = "none"
    BY <1>3 DEF AnswerInv
  <1>4. CASE Ends(r) /\ r.resp = "ok"
    BY <1>4 DEF Ends
  <1> QED
    BY <1>1, <1>2, <1>3, <1>4
    DEF StepOf, Reads, Writes, BeginsFile, BeginsMove, BeginsReport,
        BeginsInitiate, BeginsAccept, BeginsReconcile, ChecksType, ChecksOrder,
        ChecksPending, ReadsFlight, ListsActive, ReadsTrack, Registers, PutsFiled,
        PutsMoved, PutsControl, Logs, AddsTrack, Replaces, MakesOffer, Completes,
        Cancels, Passes, Held, Refusing, AfterRead, AfterCancel

\* A request answered 404 or 422 has changed nothing, whatever statements fail
\* and whenever the process restarts (httpapi.fail, model.IsBusinessError).
THEOREM RejectionsChangeNothing == Spec => RejectedChangesNothing
  <1>1. Init => AnswerInv
    BY DEF Init, Idle, AnswerInv
  <1>2. TypeInv /\ AnswerInv /\ [Next]_vars => AnswerInv'
    BY NextStep, AnswerStepOf DEF vars, Restart, Idle, AnswerInv, StepOf
  <1>3. ASSUME TypeInv, AnswerInv, [Next]_vars, NEW w \in Handler,
               req'[w].resp \in {"notfound", "rejected"}, req[w].pc # "idle"
        PROVE  ~req[w].wrote /\ UNCHANGED tables
    <2>1. req[w].resp = "none"
      BY <1>3 DEF AnswerInv
    <2>2. ~UNCHANGED vars /\ ~Restart
      BY <1>3, <2>1 DEF vars, Restart, Idle
    <2>3. \A v \in Handler : StepOf(v) => v = w
      BY <1>3, <2>1 DEF StepOf
    <2> QED
      BY <1>3, <2>2, <2>3, NextStep, AnswerStepOf
  <1>4. TypeInv /\ AnswerInv /\ [Next]_vars =>
          [\A w \in Handler :
             req'[w].resp \in {"notfound", "rejected"} /\ req[w].pc # "idle" =>
               ~req[w].wrote /\ UNCHANGED tables]_vars
    BY <1>3
  <1> QED
    BY <1>1, <1>2, <1>4, Typed, PTL DEF Spec, RejectedChangesNothing

-----------------------------------------------------------------------------
(* Handoffs.                                                               *)

Accepting == {"accept_flight", "accept_putflight", "accept_puthandoff"}

Initiating == {"initiate_list", "initiate_put"}

\* Copies of one handoff, up to its state.
Same(g, h) == g.plan = h.plan /\ g.from = h.from /\ g.to = h.to

\* An Accept and a Reconcile hold a copy of a stored handoff with the state
\* they will write.
Copied(r) ==
  /\ r.pc \in Accepting =>
       /\ Offered(r.hid) /\ Same(handoffs[r.hid], r.hand)
       /\ r.hand.state = "COMPLETED"
  /\ \A e \in r.hs :
       Offered(e.id) /\ Same(handoffs[e.id], e.row) /\ e.row.state = "CANCELLED"

\* An Initiate holds an id that nobody else has and no row has got.
Fresh(w) ==
  /\ req[w].pc = "idle" => req[w].hid = None
  /\ req[w].pc \in Initiating =>
       /\ handoffs[req[w].hid] = None
       /\ req[w].hid # None
       /\ req[w].hand.plan = req[w].plan
       /\ \A v \in Handler : req[v].hid = req[w].hid => v = w

HandoffInv == \A w \in Handler : Copied(req[w]) /\ Fresh(w)

\* What a step may do to a stored handoff.
HandoffStep ==
  \A h \in HandoffId : Offered(h) =>
    /\ Offered(h)' /\ Same(handoffs[h], handoffs'[h])
    /\ handoffs[h].state # "INITIATED" => handoffs'[h].state # "INITIATED"

\* The rows of other tables do not matter to a handoff.
HandoffWrites(o, r) == MakesOffer(o, r) \/ Completes(o, r) \/ Cancels(o, r)

\* Only steps that write handoffs change them.
LEMMA HandoffsKept ==
  ASSUME NEW o, NEW r, Reads(o, r) \/ Writes(o, r), ~HandoffWrites(o, r)
  PROVE  handoffs' = handoffs
  BY ReadsKeep
  DEF tables, Writes, HandoffWrites, Registers, PutsFiled, PutsMoved, PutsControl,
      PutsPlan, Logs, AddsTrack, Replaces

\* A row that a request writes replaces one that was only offered, and leaves
\* it settled; a new row takes an id of its own.
LEMMA HandoffWritten ==
  ASSUME TypeInv, HandoffInv, NEW w \in Handler, HandoffWrites(req[w], req'[w])
  PROVE  \E h \in HandoffId, row \in HandoffRow :
           /\ handoffs' = [handoffs EXCEPT ![h] = row]
           /\ \/ MakesOffer(req[w], req'[w]) /\ handoffs[h] = None /\ h = req[w].hid
              \/ Offered(h) /\ Same(handoffs[h], row) /\ row.state # "INITIATED"
  <1> DEFINE o == req[w]
             r == req'[w]
  <1>o. o \in Request /\ Holding(o) /\ Copied(o) /\ Fresh(w)
    BY NextType DEF HandoffInv
  <1>1. CASE MakesOffer(o, r)
    BY <1>o, <1>1
    DEF MakesOffer, PutsHandoff, Holding, HoldsHandoff, Fresh, Initiating
  <1>2. CASE Completes(o, r)
    BY <1>o, <1>2
    DEF Completes, PutsHandoff, Holding, HoldsHandoff, Copied, Accepting
  <1>3. CASE Cancels(o, r)
    <2>1. PICK e \in o.hs : PutsHandoff(e.id, e.row)
      BY <1>3 DEF Cancels
    <2>2. e.id \in HandoffId /\ e.row \in HandoffRow
      BY <1>o DEF Request
    <2> QED
      BY <1>o, <2>1, <2>2 DEF PutsHandoff, Copied
  <1> QED
    BY <1>1, <1>2, <1>3 DEF HandoffWrites

\* Sameness is an equivalence.
LEMMA SameTwice ==
  ASSUME NEW g, NEW h, NEW k, Same(g, h)
  PROVE  Same(h, g) /\ (Same(g, k) <=> Same(h, k))
  BY DEF Same

\* Each step of a handler leaves handoffs alone, adds one, or settles one.
LEMMA HandoffStepOf ==
  ASSUME TypeInv, HandoffInv, NEW w \in Handler, StepOf(w)
  PROVE  HandoffStep
  <1>1. CASE handoffs' = handoffs
    BY <1>1 DEF HandoffStep, Offered, Same
  <1>2. CASE HandoffWrites(req[w], req'[w])
    <2>1. PICK h \in HandoffId, row \in HandoffRow :
            /\ handoffs' = [handoffs EXCEPT ![h] = row]
            /\ \/ handoffs[h] = None
               \/ Offered(h) /\ Same(handoffs[h], row) /\ row.state # "INITIATED"
      BY <1>2, HandoffWritten
    <2> QED
      BY <2>1, NoneAssumption DEF HandoffStep, Offered, Same, TypeInv, TypeOK, TablesOK
  <1> QED
    BY <1>1, <1>2, HandoffsKept DEF StepOf

\* A copy that a request keeps stays a copy.
LEMMA CopiedStays ==
  ASSUME TypeInv, HandoffInv, HandoffStep, NEW w \in Handler, NEW r,
         r.pc \in Accepting =>
           /\ req[w].pc \in Accepting /\ r.hid = req[w].hid /\ r.hand = req[w].hand,
         r.hs \subseteq req[w].hs
  PROVE  /\ r.pc \in Accepting =>
              /\ handoffs'[r.hid] # None /\ Same(handoffs'[r.hid], r.hand)
              /\ r.hand.state = "COMPLETED"
         /\ \A e \in r.hs : /\ handoffs'[e.id] # None /\ Same(handoffs'[e.id], e.row)
                            /\ e.row.state = "CANCELLED"
  <1>o. req[w] \in Request /\ Holding(req[w]) /\ Copied(req[w])
    BY NextType DEF HandoffInv
  <1>1. \A h \in HandoffId : \A c : Offered(h) /\ Same(handoffs[h], c) =>
          handoffs'[h] # None /\ Same(handoffs'[h], c)
    BY DEF HandoffStep, Offered, Same
  <1>2. req[w].pc \in Accepting => req[w].hid \in HandoffId
    BY <1>o DEF Holding, HoldsHandoff, Accepting
  <1>3. \A e \in req[w].hs : e.id \in HandoffId
    BY <1>o DEF Request
  <1> QED
    BY <1>o, <1>1, <1>2, <1>3 DEF Copied

\* The handler that moves holds copies of what is stored.
LEMMA CopiedMoves ==
  ASSUME TypeInv, HandoffInv, HandoffStep, NEW w \in Handler, StepOf(w)
  PROVE  Copied(req[w])'
  <1> DEFINE o == req[w]
             r == req'[w]
  <1> SUFFICES /\ r.pc \in Accepting =>
                    /\ handoffs'[r.hid] # None /\ Same(handoffs'[r.hid], r.hand)
                    /\ r.hand.state = "COMPLETED"
               /\ \A e \in r.hs : /\ handoffs'[e.id] # None
                                  /\ Same(handoffs'[e.id], e.row)
                                  /\ e.row.state = "CANCELLED"
    BY DEF Copied, Offered
  <1>1. CASE BeginsAccept(o, r)
    <2>1. handoffs[r.hid] \in HandoffRow /\ handoffs' = handoffs
      BY <1>1 DEF BeginsAccept, Begins, tables, TypeInv, TypeOK, TablesOK
    <2> QED
      BY <1>1, <2>1, HandoffRowType
      DEF BeginsAccept, Accept, Same, HandoffRow
  <1>2. CASE BeginsReconcile(o, r)
    <2>1. handoffs' = handoffs /\ r.pc \notin Accepting
      BY <1>2 DEF BeginsReconcile, Begins, tables, AfterCancel, Accepting
    <2>2. ASSUME NEW e \in Unsettled
          PROVE  /\ handoffs[e.id] # None /\ Same(handoffs[e.id], e.row)
                 /\ e.row.state = "CANCELLED"
      <3>1. PICK h \in HandoffId : /\ handoffs[h] # None
                                   /\ e = [id |-> h, row |-> CancelUnaccepted(handoffs[h])]
        BY <2>2 DEF Unsettled
      <3>2. handoffs[h] \in HandoffRow
        BY <3>1 DEF TypeInv, TypeOK, TablesOK
      <3> QED
        BY <3>1, <3>2 DEF CancelUnaccepted, HandoffRow, Same
    <2> QED
      BY <1>2, <2>1, <2>2 DEF BeginsReconcile
  <1>3. CASE /\ r.pc \in Accepting =>
                  o.pc \in Accepting /\ r.hid = o.hid /\ r.hand = o.hand
             /\ r.hs \subseteq o.hs
    BY <1>3, CopiedStays
  <1> QED
    BY <1>1, <1>2, <1>3
    DEF StepOf, Reads, Writes, Refuses, Ends, BeginsFile, BeginsMove, BeginsReport,
        BeginsInitiate, ChecksType, ChecksOrder, ChecksPending, ReadsFlight,
        ListsActive, ReadsTrack, Registers, PutsFiled, PutsMoved, PutsControl, Logs,
        AddsTrack, Replaces, MakesOffer, Completes, Cancels, Passes, Held, Accepting,
        AfterRead, AfterCancel

\* Where the handoff id of a request comes from.
LEMMA HidMoves ==
  ASSUME NEW w \in Handler, StepOf(w)
  PROVE  \/ req'[w].hid = req[w].hid
         \/ req'[w].hid = None
         \/ req[w].pc = "idle" /\ req'[w].hid \in FreshHandoffIds
         \/ Offered(req'[w].hid)
  BY DEF StepOf, Reads, Writes, Refuses, Ends, BeginsFile, BeginsMove, BeginsReport,
     BeginsInitiate, BeginsAccept, BeginsReconcile, Begins, ChecksType, ChecksOrder,
     ChecksPending, ReadsFlight, ListsActive, ReadsTrack, Registers, PutsFiled,
     PutsMoved, PutsControl, Logs, AddsTrack, Replaces, MakesOffer, Completes, Cancels,
     Passes, Held, Offered

\* The handler that moves draws an id nobody has, or keeps the one it drew.
LEMMA FreshMoves ==
  ASSUME TypeInv, HandoffInv, NEW w \in Handler, StepOf(w)
  PROVE  Fresh(w)'
  <1> DEFINE o == req[w]
             r == req'[w]
  <1>o. Fresh(w)
    BY DEF HandoffInv
  <1>v. \A v \in Handler \ {w} : req'[v] = req[v]
    BY DEF StepOf
  <1>1. r.pc = "idle" => r.hid = None
    BY DEF StepOf, Reads, Writes, Refuses, Ends, BeginsFile, BeginsMove, BeginsReport,
       BeginsInitiate, BeginsAccept, BeginsReconcile, ChecksType, ChecksOrder,
       ChecksPending, ReadsFlight, ListsActive, ReadsTrack, Registers, PutsFiled,
       PutsMoved, PutsControl, Logs, AddsTrack, Replaces, MakesOffer, Completes,
       Cancels, Passes, AfterRead, AfterCancel
  <1>2. CASE BeginsInitiate(o, r)
    <2>1. handoffs' = handoffs /\ o.pc = "idle"
      BY <1>2 DEF BeginsInitiate, Begins, tables
    <2>2. r.hid # None /\ handoffs[r.hid] = None /\ \A v \in Handler : req[v].hid # r.hid
      BY <1>2, <1>o, <2>1 DEF BeginsInitiate, FreshHandoffIds, Fresh
    <2> QED
      BY <1>1, <1>2, <1>v, <2>1, <2>2 DEF BeginsInitiate, Fresh
  <1>3. CASE ChecksPending(o, r)
    <2>1. handoffs' = handoffs
      BY <1>3 DEF ChecksPending, tables
    <2> QED
      BY <1>1, <1>3, <1>o, <1>v, <2>1
      DEF ChecksPending, Passes, Held, Fresh, Initiating
  <1>4. CASE r.pc \notin Initiating
    BY <1>1, <1>4 DEF Fresh
  <1> QED
    BY <1>2, <1>3, <1>4
    DEF StepOf, Reads, Writes, Refuses, Ends, BeginsFile, BeginsMove, BeginsReport,
        BeginsAccept, BeginsReconcile, ChecksType, ChecksOrder, ReadsFlight,
        ListsActive, ReadsTrack, Registers, PutsFiled, PutsMoved, PutsControl, Logs,
        AddsTrack, Replaces, MakesOffer, Completes, Cancels, Passes, Initiating,
        AfterRead, AfterCancel

\* Nobody else takes or uses the id that a request drew.
LEMMA FreshStays ==
  ASSUME TypeInv, HandoffInv, NEW w \in Handler, StepOf(w), NEW v \in Handler, v # w
  PROVE  Fresh(v)'
  <1>v. \A u \in Handler \ {w} : req'[u] = req[u]
    BY DEF StepOf
  <1>o. Fresh(v) /\ Fresh(w)
    BY DEF HandoffInv
  <1>1. CASE req[v].pc \in Initiating
    <2>1. handoffs'[req[v].hid] = None
      <3>1. CASE handoffs' = handoffs
        BY <1>1, <1>o, <3>1 DEF Fresh
      <3>2. CASE HandoffWrites(req[w], req'[w])
        <4>1. PICK h \in HandoffId, row \in HandoffRow :
                /\ handoffs' = [handoffs EXCEPT ![h] = row]
                /\ Offered(h) \/ h = req[w].hid
          BY <3>2, HandoffWritten
        <4>2. h # req[v].hid
          BY <1>1, <1>o, <4>1 DEF Fresh, Offered
        <4> QED
          BY <1>1, <1>o, <4>1, <4>2 DEF Fresh, TypeInv, TypeOK, TablesOK
      <3> QED
        BY <3>1, <3>2, HandoffsKept DEF StepOf
    <2>2. req'[w].hid # req[v].hid
      BY <1>1, <1>o, HidMoves DEF Fresh, FreshHandoffIds, Offered
    <2> QED
      BY <1>1, <1>o, <1>v, <2>1, <2>2 DEF Fresh
  <1>2. CASE req[v].pc \notin Initiating
    BY <1>2, <1>o, <1>v DEF Fresh
  <1> QED
    BY <1>1, <1>2

\* Copies stay true to what never changes of a handoff, and rows only settle.
LEMMA HandoffInvNext == TypeInv /\ HandoffInv /\ [Next]_vars => HandoffInv' /\ HandoffStep
  <1> SUFFICES ASSUME TypeInv, HandoffInv, [Next]_vars
               PROVE  HandoffInv' /\ HandoffStep
    OBVIOUS
  <1>1. CASE UNCHANGED vars
    BY <1>1 DEF vars, HandoffInv, HandoffStep, Copied, Fresh, Same, Offered
  <1>2. CASE Restart
    BY <1>2 DEF Restart, tables, Idle, HandoffInv, HandoffStep, Copied, Fresh, Same,
       Offered, Accepting, Initiating
  <1>3. ASSUME NEW w \in Handler, StepOf(w)
        PROVE  HandoffInv' /\ HandoffStep
    <2>1. HandoffStep
      BY <1>3, HandoffStepOf
    <2>2. ASSUME NEW v \in Handler, v # w
          PROVE  Copied(req[v])'
      BY <1>3, <2>1, <2>2, CopiedStays DEF StepOf, Copied, Offered
    <2> QED
      BY <1>3, <2>1, <2>2, CopiedMoves, FreshMoves, FreshStays DEF HandoffInv
  <1> QED
    BY <1>1, <1>2, <1>3, NextStep

\* Copies are true to what never changes of a handoff, and new ids are fresh.
LEMMA HandoffInvariant == Spec => [](TypeInv /\ HandoffInv)
  <1>1. Init => HandoffInv
    BY DEF Init, Idle, HandoffInv, Copied, Fresh, Accepting, Initiating
  <1> QED
    BY <1>1, HandoffInvNext, Typed, PTL DEF Spec

\* A handoff that has left INITIATED never returns to it and keeps its flight
\* and its sectors, whichever of Accept and Reconcile writes its stale row last
\* and however many run at once (AcceptHandoff, Reconcile, PutHandoff).
THEOREM HandoffsSettle == Spec => HandoffSettles
  <1>1. TypeInv /\ HandoffInv /\ [Next]_vars =>
          [\A h \in HandoffId : Offered(h) =>
             LET old == handoffs[h]  new == handoffs'[h] IN
               /\ [new EXCEPT !.state = old.state] = old
               /\ old.state # "INITIATED" => new.state # "INITIATED"]_vars
    <2> SUFFICES ASSUME TypeInv, HandoffInv, [Next]_vars, NEW h \in HandoffId, Offered(h)
                 PROVE  /\ [handoffs'[h] EXCEPT !.state = handoffs[h].state] = handoffs[h]
                        /\ handoffs[h].state # "INITIATED" =>
                             handoffs'[h].state # "INITIATED"
      OBVIOUS
    <2>1. Offered(h)' /\ Same(handoffs[h], handoffs'[h])
          /\ (handoffs[h].state # "INITIATED" => handoffs'[h].state # "INITIATED")
      BY HandoffInvNext DEF HandoffStep
    <2>2. handoffs[h] \in HandoffRow /\ handoffs'[h] \in HandoffRow
      BY <2>1, NextTypeInv DEF Offered, TypeInv, TypeOK, TablesOK
    <2> QED
      BY <2>1, <2>2 DEF Same, HandoffRow
  <1> QED
    BY <1>1, HandoffInvariant, PTL DEF Spec, HandoffSettles

-----------------------------------------------------------------------------
(* Pending handoffs of one flight.                                         *)

Pending(p) == {h \in HandoffId : PendingHandoff(h) /\ handoffs[h].plan = p}

\* Handlers that have found no pending handoff and are about to add one.
Offering(p) == {w \in Handler : req[w].pc = "initiate_put" /\ req[w].hand.plan = p}

\* A handler that has checked counts as a handoff already: the number of both
\* never grows past the number of handlers.
BoundInv ==
  \A p \in PlanId :
    /\ IsFiniteSet(Pending(p))
    /\ Cardinality(Pending(p)) + Cardinality(Offering(p)) <= Cardinality(Handler)

\* Fewer of each are no more of both.
LEMMA FewerBounded ==
  ASSUME NEW S, NEW T \in SUBSET S, NEW A, NEW B \in SUBSET A, NEW N \in Nat,
         IsFiniteSet(S), IsFiniteSet(A), Cardinality(S) + Cardinality(A) <= N
  PROVE  IsFiniteSet(T) /\ Cardinality(T) + Cardinality(B) <= N
  <1>1. IsFiniteSet(T) /\ Cardinality(T) <= Cardinality(S)
    BY FS_Subset
  <1>2. IsFiniteSet(B) /\ Cardinality(B) <= Cardinality(A)
    BY FS_Subset
  <1>3. /\ Cardinality(S) \in Nat /\ Cardinality(T) \in Nat
        /\ Cardinality(A) \in Nat /\ Cardinality(B) \in Nat
    BY <1>1, <1>2, FS_CardinalityType
  <1> QED
    BY <1>1, <1>2, <1>3

\* One that moves from A to S changes nothing.
LEMMA MovedBounded ==
  ASSUME NEW S, NEW x, NEW A, NEW a \in A, NEW N \in Nat,
         IsFiniteSet(S), IsFiniteSet(A), Cardinality(S) + Cardinality(A) <= N
  PROVE  IsFiniteSet(S \cup {x}) /\ Cardinality(S \cup {x}) + Cardinality(A \ {a}) <= N
  <1>1. /\ IsFiniteSet(S \cup {x})
        /\ Cardinality(S \cup {x}) \in {Cardinality(S), Cardinality(S) + 1}
    BY FS_AddElement, FS_CardinalityType
  <1>2. Cardinality(A \ {a}) = Cardinality(A) - 1
    BY FS_RemoveElement
  <1>3. Cardinality(S) \in Nat /\ Cardinality(A) \in Nat
    BY FS_CardinalityType
  <1> QED
    BY <1>1, <1>2, <1>3

\* A step adds no pending handoff but the one a handler offers.
LEMMA PendingStep ==
  ASSUME TypeInv, HandoffInv, NEW w \in Handler, StepOf(w), NEW p \in PlanId
  PROVE  \/ Pending(p)' \subseteq Pending(p)
         \/ /\ MakesOffer(req[w], req'[w]) /\ req[w].hand.plan = p
            /\ Pending(p)' \subseteq Pending(p) \cup {req[w].hid}
  <1> USE DEF Pending, PendingHandoff, Offered
  <1>1. CASE handoffs' = handoffs
    BY <1>1
  <1>2. CASE MakesOffer(req[w], req'[w])
    BY <1>2, NextType
    DEF MakesOffer, PutsHandoff, TypeInv, TypeOK, TablesOK, Holding, HoldsHandoff
  <1>3. CASE HandoffWrites(req[w], req'[w]) /\ ~MakesOffer(req[w], req'[w])
    <2>1. PICK h \in HandoffId, row \in HandoffRow :
            /\ handoffs' = [handoffs EXCEPT ![h] = row]
            /\ row.state # "INITIATED"
      BY <1>3, HandoffWritten
    <2> QED
      BY <2>1 DEF TypeInv, TypeOK, TablesOK
  <1> QED
    BY <1>1, <1>2, <1>3, HandoffsKept DEF StepOf

\* A step adds no handler that offers but one that found nothing pending.
LEMMA OfferingStep ==
  ASSUME TypeInv, HandoffInv, NEW w \in Handler, StepOf(w), NEW p \in PlanId
  PROVE  /\ MakesOffer(req[w], req'[w]) => Offering(p)' \subseteq Offering(p) \ {w}
         /\ \/ Offering(p)' \subseteq Offering(p)
            \/ ChecksPending(req[w], req'[w]) /\ req[w].plan = p
  <1>v. \A v \in Handler \ {w} : req'[v] = req[v]
    BY DEF StepOf
  <1>1. req'[w].pc = "initiate_put" => ChecksPending(req[w], req'[w])
    BY DEF StepOf, Reads, Writes, Refuses, Ends, BeginsFile, BeginsMove, BeginsReport,
       BeginsInitiate, BeginsAccept, BeginsReconcile, ChecksType, ChecksOrder,
       ReadsFlight, ListsActive, ReadsTrack, Registers, PutsFiled, PutsMoved,
       PutsControl, Logs, AddsTrack, Replaces, MakesOffer, Completes, Cancels, Passes,
       AfterRead, AfterCancel
  <1>2. ChecksPending(req[w], req'[w]) => req'[w].hand.plan = req[w].plan
    BY DEF ChecksPending, Passes, Held, HandoffInv, Fresh, Initiating
  <1>3. MakesOffer(req[w], req'[w]) => req'[w].pc = "idle"
    BY DEF MakesOffer, Ends
  <1> QED
    BY <1>v, <1>1, <1>2, <1>3 DEF Offering

\* A handoff that becomes pending was counted as one to be offered before.
LEMMA BoundNext ==
  ASSUME ~Faults, IsFiniteSet(Handler), TypeInv, HandoffInv, BoundInv, [Next]_vars
  PROVE  BoundInv'
  <1>n. Cardinality(Handler) \in Nat
    BY FS_CardinalityType
  <1> SUFFICES ASSUME NEW p \in PlanId
               PROVE  /\ IsFiniteSet(Pending(p)')
                      /\ Cardinality(Pending(p)') + Cardinality(Offering(p)')
                           <= Cardinality(Handler)
    BY DEF BoundInv
  <1>f. /\ IsFiniteSet(Pending(p)) /\ IsFiniteSet(Offering(p))
        /\ Cardinality(Pending(p)) + Cardinality(Offering(p)) <= Cardinality(Handler)
    <2>1. Offering(p) \subseteq Handler
      BY DEF Offering
    <2> QED
      BY <2>1, FS_Subset DEF BoundInv
  <1>1. CASE Pending(p)' \subseteq Pending(p) /\ Offering(p)' \subseteq Offering(p)
    BY <1>1, <1>f, <1>n, FewerBounded
  <1>2. CASE UNCHANGED vars \/ Restart
    <2>1. Pending(p)' \subseteq Pending(p) /\ Offering(p)' \subseteq Offering(p)
      BY <1>2 DEF vars, Restart, tables, Idle, Pending, PendingHandoff, Offered, Offering
    <2> QED
      BY <1>1, <2>1
  <1>3. ASSUME NEW w \in Handler, StepOf(w)
        PROVE  /\ IsFiniteSet(Pending(p)')
               /\ Cardinality(Pending(p)') + Cardinality(Offering(p)')
                    <= Cardinality(Handler)
    <2>1. CASE MakesOffer(req[w], req'[w]) /\ req[w].hand.plan = p
      <3>1. w \in Offering(p)
        BY <2>1 DEF MakesOffer, Offering
      <3>2. /\ IsFiniteSet(Pending(p) \cup {req[w].hid})
            /\ Cardinality(Pending(p) \cup {req[w].hid}) + Cardinality(Offering(p) \ {w})
                 <= Cardinality(Handler)
        BY <1>f, <1>n, <3>1, MovedBounded
      <3>3. IsFiniteSet(Offering(p) \ {w})
        BY <1>f, FS_Subset
      <3>4. /\ Pending(p)' \subseteq Pending(p) \cup {req[w].hid}
            /\ Offering(p)' \subseteq Offering(p) \ {w}
        BY <1>3, <2>1, PendingStep, OfferingStep
      <3> QED
        BY <1>n, <3>2, <3>3, <3>4, FewerBounded
    <2>2. CASE ChecksPending(req[w], req'[w]) /\ req[w].plan = p
      <3>1. Pending(p)' = {}
        BY <2>2 DEF ChecksPending, tables, HandoffPending, Pending, PendingHandoff, Offered
      <3>2. Offering(p)' \subseteq Handler
        BY DEF Offering
      <3>3. IsFiniteSet({}) /\ Cardinality({}) = 0
        BY FS_EmptySet
      <3>4. Cardinality(Offering(p)') <= Cardinality(Handler)
            /\ Cardinality(Offering(p)') \in Nat
        BY <3>2, FS_Subset, FS_CardinalityType
      <3> QED
        BY <1>n, <3>1, <3>3, <3>4
    <2>3. CASE ~(MakesOffer(req[w], req'[w]) /\ req[w].hand.plan = p)
               /\ ~(ChecksPending(req[w], req'[w]) /\ req[w].plan = p)
      BY <1>1, <1>3, <2>3, PendingStep, OfferingStep
    <2> QED
      BY <2>1, <2>2, <2>3
  <1> QED
    BY <1>2, <1>3, NextStep

\* Pending handoffs and those about to be offered are at most the handlers.
LEMMA BoundInvariant ==
  ASSUME ~Faults, IsFiniteSet(Handler)
  PROVE  Spec => []BoundInv
  <1>1. Init => BoundInv
    <2> SUFFICES ASSUME Init, NEW p \in PlanId
                 PROVE  /\ IsFiniteSet(Pending(p))
                        /\ Cardinality(Pending(p)) + Cardinality(Offering(p))
                             <= Cardinality(Handler)
      BY DEF BoundInv
    <2>1. Pending(p) = {} /\ Offering(p) = {}
      BY DEF Init, Idle, Pending, PendingHandoff, Offered, Offering
    <2> QED
      BY <2>1, FS_EmptySet, FS_CardinalityType
  <1>2. TypeInv /\ HandoffInv /\ BoundInv /\ [Next]_vars => BoundInv'
    BY BoundNext
  <1> QED
    BY <1>1, <1>2, HandoffInvariant, PTL DEF Spec

\* However requests race, a flight has no more pending handoffs than there are
\* handlers, whether or not they serve a request: the check of InitiateHandoff
\* may be stale when the row is written, but only by the handlers that checked
\* beside it.  It takes the list it checks to be read: with a swallowed error
\* there is no bound.
THEOREM PendingIsBounded ==
  ASSUME ~Faults, IsFiniteSet(Handler)
  PROVE  Spec => []PendingBounded
  <1>1. BoundInv => PendingBounded
    <2> SUFFICES ASSUME BoundInv, NEW p \in PlanId
                 PROVE  Cardinality(Pending(p)) <= Cardinality(Handler)
      BY DEF PendingBounded, Pending
    <2>1. Offering(p) \subseteq Handler
      BY DEF Offering
    <2>2. Cardinality(Offering(p)) \in Nat /\ Cardinality(Pending(p)) \in Nat
          /\ Cardinality(Handler) \in Nat
      BY <2>1, FS_Subset, FS_CardinalityType DEF BoundInv
    <2> QED
      BY <2>2 DEF BoundInv
  <1> QED
    BY <1>1, BoundInvariant, PTL
=============================================================================
