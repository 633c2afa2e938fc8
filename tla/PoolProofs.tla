----------------------------- MODULE PoolProofs -----------------------------
(***************************************************************************)
(* Theorems about the pool, for any number of callers, conflicts and       *)
(* batches, with failures and stops: connection and mutex never leak, and  *)
(* the store implements ConflictTable.                                     *)
(***************************************************************************)
EXTENDS Pool, TLAPS

-----------------------------------------------------------------------------
(* The invariant.                                                          *)

ReplaceFrame ==
  [pc : {"lock", "begin", "delete", "insert", "rollback"},
   cs : SUBSET Row, rows : SUBSET Row]

ListFrame == [pc : {"query", "rows"}, rows : SUBSET Row]

StatementFrame == [pc : {"acquire", "exec"}]

Frame == {Idle} \cup ReplaceFrame \cup ListFrame \cup StatementFrame

TypeInv ==
  /\ table \in SUBSET Row
  /\ txn \in SUBSET Row
  /\ conn \in Client \cup {None}
  /\ mu \in Client \cup {None}
  /\ call \in [Client -> Frame]
  /\ answer \in [Client -> {None} \cup SUBSET Row]

Owned ==
  \A c \in Client : (conn = c <=> HasConn(c)) /\ (mu = c <=> HasMutex(c))

\* What a frame knows: a replacement has not begun, or its transaction holds
\* what it has inserted; a list holds the beginning of the table.
Knows(f) ==
  /\ f.pc \in {"lock", "begin", "delete"} => f.rows = f.cs
  /\ f.pc = "insert" => f.rows \subseteq f.cs /\ txn = f.cs \ f.rows
  /\ f.pc = "query" => f.rows = {}
  /\ f.pc = "rows" =>
       /\ f.rows \subseteq table
       /\ \A r \in f.rows, s \in table : s < r => s \in f.rows

Informed == \A c \in Client : Knows(call[c])

IInv == TypeInv /\ Owned /\ Informed

-----------------------------------------------------------------------------
(* Frames.                                                                 *)

\* The statement a frame is at says which fields it has.
LEMMA FrameShape ==
  ASSUME NEW f \in Frame
  PROVE  /\ f.pc = "idle" <=> f = Idle
         /\ f.pc \in {"lock", "begin", "delete", "insert", "rollback"} <=> f \in ReplaceFrame
         /\ f.pc \in {"query", "rows"} <=> f \in ListFrame
         /\ f.pc \in {"acquire", "exec"} <=> f \in StatementFrame
  BY DEF Frame, Idle, ReplaceFrame, ListFrame, StatementFrame

\* A frame that goes on within its method is a frame.
LEMMA FrameGoto ==
  ASSUME NEW f \in Frame, NEW pc,
         \/ /\ f \in ReplaceFrame
            /\ pc \in {"lock", "begin", "delete", "insert", "rollback"}
         \/ f \in ListFrame /\ pc \in {"query", "rows"}
         \/ f \in StatementFrame /\ pc \in {"acquire", "exec"}
  PROVE  [f EXCEPT !.pc = pc] \in Frame
  BY DEF Frame, ReplaceFrame, ListFrame, StatementFrame

\* So is one whose rows change.
LEMMA FrameRows ==
  ASSUME NEW f \in ReplaceFrame \cup ListFrame, NEW S \in SUBSET Row
  PROVE  [f EXCEPT !.rows = S] \in Frame
  BY DEF Frame, ReplaceFrame, ListFrame

-----------------------------------------------------------------------------
(* Types.                                                                  *)

\* All clients start idle.
LEMMA InitType == Init => TypeInv
  BY DEF Init, TypeInv, Frame

\* A call that arrives.
LEMMA BeginType ==
  ASSUME TypeInv, NEW c \in Client, Begin(c)
  PROVE  TypeInv'
  <1>1. PICK f \in Frame : Start(c, f)
    <2>1. ASSUME NEW cs \in Batches, ReplaceConflicts(c, cs)
          PROVE  \E f \in Frame : Start(c, f)
      <3>1. [pc |-> "lock", cs |-> cs, rows |-> cs] \in Frame
        BY PoolAssumption DEF Frame, ReplaceFrame
      <3> QED
        BY <2>1, <3>1 DEF ReplaceConflicts
    <2>2. CASE Conflicts(c)
      BY <2>2 DEF Conflicts, Frame, ListFrame
    <2>3. CASE Statement(c)
      BY <2>3 DEF Statement, Frame, StatementFrame
    <2> QED
      BY <2>1, <2>2, <2>3 DEF Begin
  <1> QED
    BY <1>1 DEF Start, TypeInv

\* A call that moves on to another of its statements.
LEMMA GotoType ==
  ASSUME TypeInv, NEW c \in Client, NEW pc, Goto(c, pc),
         \/ /\ call[c] \in ReplaceFrame
            /\ pc \in {"lock", "begin", "delete", "insert", "rollback"}
         \/ call[c] \in ListFrame /\ pc \in {"query", "rows"}
         \/ call[c] \in StatementFrame /\ pc \in {"acquire", "exec"}
  PROVE  call' \in [Client -> Frame]
  <1>1. [call[c] EXCEPT !.pc = pc] \in Frame
    BY FrameGoto DEF TypeInv
  <1> QED
    BY <1>1 DEF Goto, TypeInv

\* A call that reads or writes one more row.
LEMMA RowsType ==
  ASSUME TypeInv, NEW c \in Client, call[c] \in ReplaceFrame \cup ListFrame,
         NEW S \in SUBSET Row, call' = [call EXCEPT ![c].rows = S]
  PROVE  call' \in [Client -> Frame]
  <1>1. [call[c] EXCEPT !.rows = S] \in Frame
    BY FrameRows
  <1> QED
    BY <1>1 DEF TypeInv

\* A call that returns leaves an idle frame.
LEMMA ReturnType ==
  ASSUME TypeInv, NEW c \in Client, Return(c)
  PROVE  call' \in [Client -> Frame]
  BY DEF Return, TypeInv, Frame

\* A call that waits gets what it waits for, or gives up.
LEMMA WaitType ==
  ASSUME TypeInv, NEW c \in Client, Lock(c) \/ Connect(c) \/ GiveUp(c)
  PROVE  TypeInv'
  <1> call[c] \in Frame
    BY DEF TypeInv
  <1>1. CASE Lock(c)
    BY <1>1, FrameShape, GotoType DEF Lock, At, TypeInv
  <1>2. CASE BeginTx(c)
    BY <1>2, FrameShape, GotoType DEF BeginTx, At, TypeInv
  <1>3. CASE Query(c)
    BY <1>3, FrameShape, GotoType DEF Query, At, TypeInv
  <1>4. CASE Acquire(c)
    BY <1>4, FrameShape, GotoType DEF Acquire, At, TypeInv
  <1>5. CASE GiveUp(c)
    BY <1>5, ReturnType DEF GiveUp, TypeInv
  <1> QED
    BY <1>1, <1>2, <1>3, <1>4, <1>5 DEF Connect

\* A call that has the connection goes on.
LEMMA WorkType ==
  ASSUME TypeInv, NEW c \in Client, Work(c)
  PROVE  TypeInv'
  <1> call[c] \in Frame
    BY DEF TypeInv
  <1>1. CASE Delete(c)
    BY <1>1, FrameShape, GotoType DEF Delete, At, TypeInv
  <1>2. CASE Insert(c)
    <2>1. call[c].rows \in SUBSET Row /\ call[c] \in ReplaceFrame
      BY <1>2, FrameShape DEF Insert, At, ReplaceFrame
    <2>2. PICK r \in call[c].rows :
            /\ txn' = txn \cup {r}
            /\ call' = [call EXCEPT ![c].rows = call[c].rows \ {r}]
      BY <1>2 DEF Insert
    <2>3. call[c].rows \ {r} \in SUBSET Row /\ txn' \in SUBSET Row
      BY <2>1, <2>2 DEF TypeInv
    <2>4. call' \in [Client -> Frame]
      BY <2>1, <2>2, <2>3, RowsType
    <2> QED
      BY <1>2, <2>3, <2>4 DEF Insert, TypeInv
  <1>3. CASE TxFails(c)
    BY <1>3, FrameShape, GotoType DEF TxFails, At, TypeInv
  <1>4. CASE Rollback(c)
    BY <1>4, ReturnType DEF Rollback, TypeInv
  <1>5. CASE Commit(c)
    BY <1>5, ReturnType DEF Commit, TypeInv
  <1>6. CASE ReadRow(c)
    <2>1. call[c].rows \in SUBSET Row /\ call[c] \in ListFrame
      BY <1>6, FrameShape DEF ReadRow, At, ListFrame
    <2>2. PICK r \in Ahead(c) : call' = [call EXCEPT ![c].rows = call[c].rows \cup {r}]
      BY <1>6 DEF ReadRow
    <2>3. call[c].rows \cup {r} \in SUBSET Row
      BY <2>1, <2>2 DEF Ahead, TypeInv
    <2>4. call' \in [Client -> Frame]
      BY <2>1, <2>2, <2>3, RowsType
    <2> QED
      BY <1>6, <2>4 DEF ReadRow, TypeInv
  <1>7. CASE CloseRows(c)
    <2>1. call[c].rows \in SUBSET Row
      BY <1>7, FrameShape DEF CloseRows, At, ListFrame
    <2> QED
      BY <1>7, <2>1, ReturnType DEF CloseRows, TypeInv
  <1>8. CASE Release(c)
    BY <1>8, ReturnType DEF Release, TypeInv
  <1> QED
    BY <1>1, <1>2, <1>3, <1>4, <1>5, <1>6, <1>7, <1>8 DEF Work

\* A crash leaves the frames of a fresh process.
LEMMA CrashType ==
  ASSUME TypeInv, Crash
  PROVE  TypeInv'
  BY DEF Crash, TypeInv, Frame

-----------------------------------------------------------------------------
(* The connection and the mutex.                                           *)

\* Nothing but the frame of c has changed, to a frame at another statement.
LEMMA OnlyFrame ==
  ASSUME TypeInv, NEW c \in Client, Begin(c) \/ Lock(c) \/ Connect(c) \/ Work(c) \/ GiveUp(c)
  PROVE  \A d \in Client \ {c} : call'[d] = call[d]
  BY DEF TypeInv, Begin, ReplaceConflicts, Conflicts, Statement, Start, Lock, Connect,
         BeginTx, Query, Acquire, Work, Delete, Insert, TxFails, Rollback, Commit,
         ReadRow, CloseRows, Release, GiveUp, Goto, Return

\* Whoever takes the connection or the mutex finds it free, and whoever leaves
\* the statements that need it gives it back.
LEMMA OwnedStep ==
  ASSUME TypeInv, Owned, NEW c \in Client,
         Begin(c) \/ Lock(c) \/ Connect(c) \/ Work(c) \/ GiveUp(c)
  PROVE  Owned'
  <1> SUFFICES /\ conn' = c <=> HasConn(c)'
               /\ mu' = c <=> HasMutex(c)'
               /\ \A d \in Client \ {c} : (conn' = d <=> conn = d) /\ (mu' = d <=> mu = d)
    BY OnlyFrame DEF Owned, HasConn, HasMutex
  <1> USE PoolAssumption DEF Owned, HasConn, HasMutex, TypeInv, At, Goto, Return
  <1>1. CASE Begin(c)
    BY <1>1 DEF Begin, ReplaceConflicts, Conflicts, Statement, Start
  <1>2. CASE Lock(c)
    BY <1>2 DEF Lock
  <1>3. CASE BeginTx(c)
    BY <1>3 DEF BeginTx
  <1>4. CASE Query(c)
    BY <1>4 DEF Query
  <1>5. CASE Acquire(c)
    BY <1>5 DEF Acquire
  <1>6. CASE GiveUp(c)
    BY <1>6 DEF GiveUp, Idle
  <1>7. CASE Delete(c)
    BY <1>7 DEF Delete
  <1>8. CASE Insert(c)
    BY <1>8 DEF Insert
  <1>9. CASE TxFails(c)
    BY <1>9 DEF TxFails
  <1>10. CASE Rollback(c)
    BY <1>10 DEF Rollback, Idle
  <1>11. CASE Commit(c)
    BY <1>11 DEF Commit, Idle
  <1>12. CASE ReadRow(c)
    BY <1>12 DEF ReadRow
  <1>13. CASE CloseRows(c)
    BY <1>13 DEF CloseRows, Idle
  <1>14. CASE Release(c)
    BY <1>14 DEF Release, Idle
  <1> QED
    BY <1>1, <1>2, <1>3, <1>4, <1>5, <1>6, <1>7, <1>8, <1>9, <1>10, <1>11, <1>12,
       <1>13, <1>14 DEF Connect, Work

-----------------------------------------------------------------------------
(* What the frames know.                                                   *)

\* Only who has the connection, or takes it while it is free, touches the
\* table and the transaction.
LEMMA Quiet ==
  ASSUME TypeInv, Owned, NEW c \in Client,
         Begin(c) \/ Lock(c) \/ Connect(c) \/ Work(c) \/ GiveUp(c)
  PROVE  conn \in {c, None} \/ UNCHANGED <<table, txn>>
  BY DEF Owned, HasConn, At, Begin, ReplaceConflicts, Conflicts, Statement, Start, Lock,
         Connect, BeginTx, Query, Acquire, Work, Delete, Insert, TxFails, Rollback,
         Commit, ReadRow, CloseRows, Release, GiveUp

\* The frame of the call that takes the step.
LEMMA OwnKnowledge ==
  ASSUME TypeInv, Informed, NEW c \in Client,
         Begin(c) \/ Lock(c) \/ Connect(c) \/ Work(c) \/ GiveUp(c)
  PROVE  Knows(call[c])'
  <1> call[c] \in Frame /\ Knows(call[c])
    BY DEF TypeInv, Informed
  <1>1. CASE Begin(c)
    BY <1>1 DEF Begin, ReplaceConflicts, Conflicts, Statement, Start, Knows, TypeInv
  <1>2. CASE Return(c)
    BY <1>2 DEF Return, Idle, Knows, TypeInv
  <1>3. CASE Lock(c)
    BY <1>3, FrameShape DEF Lock, At, Goto, Knows, TypeInv, ReplaceFrame
  <1>4. CASE BeginTx(c)
    BY <1>4, FrameShape DEF BeginTx, At, Goto, Knows, TypeInv, ReplaceFrame
  <1>5. CASE Query(c)
    BY <1>5, FrameShape DEF Query, At, Goto, Knows, TypeInv, ListFrame
  <1>6. CASE Acquire(c)
    BY <1>6, FrameShape DEF Acquire, At, Goto, Knows, TypeInv, StatementFrame
  <1>7. CASE Delete(c)
    BY <1>7, FrameShape DEF Delete, At, Goto, Knows, TypeInv, ReplaceFrame
  <1>8. CASE Insert(c)
    <2>1. call[c] \in ReplaceFrame /\ call[c].rows \subseteq call[c].cs
          /\ txn = call[c].cs \ call[c].rows /\ call[c].pc = "insert"
      BY <1>8, FrameShape DEF Insert, At, Knows
    <2>2. PICK r \in call[c].rows :
            /\ txn' = txn \cup {r}
            /\ call' = [call EXCEPT ![c].rows = call[c].rows \ {r}]
      BY <1>8 DEF Insert
    <2>3. /\ call'[c].rows = call[c].rows \ {r}
          /\ call'[c].cs = call[c].cs /\ call'[c].pc = "insert"
      BY <2>1, <2>2 DEF TypeInv, ReplaceFrame
    <2> QED
      BY <2>1, <2>2, <2>3 DEF Knows
  <1>9. CASE TxFails(c)
    BY <1>9, FrameShape DEF TxFails, At, Goto, Knows, TypeInv, ReplaceFrame
  <1>10. CASE ReadRow(c)
    <2>1. call[c] \in ListFrame /\ call[c].pc = "rows" /\ call[c].rows \subseteq table
      BY <1>10, FrameShape DEF ReadRow, At, Knows
    <2>2. PICK r \in Ahead(c) :
            /\ \A s \in Ahead(c) : r <= s
            /\ call' = [call EXCEPT ![c].rows = call[c].rows \cup {r}]
            /\ table' = table
      BY <1>10 DEF ReadRow
    <2>3. call'[c].rows = call[c].rows \cup {r} /\ call'[c].pc = "rows"
      BY <2>1, <2>2 DEF TypeInv, ListFrame
    <2>4. ASSUME NEW s \in table, s < r
          PROVE  s \in call[c].rows
      <3>1. s \notin Ahead(c)
        BY <2>2, <2>4, PoolAssumption DEF Ahead, TypeInv
      <3>2. PICK q \in call[c].rows : ~ (q < s)
        BY <3>1, <2>4 DEF Ahead
      <3>3. q \in Nat /\ s \in Nat
        BY <2>1, PoolAssumption DEF TypeInv
      <3>4. q = s \/ s < q
        BY <3>2, <3>3
      <3> QED
        BY <3>4, <2>1 DEF Knows
    <2>5. r \in table
      BY DEF Ahead
    <2>6. \A q \in call'[c].rows, s \in table : s < q => s \in call'[c].rows
      BY <2>1, <2>3, <2>4 DEF Knows
    <2>7. call'[c].rows \subseteq table
      BY <2>1, <2>3, <2>5
    <2> QED
      BY <2>2, <2>3, <2>6, <2>7 DEF Knows
  <1> QED
    BY <1>1, <1>2, <1>3, <1>4, <1>5, <1>6, <1>7, <1>8, <1>9, <1>10
       DEF Connect, Work, Rollback, Commit, CloseRows, Release, GiveUp

\* A step of a call keeps what the callers have been told true.
LEMMA InformedStep ==
  ASSUME IInv, NEW c \in Client,
         Begin(c) \/ Lock(c) \/ Connect(c) \/ Work(c) \/ GiveUp(c)
  PROVE  Informed'
  <1>1. ASSUME NEW d \in Client \ {c}
        PROVE  Knows(call[d])'
    <2>1. call'[d] = call[d] /\ Knows(call[d])
      BY OnlyFrame DEF IInv, Informed
    <2>2. HasConn(d) => UNCHANGED <<table, txn>>
      BY Quiet, PoolAssumption DEF IInv, Owned
    <2>3. ~ HasConn(d) => call[d].pc # "insert" /\ call[d].pc # "rows"
      BY DEF HasConn
    <2> QED
      BY <2>1, <2>2, <2>3 DEF Knows
  <1>2. Knows(call[c])'
    BY OwnKnowledge DEF IInv
  <1> QED
    BY <1>1, <1>2 DEF Informed

-----------------------------------------------------------------------------
(* The invariant is inductive.                                             *)

\* The invariant holds when the process starts.
LEMMA IInvInit == Init => IInv
  <1> SUFFICES ASSUME Init PROVE IInv
    OBVIOUS
  <1>1. Owned /\ Informed
    BY PoolAssumption DEF Init, Idle, Owned, HasConn, HasMutex, Informed, Knows
  <1> QED
    BY <1>1, InitType DEF IInv

\* Every step keeps the invariant.
LEMMA IInvNext == IInv /\ [Next]_vars => IInv'
  <1> SUFFICES ASSUME IInv, [Next]_vars PROVE IInv'
    OBVIOUS
  <1>1. ASSUME NEW c \in Client, Begin(c) \/ Lock(c) \/ Connect(c) \/ Work(c) \/ GiveUp(c)
        PROVE  IInv'
    <2>1. TypeInv'
      BY <1>1, BeginType, WaitType, WorkType DEF IInv
    <2> QED
      BY <1>1, <2>1, OwnedStep, InformedStep DEF IInv
  <1>2. CASE Crash
    <2>1. Owned' /\ Informed'
      BY <1>2, PoolAssumption DEF Crash, Idle, Owned, HasConn, HasMutex, Informed, Knows
    <2> QED
      BY <1>2, <2>1, CrashType DEF IInv
  <1>3. CASE UNCHANGED vars
    BY <1>3 DEF vars, IInv, TypeInv, Owned, HasConn, HasMutex, Informed, Knows
  <1> QED
    BY <1>1, <1>2, <1>3 DEF Next

\* The invariant holds in every state.
LEMMA Invariance == Spec => []IInv
  BY IInvInit, IInvNext, PTL DEF Spec

\* However calls, failing statements, cancelled contexts and stops interleave,
\* the connection and the mutex are held by exactly the calls that are between
\* taking and returning them.
THEOREM PoolSafe == Spec => []NothingLeaks
  <1>1. IInv => NothingLeaks
    BY DEF IInv, TypeInv, Owned, NothingLeaks
  <1> QED
    BY <1>1, Invariance, PTL

-----------------------------------------------------------------------------
(* The store implements ConflictTable.                                     *)

asked == [c \in Client |-> Asked(c)]

\* A client has asked for a replacement while its call is one.
LEMMA AskedValue ==
  ASSUME TypeInv, NEW c \in Client
  PROVE  /\ call[c] \in ReplaceFrame => Asked(c) = call[c].cs /\ Asked(c) # None
         /\ call[c] \notin ReplaceFrame => Asked(c) = None
  <1> call[c] \in Frame
    BY DEF TypeInv
  <1>1. CASE call[c] \in ReplaceFrame
    <2>1. "cs" \in DOMAIN call[c] /\ call[c].cs \in SUBSET Row
      BY <1>1 DEF ReplaceFrame
    <2> QED
      BY <1>1, <2>1, PoolAssumption DEF Asked
  <1>2. CASE call[c] \notin ReplaceFrame
    <2>1. "cs" \notin DOMAIN call[c]
      BY <1>2 DEF Frame, Idle, ListFrame, StatementFrame
    <2> QED
      BY <1>2, <2>1 DEF Asked
  <1> QED
    BY <1>1, <1>2

\* A step of c changes what c has asked for and nothing else of it.
LEMMA AskedFrame ==
  ASSUME TypeInv, NEW c \in Client,
         Begin(c) \/ Lock(c) \/ Connect(c) \/ Work(c) \/ GiveUp(c)
  PROVE  asked' = [asked EXCEPT ![c] = Asked(c)']
  BY OnlyFrame DEF asked, Asked

\* A step of c that neither ends its call nor begins one keeps what it asked for.
LEMMA AskedKept ==
  ASSUME TypeInv, NEW c \in Client, NEW pc,
         Goto(c, pc) \/ \E S : call' = [call EXCEPT ![c].rows = S]
  PROVE  asked' = asked
  <1> SUFFICES \A d \in Client : Asked(d)' = Asked(d)
    BY DEF asked
  <1> TAKE d \in Client
  <1>1. DOMAIN call'[d] = DOMAIN call[d]
    BY DEF Goto, TypeInv
  <1>2. "cs" \in DOMAIN call[d] => call'[d].cs = call[d].cs
    BY DEF Goto, TypeInv
  <1> QED
    BY <1>1, <1>2 DEF Asked

\* A call that returns has asked for nothing any more.
LEMMA AskedReturn ==
  ASSUME TypeInv, NEW c \in Client, Return(c)
  PROVE  asked' = [asked EXCEPT ![c] = None]
  <1>1. Asked(c)' = None
    BY DEF Return, Idle, Asked, TypeInv
  <1>2. \A d \in Client \ {c} : Asked(d)' = Asked(d)
    BY DEF Return, Asked, TypeInv
  <1> QED
    BY <1>1, <1>2 DEF asked

\* The pool starts as its promise does.
LEMMA PromiseInit == Init => Promise!Init
  BY DEF Init, Promise!Init, Asked, Idle

\* Arrivals.
LEMMA PromiseBegin ==
  ASSUME IInv, NEW c \in Client, Begin(c)
  PROVE  Promise!Next
  <1>1. At(c, "idle") /\ asked[c] = None
    BY DEF Begin, ReplaceConflicts, Conflicts, Statement, Start, At, asked, IInv, TypeInv,
           Asked, Idle, Frame, ReplaceFrame, ListFrame, StatementFrame
  <1>2. asked' = [asked EXCEPT ![c] = Asked(c)']
    BY AskedFrame DEF IInv
  <1>3. ASSUME NEW cs \in Batches, ReplaceConflicts(c, cs)
        PROVE  Promise!Ask(c, cs)
    <2>1. Asked(c)' = cs
      BY <1>3 DEF ReplaceConflicts, Start, Asked, IInv, TypeInv
    <2> QED
      BY <1>1, <1>2, <1>3, <2>1 DEF ReplaceConflicts, Start, Promise!Ask, asked
  <1>4. CASE Conflicts(c) \/ Statement(c)
    <2>1. Asked(c)' = None
      BY <1>4 DEF Conflicts, Statement, Start, Asked, IInv, TypeInv
    <2>2. asked' = asked
      BY <1>1, <1>2, <2>1 DEF asked
    <2> QED
      BY <1>4, <2>2 DEF Conflicts, Statement, Start, Promise!Next, Promise!NewCall, asked
  <1> QED
    BY <1>3, <1>4 DEF Begin, Promise!Next

\* Steps within a call: nothing of them can be seen.
LEMMA PromiseStutter ==
  ASSUME IInv, NEW c \in Client,
         Lock(c) \/ Connect(c) \/ Delete(c) \/ Insert(c) \/ TxFails(c) \/ ReadRow(c)
  PROVE  UNCHANGED Promise!vars
  <1>1. \E pc : Goto(c, pc) \/ \E S : call' = [call EXCEPT ![c].rows = S]
    BY DEF Lock, Connect, BeginTx, Query, Acquire, Delete, Insert, TxFails, ReadRow
  <1>2. asked' = asked
    BY <1>1, AskedKept DEF IInv
  <1>3. table' = table /\ answer' = answer
    BY DEF Lock, Connect, BeginTx, Query, Acquire, Delete, Insert, TxFails, ReadRow
  <1> QED
    BY <1>2, <1>3 DEF Promise!vars, asked

\* Returns: a commit replaces the table by what was asked for, or refuses; the
\* end of a list answers with the table; every other return refuses what was
\* asked for, if anything was.
LEMMA PromiseReturn ==
  ASSUME IInv, NEW c \in Client,
         Rollback(c) \/ Commit(c) \/ CloseRows(c) \/ Release(c) \/ GiveUp(c)
  PROVE  Promise!Next \/ UNCHANGED Promise!vars
  <1> call[c] \in Frame /\ Knows(call[c])
    BY DEF IInv, TypeInv, Informed
  <1>1. asked' = [asked EXCEPT ![c] = None]
    BY AskedReturn DEF IInv, Rollback, Commit, CloseRows, Release, GiveUp
  <1>2. asked[c] = Asked(c)
    BY DEF asked
  <1>3. CASE UNCHANGED <<table, answer>>
    <2>1. CASE asked[c] = None
      BY <1>1, <1>3, <2>1 DEF Promise!vars, asked
    <2>2. CASE asked[c] # None
      BY <1>1, <1>3, <2>2 DEF Promise!Next, Promise!Refuse, asked
    <2> QED
      BY <2>1, <2>2
  <1>4. CASE Commit(c) /\ table' = txn
    <2>1. call[c].pc = "insert" /\ call[c].rows = {} /\ call[c] \in ReplaceFrame
      BY <1>4, FrameShape DEF Commit, At
    <2>2. table' = asked[c] /\ asked[c] # None
      BY <1>2, <1>4, <2>1, AskedValue DEF Knows, IInv
    <2> QED
      BY <1>1, <1>4, <2>2 DEF Commit, Promise!Next, Promise!Replace, asked
  <1>5. CASE CloseRows(c)
    <2>1. /\ call[c].pc = "rows" /\ call[c] \in ListFrame /\ call[c] \notin ReplaceFrame
          /\ Ahead(c) = {}
      BY <1>5, FrameShape DEF CloseRows, At
    <2>2. call[c].rows = table
      <3>1. ASSUME NEW s \in table
            PROVE  s \in call[c].rows
        <4>1. PICK q \in call[c].rows : ~ (q < s)
          BY <2>1 DEF Ahead
        <4>2. q \in Nat /\ s \in Nat
          BY <2>1, PoolAssumption DEF IInv, TypeInv, ListFrame
        <4>3. q = s \/ s < q
          BY <4>1, <4>2
        <4> QED
          BY <2>1, <4>3 DEF Knows
      <3> QED
        BY <2>1, <3>1 DEF Knows
    <2>3. asked' = asked
      BY <1>1, <1>2, <2>1, AskedValue DEF asked, IInv
    <2> QED
      BY <1>5, <2>2, <2>3 DEF CloseRows, Promise!Next, Promise!List, asked
  <1> QED
    BY <1>3, <1>4, <1>5 DEF Rollback, Commit, Release, GiveUp

\* A crash is one of the promise.
LEMMA PromiseCrash ==
  ASSUME Crash
  PROVE  Promise!Next
  BY DEF Crash, Idle, Asked, Promise!Next, Promise!Stop

\* Every step is a step of the promise or changes nothing it speaks of.
LEMMA PromiseNext == IInv /\ [Next]_vars => [Promise!Next]_Promise!vars
  <1> SUFFICES ASSUME IInv, [Next]_vars PROVE Promise!Next \/ UNCHANGED Promise!vars
    OBVIOUS
  <1>1. ASSUME NEW c \in Client, Begin(c) \/ Lock(c) \/ Connect(c) \/ Work(c) \/ GiveUp(c)
        PROVE  Promise!Next \/ UNCHANGED Promise!vars
    BY <1>1, PromiseBegin, PromiseStutter, PromiseReturn DEF Work
  <1>2. CASE UNCHANGED vars
    BY <1>2 DEF vars, Promise!vars, Asked
  <1> QED
    BY <1>1, <1>2, PromiseCrash DEF Next

\* The store implements the table it promises: whatever fails or stops, a
\* replacement is seen as a whole or not at all, and a list that is read row by
\* row is the table of one instant.
THEOREM StoreKeepsPromise == Spec => ReplacedAsAWhole
  BY PromiseInit, PromiseNext, Invariance, PTL DEF Spec, ReplacedAsAWhole, Promise!Spec
=============================================================================
