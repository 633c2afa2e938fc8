-------------------------------- MODULE Pool --------------------------------
(***************************************************************************)
(* The store below the statements that Store.tla takes as atomic: the one  *)
(* connection of the pool, the mutex and the transaction of                *)
(* ReplaceConflicts, lists that are read row by row, statements that fail, *)
(* and a stop of the process in between.                                   *)
(***************************************************************************)
EXTENDS Naturals, FiniteSets

CONSTANTS
  Client,       \* goroutines that call the store
  Row,          \* ids of conflicts, in text order
  Batches,      \* sets of conflicts that replace the table
  Crashes,      \* the process may stop at any time
  None          \* nobody, or no answer

ASSUME PoolAssumption ==
  /\ Row \subseteq Nat
  /\ None \notin Client
  /\ Batches \subseteq SUBSET Row
  /\ \A S \in SUBSET Row : None # S
  /\ Crashes \in BOOLEAN

VARIABLES
  table,        \* the conflicts that are committed
  conn,         \* who has the connection, or None
  mu,           \* who has the mutex, or None
  txn,          \* the conflicts as the transaction on the connection sees them
  call,         \* the call each client is in
  answer        \* what the last list of each client returned

vars == <<table, conn, mu, txn, call, answer>>

Idle == [pc |-> "idle"]

Init ==
  /\ table = {}
  /\ conn = None /\ mu = None
  /\ txn = {}
  /\ call = [c \in Client |-> Idle]
  /\ answer = [c \in Client |-> None]

At(c, pc) == call[c].pc = pc

Goto(c, pc) == call' = [call EXCEPT ![c].pc = pc]

Return(c) == call' = [call EXCEPT ![c] = Idle]

-----------------------------------------------------------------------------
(* Deviations, each one a plausible slip in the code.                      *)

\* The statements run on the pool's connection, outside the transaction.
InsertDirectly(c) ==
  /\ At(c, "insert")
  /\ \E r \in call[c].rows :
       /\ table' = table \cup {r}
       /\ call' = [call EXCEPT ![c].rows = @ \ {r}]
  /\ UNCHANGED <<conn, mu, txn, answer>>

\* A failed replacement returns without a rollback.
RollbackForgotten(c) ==
  /\ At(c, "rollback")
  /\ mu' = None
  /\ Return(c)
  /\ UNCHANGED <<table, conn, txn, answer>>

\* The connection is taken before the mutex.
LockHolding(c) ==
  /\ At(c, "lock")
  /\ \/ /\ conn = None /\ conn' = c
        /\ UNCHANGED <<mu, call>>
     \/ /\ conn = c /\ mu = None /\ mu' = c
        /\ conn' = None
        /\ Goto(c, "begin")
  /\ UNCHANGED <<table, txn, answer>>

-----------------------------------------------------------------------------
(* The calls arrive.                                                       *)

Start(c, frame) ==
  /\ At(c, "idle")
  /\ call' = [call EXCEPT ![c] = frame]
  /\ answer' = [answer EXCEPT ![c] = None]
  /\ UNCHANGED <<table, conn, mu, txn>>

ReplaceConflicts(c, cs) == Start(c, [pc |-> "lock", cs |-> cs, rows |-> cs])

Conflicts(c) == Start(c, [pc |-> "query", rows |-> {}])

\* Any other statement: get, put, AddTrack, Event, CallsignExists.
Statement(c) == Start(c, [pc |-> "acquire"])

Begin(c) ==
  \/ \E cs \in Batches : ReplaceConflicts(c, cs)
  \/ Conflicts(c)
  \/ Statement(c)

-----------------------------------------------------------------------------
(* ReplaceConflicts.  The deferred unlock is part of every return.         *)

Lock(c) ==
  /\ At(c, "lock")
  /\ mu = None
  /\ mu' = c
  /\ Goto(c, "begin")
  /\ UNCHANGED <<table, conn, txn, answer>>

BeginTx(c) ==
  /\ At(c, "begin")
  /\ conn = None
  /\ conn' = c
  /\ txn' = table
  /\ Goto(c, "delete")
  /\ UNCHANGED <<table, mu, answer>>

Delete(c) ==
  /\ At(c, "delete")
  /\ txn' = {}
  /\ Goto(c, "insert")
  /\ UNCHANGED <<table, conn, mu, answer>>

Insert(c) ==
  /\ At(c, "insert")
  /\ \E r \in call[c].rows :
       /\ txn' = txn \cup {r}
       /\ call' = [call EXCEPT ![c].rows = @ \ {r}]
  /\ UNCHANGED <<table, conn, mu, answer>>

\* Delete or Insert fails.
TxFails(c) ==
  /\ At(c, "delete") \/ (At(c, "insert") /\ call[c].rows # {})
  /\ Goto(c, "rollback")
  /\ UNCHANGED <<table, conn, mu, txn, answer>>

Rollback(c) ==
  /\ At(c, "rollback")
  /\ conn' = None /\ mu' = None
  /\ Return(c)
  /\ UNCHANGED <<table, txn, answer>>

\* The commit succeeds, or fails and leaves the table as it was.
Commit(c) ==
  /\ At(c, "insert")
  /\ call[c].rows = {}
  /\ table' \in {txn, table}
  /\ conn' = None /\ mu' = None
  /\ Return(c)
  /\ UNCHANGED <<txn, answer>>

-----------------------------------------------------------------------------
(* Lists and single statements.                                            *)

Query(c) ==
  /\ At(c, "query")
  /\ conn = None
  /\ conn' = c
  /\ Goto(c, "rows")
  /\ UNCHANGED <<table, mu, txn, answer>>

\* ORDER BY id: the next row is the smallest one beyond those that were read.
Ahead(c) == {r \in table : \A s \in call[c].rows : s < r}

ReadRow(c) ==
  /\ At(c, "rows")
  /\ \E r \in Ahead(c) :
       /\ \A s \in Ahead(c) : r <= s
       /\ call' = [call EXCEPT ![c].rows = @ \cup {r}]
  /\ UNCHANGED <<table, conn, mu, txn, answer>>

CloseRows(c) ==
  /\ At(c, "rows")
  /\ Ahead(c) = {}
  /\ conn' = None
  /\ answer' = [answer EXCEPT ![c] = call[c].rows]
  /\ Return(c)
  /\ UNCHANGED <<table, mu, txn>>

Acquire(c) ==
  /\ At(c, "acquire")
  /\ conn = None
  /\ conn' = c
  /\ Goto(c, "exec")
  /\ UNCHANGED <<table, mu, txn, answer>>

\* The statement ends, or fails; likewise a list while it is read.
Release(c) ==
  /\ At(c, "exec") \/ At(c, "rows")
  /\ conn' = None
  /\ Return(c)
  /\ UNCHANGED <<table, mu, txn, answer>>

\* The context ends while the call waits for the connection.
GiveUp(c) ==
  /\ At(c, "begin") \/ At(c, "query") \/ At(c, "acquire")
  /\ mu' = IF mu = c THEN None ELSE mu
  /\ Return(c)
  /\ UNCHANGED <<table, conn, txn, answer>>

-----------------------------------------------------------------------------
\* The process stops and starts again: what was not committed is lost.
Crash ==
  /\ Crashes
  /\ conn' = None /\ mu' = None
  /\ txn' = {}
  /\ call' = [c \in Client |-> Idle]
  /\ answer' = [c \in Client |-> None]
  /\ UNCHANGED table

\* A call that has what it needs.
Work(c) ==
  \/ Delete(c) \/ Insert(c) \/ TxFails(c) \/ Rollback(c) \/ Commit(c)
  \/ ReadRow(c) \/ CloseRows(c) \/ Release(c)

\* A call that waits for the connection.
Connect(c) == BeginTx(c) \/ Query(c) \/ Acquire(c)

Next ==
  \/ \E c \in Client : Begin(c) \/ Lock(c) \/ Connect(c) \/ Work(c) \/ GiveUp(c)
  \/ Crash

Spec == Init /\ [][Next]_vars

(* A statement that runs ends.  Those who wait for the connection or for   *)
(* the mutex get it sooner or later if it is free again and again: the     *)
(* pool picks among the waiting ones at random, and a Go mutex serves them *)
(* in turn once one has waited for a millisecond.                          *)
FairSpec ==
  Spec /\ \A c \in Client : WF_vars(Work(c)) /\ SF_vars(Lock(c)) /\ SF_vars(Connect(c))

-----------------------------------------------------------------------------
HasConn(c) == call[c].pc \in {"delete", "insert", "rollback", "rows", "exec"}
HasMutex(c) == call[c].pc \in {"begin", "delete", "insert", "rollback"}

\* The connection and the mutex belong to exactly the calls that are between
\* taking and returning them, whichever way a call ends: none is ever kept by
\* a call that has returned, and two calls never share one.
NothingLeaks ==
  /\ table \in SUBSET Row /\ txn \in SUBSET Row
  /\ answer \in [Client -> {None} \cup SUBSET Row]
  /\ \A c \in Client : (conn = c <=> HasConn(c)) /\ (mu = c <=> HasMutex(c))

\* The store implements the table it promises: neither a failed statement nor a
\* stop in the middle of a transaction, nor a list that is read row by row
\* beside it, shows a part of a replacement.
Asked(c) == IF "cs" \in DOMAIN call[c] THEN call[c].cs ELSE None

Promise == INSTANCE ConflictTable WITH
  asked <- [c \in Client |-> Asked(c)]

ReplacedAsAWhole == Promise!Spec

\* Nobody waits for ever: ReplaceConflicts holds the mutex while it waits for
\* the connection, but no call waits for the mutex with the connection in hand.
EveryCallEnds == \A c \in Client : ~ At(c, "idle") ~> At(c, "idle")
=============================================================================
