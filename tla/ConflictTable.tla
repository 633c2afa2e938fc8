---------------------------- MODULE ConflictTable ----------------------------
(***************************************************************************)
(* What the store promises of the table of conflicts: a replacement takes  *)
(* effect at one instant, with exactly the conflicts that were asked for,  *)
(* or not at all; and a list is the table as it is at one instant.         *)
(***************************************************************************)
CONSTANTS Client, Row, Batches, None

VARIABLES
  table,        \* the conflicts
  asked,        \* the replacement each client has asked for, or None
  answer        \* the list each client was given, or None

vars == <<table, asked, answer>>

Init ==
  /\ table = {}
  /\ asked = [c \in Client |-> None]
  /\ answer = [c \in Client |-> None]

Ask(c, S) ==
  /\ asked[c] = None
  /\ asked' = [asked EXCEPT ![c] = S]
  /\ answer' = [answer EXCEPT ![c] = None]
  /\ UNCHANGED table

Replace(c) ==
  /\ asked[c] # None
  /\ table' = asked[c]
  /\ asked' = [asked EXCEPT ![c] = None]
  /\ UNCHANGED answer

Refuse(c) ==
  /\ asked[c] # None
  /\ asked' = [asked EXCEPT ![c] = None]
  /\ UNCHANGED <<table, answer>>

List(c) ==
  /\ answer' = [answer EXCEPT ![c] = table]
  /\ UNCHANGED <<table, asked>>

NewCall(c) ==
  /\ answer' = [answer EXCEPT ![c] = None]
  /\ UNCHANGED <<table, asked>>

Stop ==
  /\ asked' = [c \in Client |-> None]
  /\ answer' = [c \in Client |-> None]
  /\ UNCHANGED table

Next ==
  \/ \E c \in Client :
       \/ \E S \in Batches : Ask(c, S)
       \/ Replace(c) \/ Refuse(c) \/ List(c) \/ NewCall(c)
  \/ Stop

Spec == Init /\ [][Next]_vars
=============================================================================
