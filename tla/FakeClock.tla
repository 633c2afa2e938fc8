------------------------------ MODULE FakeClock ------------------------------
(***************************************************************************)
(* clock.Fake: a clock that stands still until Advance moves it, and the   *)
(* timers that wait for it.  After, Now, HasPending and Advance hold the   *)
(* mutex from start to end; receivers do not, so they run between the      *)
(* steps of an Advance.                                                    *)
(***************************************************************************)
EXTENDS Integers, Sequences, FiniteSets

CONSTANTS
  Timer,        \* calls of After
  Durations,    \* arguments of After and Advance
  MaxNow,       \* bound on the clock
  None          \* no call of Advance, no channel, nothing received

ASSUME ClockAssumption ==
  /\ MaxNow \in Nat
  /\ Durations \subseteq Nat
  /\ None \notin Timer \cup Nat
  /\ None \notin [born : Nat, deadline : Nat]
  /\ None \notin [pc : {"filter", "fire"}, i : Nat, kept : Nat, fired : Seq(Timer)]

VARIABLES
  now,
  timers,       \* what After was called with, as [born, deadline], or None
  arr,          \* the array behind f.pending: a sequence of timers
  len,          \* len(f.pending), arr may be longer
  adv,          \* the Advance that holds the mutex, or None
  chan,         \* the buffered values of each channel
  got           \* what was received from each channel

vars == <<now, timers, arr, len, adv, chan, got>>

Init ==
  /\ now = 0
  /\ timers = [t \in Timer |-> None]
  /\ arr = <<>>
  /\ len = 0
  /\ adv = None
  /\ chan = [t \in Timer |-> <<>>]
  /\ got = [t \in Timer |-> None]

-----------------------------------------------------------------------------
(* Deviations, each one a plausible slip in the code.                      *)

\* f.pending = kept is forgotten.
FilteredAll ==
  /\ adv # None /\ adv.pc = "filter" /\ adv.i > len
  /\ adv' = [adv EXCEPT !.pc = "fire"]
  /\ UNCHANGED <<now, timers, arr, len, chan, got>>

\* The array is filtered from its second place on.
StartAtOne == [pc |-> "filter", i |-> 1, kept |-> 1, fired |-> <<>>]

\* A timer fires a unit of time too late.
DueLate(t) == now > timers[t].deadline

\* The loop ends at the first timer that is not due; the others stay pending.
FilterUpToFirst ==
  /\ adv # None /\ adv.pc = "filter" /\ adv.i <= len
  /\ IF now >= timers[arr[adv.i]].deadline
     THEN /\ adv' = [adv EXCEPT !.i = @ + 1, !.fired = Append(@, arr[adv.i])]
          /\ UNCHANGED arr
     ELSE /\ arr' = [n \in DOMAIN arr |->
                       IF n > adv.kept /\ n + adv.i - adv.kept - 1 <= len
                       THEN arr[n + adv.i - adv.kept - 1] ELSE arr[n]]
          /\ adv' = [adv EXCEPT !.kept = @ + len - adv.i + 1, !.i = len + 1]
  /\ UNCHANGED <<now, timers, len, chan, got>>

\* The loop of the sends is left before it reaches its end.
FireFirstOnly ==
  /\ adv # None /\ adv.pc = "fire" /\ adv.fired # <<>>
  /\ chan' = [chan EXCEPT ![Head(adv.fired)] = <<now>>]
  /\ adv' = [adv EXCEPT !.fired = <<>>]
  /\ UNCHANGED <<now, timers, arr, len, got>>

-----------------------------------------------------------------------------
After(t, d) ==
  /\ adv = None
  /\ timers[t] = None
  /\ timers' = [timers EXCEPT ![t] = [born |-> now, deadline |-> now + d]]
  /\ arr' = Append(SubSeq(arr, 1, len), t)
  /\ len' = len + 1
  /\ UNCHANGED <<now, adv, chan, got>>

(* Advance takes the mutex and moves the clock; kept and f.pending share   *)
(* an array, so every timer that is kept overwrites one that was read.     *)
Started == [pc |-> "filter", i |-> 1, kept |-> 0, fired |-> <<>>]

Advance(d) ==
  /\ adv = None
  /\ now + d <= MaxNow
  /\ now' = now + d
  /\ adv' = Started
  /\ UNCHANGED <<timers, arr, len, chan, got>>

Due(t) == now >= timers[t].deadline

Filter ==
  /\ adv # None /\ adv.pc = "filter" /\ adv.i <= len
  /\ \/ /\ Due(arr[adv.i])
        /\ adv' = [adv EXCEPT !.i = @ + 1, !.fired = Append(@, arr[adv.i])]
        /\ UNCHANGED arr
     \/ /\ ~ Due(arr[adv.i])
        /\ arr' = [arr EXCEPT ![adv.kept + 1] = arr[adv.i]]
        /\ adv' = [adv EXCEPT !.i = @ + 1, !.kept = @ + 1]
  /\ UNCHANGED <<now, timers, len, chan, got>>

Filtered ==
  /\ adv # None /\ adv.pc = "filter" /\ adv.i > len
  /\ len' = adv.kept
  /\ adv' = [adv EXCEPT !.pc = "fire"]
  /\ UNCHANGED <<now, timers, arr, chan, got>>

\* The send does not block: it is dropped when the buffer of one is full.
Fire ==
  /\ adv # None /\ adv.pc = "fire" /\ adv.fired # <<>>
  /\ LET t == Head(adv.fired)
     IN  chan' = [chan EXCEPT ![t] = IF @ = <<>> THEN <<now>> ELSE @]
  /\ adv' = [adv EXCEPT !.fired = Tail(@)]
  /\ UNCHANGED <<now, timers, arr, len, got>>

Unlock ==
  /\ adv # None /\ adv.pc = "fire" /\ adv.fired = <<>>
  /\ adv' = None
  /\ UNCHANGED <<now, timers, arr, len, chan, got>>

\* Whoever called After receives; or does not, and the value stays buffered.
Receive(t) ==
  /\ chan[t] # <<>>
  /\ got' = [got EXCEPT ![t] = Head(chan[t])]
  /\ chan' = [chan EXCEPT ![t] = Tail(@)]
  /\ UNCHANGED <<now, timers, arr, len, adv>>

\* HasPending, which changes nothing.
HasPending == len > 0

-----------------------------------------------------------------------------
Running == Filter \/ Filtered \/ Fire \/ Unlock

Next ==
  \/ \E t \in Timer, d \in Durations : After(t, d)
  \/ \E d \in Durations : Advance(d)
  \/ Running
  \/ \E t \in Timer : Receive(t)

Spec == Init /\ [][Next]_vars

(* An Advance that has begun goes on, and whoever waits for a channel with *)
(* a value in it receives; nobody has to advance the clock.                *)
FairSpec == Spec /\ WF_vars(Running) /\ \A t \in Timer : WF_vars(Receive(t))

-----------------------------------------------------------------------------
(* The array while it is filtered: what was kept, and what was not read.   *)

Kept == IF adv # None /\ adv.pc = "filter" THEN 1 .. adv.kept ELSE 1 .. len
Unread == IF adv # None /\ adv.pc = "filter" THEN adv.i .. len ELSE {}
Firing == IF adv # None THEN DOMAIN adv.fired ELSE {}

ClockOK ==
  /\ now \in 0 .. MaxNow
  /\ \A t \in Timer : timers[t] # None => timers[t].deadline >= timers[t].born
  /\ arr \in Seq(Timer) /\ len \in 0 .. Len(arr)
  /\ adv # None => /\ adv.i \in 1 .. Len(arr) + 1
                   /\ adv.kept < adv.i
  /\ \A t \in Timer : Len(chan[t]) <= 1

\* The filter works in the array it reads, and loses and doubles nothing:
\* every timer that was ever registered is, at every step of an Advance, in
\* exactly one place: kept, yet to be read, about to fire, or delivered, and
\* delivered once.
OneHome ==
  \A t \in Timer :
    Cardinality({n \in Kept : arr[n] = t}) + Cardinality({n \in Unread : arr[n] = t})
      + (IF adv # None THEN Cardinality({n \in Firing : adv.fired[n] = t}) ELSE 0)
      + Len(chan[t]) + (IF got[t] # None THEN 1 ELSE 0)
    = IF timers[t] # None THEN 1 ELSE 0

\* No timer fires early: what it delivers is a time at which it was due.  And
\* none is overdue between two calls of Advance, except one of duration zero,
\* which waits for the next Advance although it is due at once; so when
\* HasPending says no, every timer there was has been delivered.
OnTime ==
  /\ \A t \in Timer :
       /\ got[t] # None => got[t] >= timers[t].deadline
       /\ chan[t] # <<>> => chan[t][1] >= timers[t].deadline
  /\ adv = None =>
       /\ \A n \in 1 .. len :
            LET t == timers[arr[n]]
            IN  t.deadline > now \/ (t.deadline = t.born /\ t.born = now)
       /\ ~ HasPending =>
            \A t \in Timer : timers[t] # None => chan[t] # <<>> \/ got[t] # None

\* Within one Advance the timers fire in the order of registration, but over
\* many calls the times that are received respect the deadlines: a timer that
\* is due before another never tells a later time.
DeadlineOrder ==
  \A t, u \in Timer :
    got[t] # None /\ got[u] # None /\ timers[t].deadline < timers[u].deadline
    => got[t] <= got[u]

\* A timer that an Advance finds due is received: the Advance gets to its send
\* whatever the receivers of other timers do, and ends.
DueReceived ==
  \A t \in Timer :
    (adv # None /\ timers[t] # None /\ now >= timers[t].deadline) ~> got[t] # None
=============================================================================
