----------------------------- MODULE ClockProofs -----------------------------
(***************************************************************************)
(* Theorems about the fake clock, for any number of timers and any         *)
(* durations: the filter loses and doubles no timer, none fires early or   *)
(* stays overdue, and the times they tell respect the deadlines.           *)
(***************************************************************************)
EXTENDS FakeClock, FiniteSetTheorems, TLAPS

-----------------------------------------------------------------------------
(* Types.                                                                  *)

Entry == [born : Nat, deadline : Nat]

Call == [pc : {"filter", "fire"}, i : Nat, kept : Nat, fired : Seq(Timer)]

TypeInv ==
  /\ now \in Nat /\ now <= MaxNow
  /\ timers \in [Timer -> Entry \cup {None}]
  /\ \A t \in Timer : timers[t] # None =>
       timers[t].born <= now /\ timers[t].born <= timers[t].deadline
  /\ arr \in Seq(Timer) /\ len \in Nat /\ len <= Len(arr)
  /\ adv \in Call \cup {None}
  /\ adv # None =>
       /\ adv.kept < adv.i /\ adv.i <= Len(arr) + 1
       /\ adv.pc = "filter" => adv.i <= len + 1
  /\ chan \in [Timer -> Seq(Nat)]
  /\ \A t \in Timer : Len(chan[t]) <= 1
  /\ got \in [Timer -> Nat \cup {None}]

\* What a running Advance holds, field by field.
LEMMA CallFields ==
  ASSUME NEW c \in Call
  PROVE  /\ c.pc \in {"filter", "fire"} /\ c.i \in Nat /\ c.kept \in Nat
         /\ c.fired \in Seq(Timer)
         /\ c # None
  BY ClockAssumption DEF Call

\* A call of Advance starts at the first waiter.
LEMMA StartedType ==
  /\ Started \in Call
  /\ Started.pc = "filter" /\ Started.i = 1 /\ Started.kept = 0 /\ Started.fired = <<>>
  <1>1. <<>> \in Seq(Timer)
    OBVIOUS
  <1> QED
    BY <1>1 DEF Started, Call

\* The clock starts with no waiter and no call.
LEMMA InitType == Init => TypeInv
  BY ClockAssumption DEF Init, TypeInv, Entry

\* After appends one waiter to the array, and moves none.
LEMMA AfterType ==
  ASSUME TypeInv, NEW t \in Timer, NEW d \in Durations, After(t, d)
  PROVE  /\ TypeInv'
         /\ arr' \in Seq(Timer) /\ Len(arr') = len + 1 /\ arr'[len + 1] = t
         /\ \A n \in 1 .. len : arr'[n] = arr[n]
  <1>1. SubSeq(arr, 1, len) \in Seq(Timer) /\ Len(SubSeq(arr, 1, len)) = len
        /\ \A n \in 1 .. len : SubSeq(arr, 1, len)[n] = arr[n]
    BY DEF TypeInv
  <1>2. /\ arr' \in Seq(Timer) /\ Len(arr') = len + 1 /\ arr'[len + 1] = t
        /\ \A n \in 1 .. len : arr'[n] = arr[n]
    BY <1>1 DEF After, TypeInv
  <1>3. d \in Nat /\ [born |-> now, deadline |-> now + d] \in Entry
    BY ClockAssumption DEF TypeInv, Entry
  <1>4. timers' \in [Timer -> Entry \cup {None}]
    BY <1>3 DEF After, TypeInv
  <1>5. \A u \in Timer : timers'[u] # None =>
          timers'[u].born <= now /\ timers'[u].born <= timers'[u].deadline
    BY <1>3 DEF After, TypeInv
  <1> QED
    BY <1>2, <1>4, <1>5 DEF After, TypeInv

\* A call goes on with the record it holds.
LEMMA CallType == TypeInv /\ adv # None => adv \in Call
  BY DEF TypeInv

\* A timer that is due is taken out.
LEMMA FilterDue ==
  ASSUME TypeInv, Filter, Due(arr[adv.i])
  PROVE  /\ adv.i \in 1 .. len /\ arr[adv.i] \in Timer
         /\ adv' \in Call /\ adv'.pc = "filter" /\ adv'.i = adv.i + 1
         /\ adv'.kept = adv.kept /\ adv'.fired = Append(adv.fired, arr[adv.i])
         /\ arr' = arr
  <1> DEFINE more == Append(adv.fired, arr[adv.i])
             next == adv.i + 1
  <1>1. adv # None /\ adv \in Call /\ adv.pc = "filter" /\ adv.i <= len
    BY DEF Filter, TypeInv
  <1>2. adv.i \in Nat /\ adv.kept \in Nat /\ adv.fired \in Seq(Timer)
    BY <1>1, CallFields
  <1>3. adv.i \in 1 .. len /\ arr[adv.i] \in Timer
    BY <1>1, <1>2 DEF TypeInv
  <1>4. more \in Seq(Timer) /\ next \in Nat
    BY <1>2, <1>3
  <1>5. adv' = [adv EXCEPT !.i = next, !.fired = more] /\ arr' = arr
    BY DEF Filter
  <1> HIDE DEF more, next
  <1>6. adv' \in Call /\ adv'.pc = "filter" /\ adv'.i = next /\ adv'.kept = adv.kept
        /\ adv'.fired = more
    BY <1>1, <1>4, <1>5 DEF Call
  <1> QED
    BY <1>3, <1>5, <1>6 DEF more, next

\* Another one is kept.
LEMMA FilterKeeps ==
  ASSUME TypeInv, Filter, ~Due(arr[adv.i])
  PROVE  /\ adv.i \in 1 .. len /\ arr[adv.i] \in Timer
         /\ adv' \in Call /\ adv'.pc = "filter" /\ adv'.i = adv.i + 1
         /\ adv'.kept = adv.kept + 1 /\ adv'.fired = adv.fired
         /\ arr' = [arr EXCEPT ![adv.kept + 1] = arr[adv.i]]
         /\ arr' \in Seq(Timer) /\ Len(arr') = Len(arr)
  <1> DEFINE next == adv.i + 1
             more == adv.kept + 1
  <1>1. adv # None /\ adv \in Call /\ adv.pc = "filter" /\ adv.i <= len /\ adv.kept < adv.i
    BY DEF Filter, TypeInv
  <1>2. adv.i \in Nat /\ adv.kept \in Nat /\ adv.fired \in Seq(Timer)
    BY <1>1, CallFields
  <1>3. adv.i \in 1 .. len /\ arr[adv.i] \in Timer /\ more \in 1 .. Len(arr)
    BY <1>1, <1>2 DEF TypeInv
  <1>4. next \in Nat /\ more \in Nat
    BY <1>2
  <1>5. adv' = [adv EXCEPT !.i = next, !.kept = more] /\ arr' = [arr EXCEPT ![more] = arr[adv.i]]
    BY DEF Filter
  <1>6. arr' \in Seq(Timer) /\ Len(arr') = Len(arr)
    BY <1>3, <1>5 DEF TypeInv
  <1> HIDE DEF more, next
  <1>7. adv' \in Call /\ adv'.pc = "filter" /\ adv'.i = next /\ adv'.kept = more
        /\ adv'.fired = adv.fired
    BY <1>1, <1>4, <1>5 DEF Call
  <1> QED
    BY <1>3, <1>5, <1>6, <1>7 DEF more, next

\* The filter ends.
LEMMA FilteredStep ==
  ASSUME TypeInv, Filtered
  PROVE  /\ adv \in Call /\ adv.pc = "filter" /\ adv.i = len + 1 /\ adv.kept <= len
         /\ adv' \in Call /\ adv'.pc = "fire" /\ adv'.i = adv.i
         /\ adv'.kept = adv.kept /\ adv'.fired = adv.fired
  <1>1. /\ adv # None /\ adv \in Call /\ adv.pc = "filter" /\ adv.i > len
        /\ adv.i <= len + 1 /\ adv.kept < adv.i /\ len \in Nat
    BY DEF Filtered, TypeInv
  <1>2. adv.i \in Nat /\ adv.kept \in Nat
    BY <1>1, CallFields
  <1>3. adv' = [adv EXCEPT !.pc = "fire"]
    BY DEF Filtered
  <1>4. adv' \in Call /\ adv'.pc = "fire" /\ adv'.i = adv.i
        /\ adv'.kept = adv.kept /\ adv'.fired = adv.fired
    BY <1>1, <1>3 DEF Call
  <1> QED
    BY <1>1, <1>2, <1>4

\* A timer is sent its time.
LEMMA FireStep ==
  ASSUME TypeInv, Fire
  PROVE  /\ adv \in Call /\ adv.pc = "fire" /\ adv.fired # <<>> /\ Head(adv.fired) \in Timer
         /\ adv' \in Call /\ adv'.pc = "fire" /\ adv'.i = adv.i
         /\ adv'.kept = adv.kept /\ adv'.fired = Tail(adv.fired)
         /\ Tail(adv.fired) \in Seq(Timer)
  <1> DEFINE rest == Tail(adv.fired)
  <1>1. adv # None /\ adv \in Call /\ adv.pc = "fire" /\ adv.fired # <<>>
    BY DEF Fire, TypeInv
  <1>2. adv.fired \in Seq(Timer)
    BY <1>1, CallFields
  <1>3. Head(adv.fired) \in Timer /\ rest \in Seq(Timer)
    BY <1>1, <1>2
  <1>4. adv' = [adv EXCEPT !.fired = rest]
    BY DEF Fire
  <1> HIDE DEF rest
  <1>5. adv' \in Call /\ adv'.pc = "fire" /\ adv'.i = adv.i
        /\ adv'.kept = adv.kept /\ adv'.fired = rest
    BY <1>1, <1>3, <1>4 DEF Call
  <1> QED
    BY <1>1, <1>3, <1>5 DEF rest

\* Every step keeps the array, its length and the calls typed.
LEMMA NextTypeInv ==
  ASSUME TypeInv, [Next]_vars
  PROVE  TypeInv'
  <1> USE ClockAssumption
  <1>1. ASSUME NEW t \in Timer, NEW d \in Durations, After(t, d)
        PROVE  TypeInv'
    BY <1>1, AfterType
  <1>2. ASSUME NEW d \in Durations, Advance(d)
        PROVE  TypeInv'
    <2>1. adv' = Started /\ now' \in Nat /\ now' >= now /\ now' <= MaxNow
      BY <1>2 DEF Advance, TypeInv
    <2>2. \A t \in Timer : timers[t] # None => timers[t] \in Entry
      BY DEF TypeInv
    <2> QED
      BY <1>2, <2>1, <2>2, StartedType DEF Advance, TypeInv, Entry
  <1>3. CASE Filter
    <2>1. CASE Due(arr[adv.i])
      <3>1. adv \in Call /\ adv.i \in Nat /\ adv.kept \in Nat /\ adv' # None
        BY <1>3, <2>1, FilterDue, CallFields DEF Filter, TypeInv
      <3> QED
        BY <1>3, <2>1, <3>1, FilterDue DEF Filter, TypeInv
    <2>2. CASE ~Due(arr[adv.i])
      <3>1. adv \in Call /\ adv.i \in Nat /\ adv.kept \in Nat /\ adv' # None
        BY <1>3, <2>2, FilterKeeps, CallFields DEF Filter, TypeInv
      <3>2. adv'.kept < adv'.i /\ adv'.i <= Len(arr') + 1 /\ adv'.i <= len + 1
        <4>1. adv.i <= len /\ len \in Nat /\ len <= Len(arr) /\ Len(arr) \in Nat
              /\ adv.kept < adv.i
          BY <1>3 DEF Filter, TypeInv
        <4>2. adv'.i = adv.i + 1 /\ adv'.kept = adv.kept + 1 /\ Len(arr') = Len(arr)
          BY <1>3, <2>2, FilterKeeps
        <4> QED
          BY <3>1, <4>1, <4>2
      <3>3. arr' \in Seq(Timer) /\ Len(arr') = Len(arr) /\ adv' \in Call
        BY <1>3, <2>2, FilterKeeps
      <3>4. UNCHANGED <<now, timers, len, chan, got>>
        BY <1>3 DEF Filter
      <3> QED
        BY <3>2, <3>3, <3>4 DEF TypeInv
    <2> QED
      BY <2>1, <2>2
  <1>4. CASE Filtered
    BY <1>4, FilteredStep DEF Filtered, TypeInv, Call
  <1>5. CASE Fire
    <2>1. PICK t \in Timer : chan' = [chan EXCEPT ![t] = IF @ = <<>> THEN <<now>> ELSE @]
      BY <1>5, FireStep DEF Fire
    <2>2. <<now>> \in Seq(Nat) /\ Len(<<now>>) = 1
      BY DEF TypeInv
    <2>3. chan' \in [Timer -> Seq(Nat)] /\ \A u \in Timer : Len(chan'[u]) <= 1
      BY <2>1, <2>2 DEF TypeInv
    <2> QED
      BY <1>5, <2>3, FireStep DEF Fire, TypeInv, Call
  <1>6. CASE Unlock
    BY <1>6 DEF Unlock, TypeInv
  <1>7. ASSUME NEW t \in Timer, Receive(t)
        PROVE  TypeInv'
    <2>1. Head(chan[t]) \in Nat /\ Tail(chan[t]) \in Seq(Nat) /\ Len(Tail(chan[t])) <= 1
      BY <1>7 DEF Receive, TypeInv
    <2>2. /\ chan' \in [Timer -> Seq(Nat)] /\ \A u \in Timer : Len(chan'[u]) <= 1
          /\ got' \in [Timer -> Nat \cup {None}]
      BY <1>7, <2>1 DEF Receive, TypeInv
    <2> QED
      BY <1>7, <2>2 DEF Receive, TypeInv
  <1>8. CASE UNCHANGED vars
    BY <1>8 DEF vars, TypeInv
  <1> QED
    BY <1>1, <1>2, <1>3, <1>4, <1>5, <1>6, <1>7, <1>8 DEF Next, Running

\* The type invariant holds in every state.
LEMMA Typed == Spec => []TypeInv
  BY InitType, NextTypeInv, PTL DEF Spec

\* The state of the clock, of the array and of a running Advance stays in
\* bounds: the filter never writes past the place it reads, although it writes
\* into the array it reads (Fake.Advance).
THEOREM ClockTypeCorrect == Spec => []ClockOK
  <1>1. TypeInv => ClockOK
    <2> SUFFICES ASSUME TypeInv
                 PROVE  ClockOK
      OBVIOUS
    <2>1. \A t \in Timer : timers[t] # None => timers[t] \in Entry
      BY DEF TypeInv
    <2> QED
      BY <2>1, ClockAssumption DEF TypeInv, ClockOK, Entry, Call
  <1> QED
    BY <1>1, Typed, PTL

-----------------------------------------------------------------------------
(* Where a timer is.                                                       *)

Slots == Kept \cup Unread

InArr(t) == \E n \in Slots : arr[n] = t
InFired(t) == \E n \in Firing : adv.fired[n] = t
InChan(t) == chan[t] # <<>>
InGot(t) == got[t] # None

\* A timer that was registered is in one place, once.
HomeInv ==
  /\ \A t \in Timer :
       /\ timers[t] # None <=> InArr(t) \/ InFired(t) \/ InChan(t) \/ InGot(t)
       /\ ~(InArr(t) /\ InFired(t))
       /\ ~((InArr(t) \/ InFired(t)) /\ (InChan(t) \/ InGot(t)))
       /\ ~(InChan(t) /\ InGot(t))
  /\ \A m, n \in Slots : arr[m] = arr[n] => m = n
  /\ \A m, n \in Firing : adv.fired[m] = adv.fired[n] => m = n

-----------------------------------------------------------------------------
(* When a timer fires.                                                     *)

Deadline(t) == timers[t].deadline

IsTold(t) == InChan(t) \/ InGot(t)

\* The time that a delivered timer tells.
Told(t) == IF chan[t] # <<>> THEN chan[t][1] ELSE got[t]

\* Those that were delivered or are about to be were due; those that were kept
\* are not; between two calls only a timer of no duration may be due.
DueInv ==
  /\ \A t \in Timer : IsTold(t) => Deadline(t) <= Told(t) /\ Told(t) <= now
  /\ \A t \in Timer : InFired(t) => Deadline(t) <= now
  /\ adv # None => \A n \in Kept : Deadline(arr[n]) > now
  /\ adv = None =>
       \A n \in Kept : \/ Deadline(arr[n]) > now
                       \/ Deadline(arr[n]) = timers[arr[n]].born /\ timers[arr[n]].born = now

\* A timer that still waits is due no earlier than any time that was told; one
\* about to fire is, too, or it fires beside the other.
OrderInv ==
  /\ \A t, u \in Timer : IsTold(u) /\ InArr(t) => Told(u) <= Deadline(t)
  /\ \A t, u \in Timer : IsTold(u) /\ InFired(t) => Told(u) <= Deadline(t) \/ Told(u) = now
  /\ \A t, u \in Timer : IsTold(t) /\ IsTold(u) /\ Deadline(t) < Deadline(u) =>
                           Told(t) <= Told(u)

-----------------------------------------------------------------------------
(* How an action moves the timers between the places.                      *)

\* The filter holds two parts of the array, any other state one.
LEMMA Places ==
  ASSUME TypeInv
  PROVE  /\ Slots \in SUBSET (1 .. len)
         /\ adv # None /\ adv.pc = "filter" =>
              Slots = (1 .. adv.kept) \cup (adv.i .. len) /\ Kept = 1 .. adv.kept
         /\ ~(adv # None /\ adv.pc = "filter") => Slots = 1 .. len /\ Kept = 1 .. len
         /\ adv # None => Firing = 1 .. Len(adv.fired) /\ Len(adv.fired) \in Nat
         /\ adv = None => Firing = {}
         /\ \A n \in Slots : arr[n] \in Timer
         /\ \A n \in Firing : adv.fired[n] \in Timer
  <1>1. adv # None => /\ adv \in Call /\ adv.i \in Nat /\ adv.kept \in Nat
                      /\ adv.fired \in Seq(Timer) /\ adv.kept < adv.i
    BY CallFields DEF TypeInv
  <1>2. arr \in Seq(Timer) /\ len \in Nat /\ len <= Len(arr)
    BY DEF TypeInv
  <1>3. CASE adv # None /\ adv.pc = "filter"
    <2>1. adv.i <= len + 1 /\ Kept = 1 .. adv.kept /\ Unread = adv.i .. len
      BY <1>3 DEF TypeInv, Kept, Unread
    <2>2. Slots \in SUBSET (1 .. len) /\ Slots = (1 .. adv.kept) \cup (adv.i .. len)
      BY <1>1, <1>2, <1>3, <2>1 DEF Slots
    <2>3. \A n \in Slots : arr[n] \in Timer
      BY <1>2, <2>2
    <2> QED
      BY <1>1, <1>3, <2>1, <2>2, <2>3 DEF Firing
  <1>4. CASE ~(adv # None /\ adv.pc = "filter")
    <2>1. Kept = 1 .. len /\ Unread = {}
      BY <1>4 DEF Kept, Unread
    <2>2. Slots = 1 .. len /\ \A n \in Slots : arr[n] \in Timer
      BY <1>2, <2>1 DEF Slots
    <2> QED
      BY <1>1, <1>4, <2>1, <2>2 DEF Firing
  <1> QED
    BY <1>3, <1>4

\* No place of the array, and none of the list of those to fire, holds a timer
\* that another place holds.
Once ==
  /\ \A m, n \in Slots : arr[m] = arr[n] => m = n
  /\ \A m, n \in Firing : adv.fired[m] = adv.fired[n] => m = n

\* After puts its timer into the array.
LEMMA AfterMoves ==
  ASSUME TypeInv, HomeInv, NEW x \in Timer, NEW d \in Durations, After(x, d)
  PROVE  /\ Once'
         /\ \A t \in Timer : /\ InArr(t)' <=> InArr(t) \/ t = x
                             /\ InFired(t)' <=> InFired(t)
                             /\ InChan(t)' <=> InChan(t)
                             /\ InGot(t)' <=> InGot(t)
  <1>1. /\ TypeInv' /\ Len(arr') = len + 1 /\ arr'[len + 1] = x
        /\ \A n \in 1 .. len : arr'[n] = arr[n]
    BY AfterType
  <1>2. adv = None /\ adv' = None /\ len' = len + 1 /\ len \in Nat /\ chan' = chan /\ got' = got
        /\ timers[x] = None
    BY DEF After, TypeInv
  <1>3. Slots = 1 .. len /\ Firing = {}
    BY <1>2, Places
  <1>4. Slots' = 1 .. len' /\ Firing' = {}
    BY <1>1, <1>2 DEF Slots, Kept, Unread, Firing
  <1>5. Slots' = Slots \cup {len + 1} /\ ~(len + 1 \in Slots)
    BY <1>2, <1>3, <1>4
  <1>6. ~InArr(x)
    BY <1>2 DEF HomeInv
  <1>7. \A t \in Timer : InArr(t)' <=> InArr(t) \/ t = x
    BY <1>1, <1>3, <1>5 DEF InArr
  <1>8. \A m, n \in Slots' : arr'[m] = arr'[n] => m = n
    BY <1>1, <1>3, <1>5, <1>6 DEF InArr, HomeInv
  <1>9. \A t \in Timer : /\ InFired(t)' <=> InFired(t)
                         /\ InChan(t)' <=> InChan(t)
                         /\ InGot(t)' <=> InGot(t)
    BY <1>2, <1>3, <1>4 DEF InFired, InChan, InGot
  <1> QED
    BY <1>4, <1>7, <1>8, <1>9 DEF Once

\* The filter takes a due timer out of the array.
LEMMA DueMoves ==
  ASSUME TypeInv, HomeInv, Filter, Due(arr[adv.i])
  PROVE  /\ Once' /\ InArr(arr[adv.i]) /\ Kept' = Kept
         /\ \A t \in Timer : /\ InArr(t)' <=> InArr(t) /\ t # arr[adv.i]
                             /\ InFired(t)' <=> InFired(t) \/ t = arr[adv.i]
                             /\ InChan(t)' <=> InChan(t)
                             /\ InGot(t)' <=> InGot(t)
  <1> DEFINE x == arr[adv.i]
  <1>1. /\ adv.i \in 1 .. len /\ x \in Timer /\ adv' \in Call /\ adv'.pc = "filter"
        /\ adv'.i = adv.i + 1 /\ adv'.kept = adv.kept /\ adv'.fired = Append(adv.fired, x)
        /\ arr' = arr
    BY FilterDue
  <1>2. /\ adv # None /\ adv \in Call /\ adv.pc = "filter" /\ len' = len /\ chan' = chan
        /\ got' = got /\ adv.kept < adv.i
    BY DEF Filter, TypeInv
  <1>3. adv.kept \in Nat /\ adv.i \in Nat /\ adv.fired \in Seq(Timer) /\ adv' # None
    BY <1>1, <1>2, CallFields
  <1>4. Slots = (1 .. adv.kept) \cup (adv.i .. len) /\ Kept = 1 .. adv.kept
        /\ Firing = 1 .. Len(adv.fired)
    BY <1>2, Places
  <1>5. Kept' = 1 .. adv.kept /\ Unread' = (adv.i + 1) .. len
    BY <1>1, <1>2, <1>3 DEF Kept, Unread
  <1>6. Slots' = Slots \ {adv.i} /\ adv.i \in Slots
    BY <1>1, <1>2, <1>3, <1>4, <1>5 DEF Slots
  <1>7. Firing' = Firing \cup {Len(adv.fired) + 1}
    BY <1>1, <1>3, <1>4 DEF Firing
  <1>8. /\ \A n \in Firing : adv'.fired[n] = adv.fired[n]
        /\ adv'.fired[Len(adv.fired) + 1] = x
    BY <1>1, <1>3, <1>4
  <1>9. InArr(x) /\ ~InFired(x)
    BY <1>1, <1>6 DEF InArr, HomeInv
  <1>10. \A t \in Timer : InArr(t)' <=> InArr(t) /\ t # x
    BY <1>1, <1>6 DEF InArr, HomeInv
  <1>11. \A t \in Timer : InFired(t)' <=> InFired(t) \/ t = x
    BY <1>7, <1>8 DEF InFired
  <1>12. \A m, n \in Slots' : arr'[m] = arr'[n] => m = n
    BY <1>1, <1>6 DEF HomeInv
  <1>13. \A m, n \in Firing' : adv'.fired[m] = adv'.fired[n] => m = n
    BY <1>7, <1>8, <1>9 DEF InFired, HomeInv
  <1>14. \A t \in Timer : (InChan(t)' <=> InChan(t)) /\ (InGot(t)' <=> InGot(t))
    BY <1>2 DEF InChan, InGot
  <1> QED
    BY <1>4, <1>5, <1>9, <1>10, <1>11, <1>12, <1>13, <1>14 DEF Once

\* One that is kept moves within the array, over one that was read.
LEMMA KeepMoves ==
  ASSUME TypeInv, HomeInv, Filter, ~Due(arr[adv.i])
  PROVE  /\ Once' /\ Kept' = Kept \cup {adv.kept + 1} /\ arr'[adv.kept + 1] = arr[adv.i]
         /\ \A n \in Kept : arr'[n] = arr[n]
         /\ \A t \in Timer : /\ InArr(t)' <=> InArr(t)
                             /\ InFired(t)' <=> InFired(t)
                             /\ InChan(t)' <=> InChan(t)
                             /\ InGot(t)' <=> InGot(t)
  <1> DEFINE k == adv.kept + 1
  <1>1. /\ adv.i \in 1 .. len /\ adv' \in Call /\ adv'.pc = "filter"
        /\ adv'.i = adv.i + 1 /\ adv'.kept = k /\ adv'.fired = adv.fired
        /\ arr' = [arr EXCEPT ![k] = arr[adv.i]]
    BY FilterKeeps
  <1>2. /\ adv # None /\ adv \in Call /\ adv.pc = "filter" /\ len' = len /\ chan' = chan
        /\ got' = got /\ adv.kept < adv.i /\ len \in Nat /\ len <= Len(arr)
        /\ arr \in Seq(Timer)
    BY DEF Filter, TypeInv
  <1>3. adv.kept \in Nat /\ adv.i \in Nat /\ adv' # None
    BY <1>1, <1>2, CallFields
  <1>4. Slots = (1 .. adv.kept) \cup (adv.i .. len) /\ Kept = 1 .. adv.kept
    BY <1>2, Places
  <1>5. Kept' = 1 .. k /\ Unread' = (adv.i + 1) .. len /\ Firing' = Firing
    BY <1>1, <1>2, <1>3 DEF Kept, Unread, Firing
  <1>6. Slots' = (Slots \ {adv.i}) \cup {k} /\ adv.i \in Slots
        /\ ~(k \in Slots \ {adv.i}) /\ Kept' = Kept \cup {k} /\ ~(k \in Kept)
    BY <1>1, <1>2, <1>3, <1>4, <1>5 DEF Slots
  <1>7. k \in 1 .. Len(arr)
    BY <1>1, <1>2, <1>3
  <1>8. arr'[k] = arr[adv.i] /\ \A n \in 1 .. len : n # k => arr'[n] = arr[n]
    BY <1>1, <1>2, <1>7
  <1>9. Slots \in SUBSET (1 .. len) /\ Kept \in SUBSET (1 .. len)
    BY Places DEF Slots
  <1> HIDE DEF k
  <1>10. \A n \in Slots \ {adv.i} : arr'[n] = arr[n]
    BY <1>6, <1>8, <1>9
  <1>11. \A t \in Timer : InArr(t)' <=> InArr(t)
    BY <1>6, <1>8, <1>10 DEF InArr
  <1>12. \A m, n \in Slots' : arr'[m] = arr'[n] => m = n
    BY <1>6, <1>8, <1>10 DEF HomeInv
  <1>13. \A n \in Kept : arr'[n] = arr[n]
    BY <1>6, <1>8, <1>9
  <1>14. \A t \in Timer : /\ InFired(t)' <=> InFired(t)
                          /\ InChan(t)' <=> InChan(t)
                          /\ InGot(t)' <=> InGot(t)
    BY <1>1, <1>2, <1>5 DEF InFired, InChan, InGot
  <1>15. \A m, n \in Firing' : adv'.fired[m] = adv'.fired[n] => m = n
    BY <1>1, <1>5 DEF HomeInv
  <1> QED
    BY <1>6, <1>8, <1>11, <1>12, <1>13, <1>14, <1>15 DEF Once, k

\* A timer that fires leaves the list for its channel, which is empty.
LEMMA FireMoves ==
  ASSUME TypeInv, HomeInv, Fire
  PROVE  /\ Once' /\ Head(adv.fired) \in Timer /\ InFired(Head(adv.fired))
         /\ Kept' = Kept /\ Slots' = Slots /\ adv.pc = "fire"
         /\ chan' = [chan EXCEPT ![Head(adv.fired)] = <<now>>]
         /\ \A t \in Timer : /\ InArr(t)' <=> InArr(t)
                             /\ InFired(t)' <=> InFired(t) /\ t # Head(adv.fired)
                             /\ InChan(t)' <=> InChan(t) \/ t = Head(adv.fired)
                             /\ InGot(t)' <=> InGot(t)
  <1> DEFINE x == Head(adv.fired)
             s == adv.fired
  <1>1. /\ adv \in Call /\ adv.pc = "fire" /\ s # <<>> /\ x \in Timer
        /\ adv' \in Call /\ adv'.pc = "fire" /\ adv'.fired = Tail(s)
    BY FireStep
  <1>2. adv # None /\ adv' # None /\ s \in Seq(Timer)
    BY <1>1, CallFields
  <1>3. UNCHANGED <<now, timers, arr, len, got>>
    BY DEF Fire
  <1>4. Kept' = Kept /\ Slots' = Slots /\ Firing = DOMAIN s /\ Firing' = DOMAIN Tail(s)
    BY <1>1, <1>2, <1>3 DEF Slots, Kept, Unread, Firing
  <1> HIDE DEF s
  <1>5. /\ Len(s) \in Nat /\ 1 \in Firing /\ s[1] = x /\ Firing = 1 .. Len(s)
        /\ Firing' = 1 .. (Len(s) - 1) /\ \A n \in Firing' : Tail(s)[n] = s[n + 1]
    BY <1>1, <1>2, <1>4 DEF s
  <1>6. \A m, n \in Firing : s[m] = s[n] => m = n
    BY DEF HomeInv, s
  <1>7. InFired(x)
    BY <1>5 DEF InFired, s
  <1>8. \A t \in Timer : InFired(t)' <=> InFired(t) /\ t # x
    <2> SUFFICES ASSUME NEW t \in Timer
                 PROVE  (\E n \in Firing' : Tail(s)[n] = t)
                        <=> (\E n \in Firing : s[n] = t) /\ t # x
      BY <1>1 DEF InFired, s
    <2>1. ASSUME NEW n \in Firing', Tail(s)[n] = t
          PROVE  (\E m \in Firing : s[m] = t) /\ t # x
      <3>1. n + 1 \in Firing /\ s[n + 1] = t /\ n + 1 # 1
        BY <1>5, <2>1
      <3> QED
        BY <1>5, <1>6, <3>1
    <2>2. ASSUME NEW n \in Firing, s[n] = t, t # x
          PROVE  \E m \in Firing' : Tail(s)[m] = t
      <3>1. n - 1 \in Firing' /\ (n - 1) + 1 = n
        BY <1>5, <2>2
      <3> QED
        BY <1>5, <2>2, <3>1
    <2> QED
      BY <2>1, <2>2
  <1>9. \A m, n \in Firing' : adv'.fired[m] = adv'.fired[n] => m = n
    <2> SUFFICES ASSUME NEW m \in Firing', NEW n \in Firing', Tail(s)[m] = Tail(s)[n]
                 PROVE  m = n
      BY <1>1 DEF s
    <2>1. m + 1 \in Firing /\ n + 1 \in Firing /\ s[m + 1] = s[n + 1]
      BY <1>5
    <2> QED
      BY <1>5, <1>6, <2>1
  <1>10. ~InChan(x)
    BY <1>1, <1>7 DEF HomeInv
  <1>11. chan' = [chan EXCEPT ![x] = <<now>>]
    BY <1>10 DEF Fire, InChan
  <1>12. \A t \in Timer : InChan(t)' <=> InChan(t) \/ t = x
    BY <1>1, <1>11 DEF InChan, TypeInv
  <1>13. \A t \in Timer : (InArr(t)' <=> InArr(t)) /\ (InGot(t)' <=> InGot(t))
    BY <1>3, <1>4 DEF InArr, InGot
  <1>14. \A m, n \in Slots' : arr'[m] = arr'[n] => m = n
    BY <1>3, <1>4 DEF HomeInv
  <1> QED
    BY <1>1, <1>4, <1>7, <1>8, <1>9, <1>11, <1>12, <1>13, <1>14 DEF Once

\* A receiver empties the channel.
LEMMA ReceiveMoves ==
  ASSUME TypeInv, HomeInv, NEW x \in Timer, Receive(x)
  PROVE  /\ Once' /\ InChan(x) /\ Kept' = Kept /\ got'[x] = chan[x][1]
         /\ \A t \in Timer : t # x => got'[t] = got[t] /\ chan'[t] = chan[t]
         /\ \A t \in Timer : /\ InArr(t)' <=> InArr(t)
                             /\ InFired(t)' <=> InFired(t)
                             /\ InChan(t)' <=> InChan(t) /\ t # x
                             /\ InGot(t)' <=> InGot(t) \/ t = x
  <1>1. UNCHANGED <<now, timers, arr, len, adv>> /\ chan[x] # <<>>
    BY DEF Receive
  <1>2. Slots' = Slots /\ Kept' = Kept /\ Firing' = Firing
    BY <1>1 DEF Slots, Kept, Unread, Firing
  <1>3. chan[x] \in Seq(Nat) /\ Len(chan[x]) <= 1 /\ chan[x] # <<>>
    BY <1>1 DEF TypeInv
  <1>4. Tail(chan[x]) = <<>> /\ Head(chan[x]) = chan[x][1] /\ chan[x][1] \in Nat
    BY <1>3
  <1>5. /\ got'[x] = chan[x][1] /\ chan'[x] = <<>>
        /\ \A t \in Timer : t # x => got'[t] = got[t] /\ chan'[t] = chan[t]
    BY <1>4 DEF Receive, TypeInv
  <1>6. got'[x] # None
    BY <1>4, <1>5, ClockAssumption
  <1>7. \A t \in Timer : /\ InArr(t)' <=> InArr(t)
                         /\ InFired(t)' <=> InFired(t)
    BY <1>1, <1>2 DEF InArr, InFired
  <1>8. \A t \in Timer : /\ InChan(t)' <=> InChan(t) /\ t # x
                         /\ InGot(t)' <=> InGot(t) \/ t = x
    BY <1>5, <1>6 DEF InChan, InGot
  <1>9. Once'
    BY <1>1, <1>2 DEF HomeInv, Once
  <1> QED
    BY <1>1, <1>2, <1>5, <1>7, <1>8, <1>9 DEF InChan

\* The other steps move nothing.
LEMMA RestMoves ==
  ASSUME TypeInv, HomeInv,
         (\E d \in Durations : Advance(d)) \/ Filtered \/ Unlock \/ UNCHANGED vars
  PROVE  /\ Once' /\ timers' = timers /\ arr' = arr /\ chan' = chan /\ got' = got
         /\ Slots' = Slots
         /\ \A t \in Timer : /\ InArr(t)' <=> InArr(t)
                             /\ InFired(t)' <=> InFired(t)
                             /\ InChan(t)' <=> InChan(t)
                             /\ InGot(t)' <=> InGot(t)
  <1>1. /\ timers' = timers /\ arr' = arr /\ chan' = chan /\ got' = got
    BY DEF Advance, Filtered, Unlock, vars
  <1>2. /\ Slots' = Slots /\ Firing' = Firing
        /\ \A n \in Firing : adv'.fired[n] = adv.fired[n]
    <2>1. ASSUME NEW d \in Durations, Advance(d)
          PROVE  Slots' = Slots /\ Firing' = {} /\ Firing = {}
      <3>1. adv = None /\ adv' = Started /\ adv' # None /\ len' = len
        BY <2>1, StartedType, CallFields DEF Advance
      <3>2. Kept' = 1 .. 0 /\ Unread' = 1 .. len /\ Firing' = DOMAIN <<>>
        BY <3>1, StartedType DEF Kept, Unread, Firing
      <3>3. Slots = 1 .. len /\ Firing = {}
        BY <3>1, Places
      <3> QED
        BY <3>2, <3>3 DEF Slots
    <2>2. CASE Filtered
      <3>1. /\ adv \in Call /\ adv.pc = "filter" /\ adv.i = len + 1 /\ adv.kept <= len
            /\ adv' \in Call /\ adv'.pc = "fire" /\ adv'.fired = adv.fired
        BY <2>2, FilteredStep
      <3>2. adv # None /\ adv' # None /\ len' = adv.kept /\ len \in Nat /\ adv.kept \in Nat
        BY <2>2, <3>1, CallFields DEF Filtered, TypeInv
      <3>3. Slots = (1 .. adv.kept) \cup (adv.i .. len)
        BY <3>1, <3>2, Places
      <3>4. Kept' = 1 .. adv.kept /\ Unread' = {} /\ Firing' = Firing
        BY <3>1, <3>2 DEF Kept, Unread, Firing
      <3> QED
        BY <3>1, <3>2, <3>3, <3>4 DEF Slots
    <2>3. CASE Unlock
      <3>1. adv # None /\ adv.pc = "fire" /\ adv.fired = <<>> /\ adv' = None /\ len' = len
        BY <2>3 DEF Unlock
      <3> QED
        BY <3>1 DEF Slots, Kept, Unread, Firing
    <2>4. CASE UNCHANGED vars
      BY <2>4 DEF vars, Slots, Kept, Unread, Firing
    <2> QED
      BY <2>1, <2>2, <2>3, <2>4
  <1>3. \A t \in Timer : /\ InArr(t)' <=> InArr(t)
                         /\ InFired(t)' <=> InFired(t)
                         /\ InChan(t)' <=> InChan(t)
                         /\ InGot(t)' <=> InGot(t)
    BY <1>1, <1>2 DEF InArr, InFired, InChan, InGot
  <1>4. Once'
    BY <1>1, <1>2 DEF HomeInv, Once
  <1> QED
    BY <1>1, <1>2, <1>3, <1>4

-----------------------------------------------------------------------------
(* The three properties.                                                   *)

\* With no waiter there is nothing to keep, to fire or to order.
LEMMA InitHome == Init => HomeInv /\ DueInv /\ OrderInv
  <1> SUFFICES ASSUME Init
               PROVE  HomeInv /\ DueInv /\ OrderInv
    OBVIOUS
  <1>1. Slots = {} /\ Firing = {} /\ Kept = {}
    BY DEF Init, Slots, Kept, Unread, Firing
  <1>2. \A t \in Timer : ~InArr(t) /\ ~InFired(t) /\ ~InChan(t) /\ ~InGot(t)
    BY <1>1 DEF Init, InArr, InFired, InChan, InGot
  <1> QED
    BY <1>1, <1>2 DEF Init, HomeInv, DueInv, OrderInv, IsTold

\* Registered timers stay registered, with the entry they have.
LEMMA EntriesKept ==
  ASSUME TypeInv, [Next]_vars, NEW t \in Timer, timers[t] # None
  PROVE  timers'[t] = timers[t]
  <1>1. ASSUME NEW x \in Timer, NEW d \in Durations, After(x, d)
        PROVE  timers'[t] = timers[t]
    BY <1>1 DEF After, TypeInv
  <1> QED
    BY <1>1 DEF Next, Running, Advance, Filter, Filtered, Fire, Unlock, Receive, vars

\* No step loses or doubles a timer.
LEMMA HomeNext ==
  ASSUME TypeInv, HomeInv, [Next]_vars
  PROVE  HomeInv'
  <1>1. ASSUME NEW x \in Timer, NEW d \in Durations, After(x, d)
        PROVE  HomeInv'
    <2>1. timers' = [timers EXCEPT ![x] = [born |-> now, deadline |-> now + d]]
          /\ timers[x] = None
      BY <1>1 DEF After
    <2>2. [born |-> now, deadline |-> now + d] # None
      BY ClockAssumption DEF TypeInv
    <2>3. \A t \in Timer : timers'[t] # None <=> timers[t] # None \/ t = x
      BY <2>1, <2>2 DEF TypeInv
    <2> QED
      BY <1>1, <2>1, <2>3, AfterMoves DEF HomeInv, Once
  <1>2. CASE Filter
    <2>1. timers' = timers
      BY <1>2 DEF Filter
    <2> QED
      BY <1>2, <2>1, DueMoves, KeepMoves DEF HomeInv, Once
  <1>3. CASE Fire
    <2>1. timers' = timers
      BY <1>3 DEF Fire
    <2> QED
      BY <1>3, <2>1, FireMoves DEF HomeInv, Once
  <1>4. ASSUME NEW x \in Timer, Receive(x)
        PROVE  HomeInv'
    <2>1. timers' = timers
      BY <1>4 DEF Receive
    <2> QED
      BY <1>4, <2>1, ReceiveMoves DEF HomeInv, Once
  <1>5. CASE (\E d \in Durations : Advance(d)) \/ Filtered \/ Unlock \/ UNCHANGED vars
    BY <1>5, RestMoves DEF HomeInv, Once
  <1> QED
    BY <1>1, <1>2, <1>3, <1>4, <1>5 DEF Next, Running

\* What a timer tells, it told before, or it fires now.
LEMMA ToldKept ==
  ASSUME TypeInv, HomeInv, [Next]_vars, NEW t \in Timer, IsTold(t)'
  PROVE  /\ timers[t] # None /\ Deadline(t)' = Deadline(t)
         /\ \/ IsTold(t) /\ Told(t)' = Told(t)
            \/ Fire /\ t = Head(adv.fired) /\ Told(t)' = now
  <1>1. ASSUME NEW x \in Timer, NEW d \in Durations, After(x, d)
        PROVE  IsTold(t) /\ Told(t)' = Told(t)
    <2>1. IsTold(t)
      BY <1>1, AfterMoves DEF IsTold
    <2> QED
      BY <1>1, <2>1 DEF After, Told
  <1>2. ASSUME Filter
        PROVE  IsTold(t) /\ Told(t)' = Told(t)
    <2>1. IsTold(t)
      BY <1>2, DueMoves, KeepMoves DEF IsTold
    <2> QED
      BY <1>2, <2>1 DEF Filter, Told
  <1>3. ASSUME Fire
        PROVE  \/ IsTold(t) /\ Told(t)' = Told(t)
               \/ t = Head(adv.fired) /\ Told(t)' = now
    <2>1. chan' = [chan EXCEPT ![Head(adv.fired)] = <<now>>] /\ got' = got
      BY <1>3, FireMoves DEF Fire
    <2>2. CASE t = Head(adv.fired)
      <3>1. chan'[t] = <<now>>
        BY <2>1, <2>2 DEF TypeInv
      <3> QED
        BY <1>3, <2>2, <3>1 DEF Told
    <2>3. CASE t # Head(adv.fired)
      <3>1. chan'[t] = chan[t] /\ got'[t] = got[t]
        BY <2>1, <2>3 DEF TypeInv
      <3>2. IsTold(t)
        BY <1>3, <2>3, FireMoves DEF IsTold
      <3> QED
        BY <3>1, <3>2 DEF Told
    <2> QED
      BY <2>2, <2>3
  <1>4. ASSUME NEW x \in Timer, Receive(x)
        PROVE  IsTold(t) /\ Told(t)' = Told(t)
    <2>1. /\ InChan(x) /\ got'[x] = chan[x][1] /\ ~InChan(x)'
          /\ t # x => got'[t] = got[t] /\ chan'[t] = chan[t]
          /\ InChan(t)' <=> InChan(t) /\ t # x
          /\ InGot(t)' <=> InGot(t) \/ t = x
      BY <1>4, ReceiveMoves
    <2>2. IsTold(t)
      BY <2>1 DEF IsTold
    <2>3. CASE t = x
      BY <2>1, <2>2, <2>3 DEF Told, InChan
    <2>4. CASE t # x
      BY <2>1, <2>2, <2>4 DEF Told
    <2> QED
      BY <2>3, <2>4
  <1>5. ASSUME (\E d \in Durations : Advance(d)) \/ Filtered \/ Unlock \/ UNCHANGED vars
        PROVE  IsTold(t) /\ Told(t)' = Told(t)
    BY <1>5, RestMoves DEF IsTold, Told
  <1>6. \/ IsTold(t) /\ Told(t)' = Told(t)
        \/ Fire /\ t = Head(adv.fired) /\ Told(t)' = now
    BY <1>1, <1>2, <1>3, <1>4, <1>5 DEF Next, Running
  <1>7. timers[t] # None
    BY <1>6, FireMoves DEF IsTold, HomeInv
  <1> QED
    BY <1>6, <1>7, EntriesKept DEF Deadline

\* The clock only goes forward.
LEMMA NowGrows ==
  ASSUME TypeInv, [Next]_vars
  PROVE  now \in Nat /\ now' \in Nat /\ now <= now'
  BY ClockAssumption DEF TypeInv, Next, Running, After, Advance, Filter, Filtered, Fire, Unlock,
     Receive, vars

\* A timer with an entry has a deadline; one that is told, tells a time.
LEMMA Times ==
  ASSUME TypeInv, HomeInv, NEW t \in Timer
  PROVE  /\ timers[t] # None => /\ Deadline(t) \in Nat /\ timers[t].born \in Nat
                                /\ timers[t].born <= now /\ timers[t].born <= Deadline(t)
         /\ IsTold(t) => timers[t] # None /\ Told(t) \in Nat
         /\ InArr(t) \/ InFired(t) => timers[t] # None
  <1>1. timers[t] # None => timers[t] \in Entry
    BY DEF TypeInv
  <1>2. InChan(t) => chan[t][1] \in Nat
    BY DEF InChan, TypeInv
  <1>3. InGot(t) => got[t] \in Nat
    BY DEF InGot, TypeInv
  <1> QED
    BY <1>1, <1>2, <1>3 DEF Deadline, Entry, TypeInv, HomeInv, IsTold, Told, InChan

\* Timers fire when they are due, and those that stay are not.
LEMMA DueNext ==
  ASSUME TypeInv, HomeInv, DueInv, [Next]_vars
  PROVE  DueInv'
  <1>1. \A t \in Timer : IsTold(t)' => Deadline(t)' <= Told(t)' /\ Told(t)' <= now'
    <2> SUFFICES ASSUME NEW t \in Timer, IsTold(t)'
                 PROVE  Deadline(t)' <= Told(t)' /\ Told(t)' <= now'
      OBVIOUS
    <2>1. /\ timers[t] # None /\ Deadline(t)' = Deadline(t)
          /\ \/ IsTold(t) /\ Told(t)' = Told(t)
             \/ Fire /\ t = Head(adv.fired) /\ Told(t)' = now
      BY ToldKept
    <2>2. now \in Nat /\ now' \in Nat /\ now <= now' /\ Deadline(t) \in Nat
          /\ (IsTold(t) => Told(t) \in Nat)
      BY <2>1, NowGrows, Times
    <2>3. CASE IsTold(t) /\ Told(t)' = Told(t)
      BY <2>1, <2>2, <2>3 DEF DueInv
    <2>4. CASE Fire /\ t = Head(adv.fired) /\ Told(t)' = now
      BY <2>1, <2>2, <2>4, FireMoves DEF DueInv
    <2> QED
      BY <2>1, <2>3, <2>4
  <1>2. \A t \in Timer : InFired(t)' => Deadline(t)' <= now'
    <2> SUFFICES ASSUME NEW t \in Timer, InFired(t)'
                 PROVE  Deadline(t)' <= now'
      OBVIOUS
    <2>1. InFired(t) \/ (Filter /\ Due(arr[adv.i]) /\ t = arr[adv.i] /\ InArr(t))
      BY AfterMoves, DueMoves, KeepMoves, FireMoves, ReceiveMoves, RestMoves
      DEF Next, Running
    <2>2. timers[t] # None /\ Deadline(t)' = Deadline(t)
      BY <2>1, EntriesKept DEF HomeInv, Deadline
    <2>3. Deadline(t) <= now
      BY <2>1 DEF DueInv, Due, Deadline
    <2> QED
      BY <2>2, <2>3, NowGrows, Times
  <1>3. ASSUME NEW n \in Kept'
        PROVE  /\ adv' # None => (Deadline(arr[n]) > now)'
               /\ adv' = None =>
                    \/ (Deadline(arr[n]) > now)'
                    \/ (Deadline(arr[n]) = timers[arr[n]].born /\ timers[arr[n]].born = now)'
    <2>1. \A m \in Kept : arr[m] \in Timer /\ timers[arr[m]] # None
                          /\ timers'[arr[m]] = timers[arr[m]]
      <3> SUFFICES ASSUME NEW m \in Kept
                   PROVE  arr[m] \in Timer /\ timers[arr[m]] # None
                          /\ timers'[arr[m]] = timers[arr[m]]
        OBVIOUS
      <3>1. m \in Slots /\ arr[m] \in Timer
        BY Places DEF Slots
      <3> QED
        BY <3>1, EntriesKept DEF InArr, HomeInv
    <2>2. ASSUME NEW x \in Timer, NEW d \in Durations, After(x, d)
          PROVE  \/ Deadline(arr[n])' > now
                 \/ Deadline(arr[n])' = (timers[arr[n]].born)' /\ (timers[arr[n]].born)' = now
      <3>1. adv = None /\ adv' = None /\ Kept = 1 .. len /\ Kept' = 1 .. (len + 1) /\ len \in Nat
        BY <2>2, Places DEF After, Kept, TypeInv
      <3>2. arr'[len + 1] = x /\ \A m \in 1 .. len : arr'[m] = arr[m]
        BY <2>2, AfterType
      <3>3. timers'[x] = [born |-> now, deadline |-> now + d] /\ d \in Nat /\ now \in Nat
        BY <2>2, ClockAssumption DEF After, TypeInv
      <3>4. CASE n = len + 1
        BY <3>2, <3>3, <3>4 DEF Deadline
      <3>5. CASE n \in Kept
        BY <2>1, <3>1, <3>2, <3>5 DEF Deadline, DueInv
      <3> QED
        BY <3>1, <3>4, <3>5
    <2>3. ASSUME NEW d \in Durations, Advance(d)
          PROVE  FALSE
      <3>1. adv' = Started /\ adv' # None
        BY <2>3, StartedType, CallFields DEF Advance
      <3> QED
        BY <3>1, StartedType DEF Kept
    <2>4. ASSUME Filter
          PROVE  adv' # None /\ Deadline(arr[n])' > now
      <3>1. CASE Due(arr[adv.i])
        <4>1. adv' # None /\ Kept' = Kept /\ arr' = arr /\ adv # None
          BY <2>4, <3>1, DueMoves, FilterDue, CallFields DEF Filter
        <4> QED
          BY <2>1, <4>1 DEF Deadline, DueInv
      <3>2. CASE ~Due(arr[adv.i])
        <4>1. /\ adv' # None /\ adv # None /\ Kept' = Kept \cup {adv.kept + 1}
              /\ arr'[adv.kept + 1] = arr[adv.i] /\ \A m \in Kept : arr'[m] = arr[m]
              /\ timers' = timers /\ arr[adv.i] \in Timer
          BY <2>4, <3>2, KeepMoves, FilterKeeps, CallFields DEF Filter
        <4>2. CASE n \in Kept
          BY <2>1, <4>1, <4>2 DEF Deadline, DueInv
        <4>3. CASE n = adv.kept + 1
          <5>1. InArr(arr[adv.i])
            <6>1. adv # None /\ adv.pc = "filter" /\ adv.i \in 1 .. len
              BY <2>4, <3>2, FilterKeeps DEF Filter
            <6>2. adv.i \in Slots
              BY <6>1, Places
            <6> QED
              BY <6>2 DEF InArr
          <5>2. Deadline(arr[adv.i]) \in Nat /\ now \in Nat
            BY <4>1, <5>1, Times DEF TypeInv
          <5> QED
            BY <3>2, <4>1, <4>3, <5>2 DEF Deadline, Due
        <4> QED
          BY <4>1, <4>2, <4>3
      <3> QED
        BY <3>1, <3>2
    <2>5. CASE Filtered \/ Fire \/ Unlock
      <3>1. adv # None /\ Kept' = Kept /\ arr' = arr /\ timers' = timers /\ now' = now
        <4>1. CASE Filtered
          <5>1. adv' # None /\ adv'.pc = "fire"
            BY <4>1, FilteredStep, CallFields
          <5> QED
            BY <4>1, <5>1, Places DEF Filtered, Kept
        <4>2. CASE Fire
          BY <4>2, FireMoves DEF Fire
        <4>3. CASE Unlock
          BY <4>3 DEF Unlock, Kept
        <4> QED
          BY <2>5, <4>1, <4>2, <4>3
      <3> QED
        BY <2>1, <3>1 DEF Deadline, DueInv
    <2>6. ASSUME NEW x \in Timer, Receive(x)
          PROVE  Kept' = Kept /\ arr' = arr /\ timers' = timers /\ now' = now /\ adv' = adv
      BY <2>6, ReceiveMoves DEF Receive
    <2>7. CASE UNCHANGED vars
      BY <2>7 DEF vars, DueInv, Deadline, Kept
    <2>8. CASE \E x \in Timer, d \in Durations : After(x, d)
      BY <2>2, <2>8 DEF After, Deadline
    <2>9. CASE Filter
      BY <2>4, <2>9 DEF Filter, Deadline
    <2>10. CASE \E x \in Timer : Receive(x)
      BY <2>6, <2>10 DEF DueInv, Deadline
    <2> QED
      BY <2>3, <2>5, <2>7, <2>8, <2>9, <2>10 DEF Next, Running
  <1> QED
    BY <1>1, <1>2, <1>3 DEF DueInv

\* A timer that waits is due no earlier than any time that was told.
LEMMA OrderNext ==
  ASSUME TypeInv, HomeInv, DueInv, OrderInv, [Next]_vars
  PROVE  OrderInv'
  <1>1. \A t, u \in Timer : IsTold(u)' /\ InArr(t)' => Told(u)' <= Deadline(t)'
    <2> SUFFICES ASSUME NEW t \in Timer, NEW u \in Timer, IsTold(u)', InArr(t)'
                 PROVE  Told(u)' <= Deadline(t)'
      OBVIOUS
    <2>1. /\ \/ IsTold(u) /\ Told(u)' = Told(u)
             \/ Fire /\ u = Head(adv.fired) /\ Told(u)' = now
      BY ToldKept
    <2>2. CASE InArr(t)
      <3>1. Deadline(t)' = Deadline(t) /\ Deadline(t) \in Nat /\ now \in Nat
        BY <2>2, EntriesKept, Times, NowGrows DEF Deadline
      <3>2. CASE IsTold(u) /\ Told(u)' = Told(u)
        BY <2>2, <3>1, <3>2 DEF OrderInv
      <3>3. CASE Fire /\ u = Head(adv.fired) /\ Told(u)' = now
        <4>1. adv # None /\ adv.pc = "fire"
          BY <3>3 DEF Fire
        <4>2. Slots = Kept
          BY <4>1, Places
        <4>3. Deadline(t) > now
          BY <2>2, <4>1, <4>2 DEF InArr, DueInv
        <4> QED
          BY <3>1, <3>3, <4>3
      <3> QED
        BY <2>1, <3>2, <3>3
    <2>3. CASE ~InArr(t)
      <3>1. \E d \in Durations : After(t, d)
        BY <2>3, AfterMoves, DueMoves, KeepMoves, FireMoves, ReceiveMoves, RestMoves
        DEF Next, Running
      <3>2. PICK d \in Durations : After(t, d)
        BY <3>1
      <3>3. adv = None /\ timers' = [timers EXCEPT ![t] = [born |-> now, deadline |-> now + d]]
        BY <3>2 DEF After
      <3>4. Deadline(t)' = now + d /\ d \in Nat /\ now \in Nat
        BY <3>3, ClockAssumption DEF TypeInv, Deadline
      <3>5. IsTold(u) /\ Told(u)' = Told(u)
        BY <2>1, <3>3 DEF Fire
      <3>6. Told(u) <= now /\ Told(u) \in Nat
        BY <3>5, Times DEF DueInv
      <3> QED
        BY <3>4, <3>5, <3>6
    <2> QED
      BY <2>2, <2>3
  <1>2. \A t, u \in Timer : IsTold(u)' /\ InFired(t)' =>
          Told(u)' <= Deadline(t)' \/ Told(u)' = now'
    <2> SUFFICES ASSUME NEW t \in Timer, NEW u \in Timer, IsTold(u)', InFired(t)'
                 PROVE  Told(u)' <= Deadline(t)' \/ Told(u)' = now'
      OBVIOUS
    <2>1. \/ InFired(t) /\ adv # None
          \/ Filter /\ InArr(t)
      <3>1. InFired(t) \/ (Filter /\ Due(arr[adv.i]) /\ t = arr[adv.i] /\ InArr(t))
        BY AfterMoves, DueMoves, KeepMoves, FireMoves, ReceiveMoves, RestMoves
        DEF Next, Running
      <3>2. InFired(t) => adv # None
        BY Places DEF InFired
      <3> QED
        BY <3>1, <3>2
    <2>2. now' = now
      <3>1. adv # None
        BY <2>1 DEF Filter
      <3> QED
        BY <3>1 DEF Next, Running, After, Advance, Filter, Filtered, Fire, Unlock, Receive, vars
    <2>3. Deadline(t)' = Deadline(t)
      BY <2>1, EntriesKept, Times DEF Deadline
    <2>4. \/ IsTold(u) /\ Told(u)' = Told(u)
          \/ Told(u)' = now
      BY ToldKept
    <2> QED
      BY <2>1, <2>2, <2>3, <2>4 DEF OrderInv
  <1>3. \A t, u \in Timer : IsTold(t)' /\ IsTold(u)' /\ Deadline(t)' < Deadline(u)' =>
                              Told(t)' <= Told(u)'
    <2> SUFFICES ASSUME NEW t \in Timer, NEW u \in Timer, IsTold(t)', IsTold(u)',
                        Deadline(t)' < Deadline(u)'
                 PROVE  Told(t)' <= Told(u)'
      OBVIOUS
    <2>1. /\ timers[t] # None /\ Deadline(t)' = Deadline(t)
          /\ \/ IsTold(t) /\ Told(t)' = Told(t)
             \/ Fire /\ t = Head(adv.fired) /\ Told(t)' = now
      BY ToldKept
    <2>2. /\ timers[u] # None /\ Deadline(u)' = Deadline(u)
          /\ \/ IsTold(u) /\ Told(u)' = Told(u)
             \/ Fire /\ u = Head(adv.fired) /\ Told(u)' = now
      BY ToldKept
    <2>3. /\ Deadline(t) \in Nat /\ Deadline(u) \in Nat /\ now \in Nat
          /\ Deadline(t) < Deadline(u)
          /\ IsTold(t) => Told(t) \in Nat /\ Told(t) <= now
          /\ IsTold(u) => Told(u) \in Nat /\ Deadline(u) <= Told(u)
      BY <2>1, <2>2, Times, NowGrows DEF DueInv
    <2>4. CASE Told(u)' = now
      BY <2>1, <2>3, <2>4
    <2>5. CASE IsTold(u) /\ Told(u)' = Told(u)
      <3>1. CASE IsTold(t) /\ Told(t)' = Told(t)
        BY <2>3, <2>5, <3>1 DEF OrderInv
      <3>2. CASE Fire /\ t = Head(adv.fired) /\ Told(t)' = now
        <4>1. InFired(t)
          BY <3>2, FireMoves
        <4>2. Told(u) <= Deadline(t) \/ Told(u) = now
          BY <2>5, <4>1 DEF OrderInv
        <4> QED
          BY <2>3, <2>5, <3>2, <4>2
      <3> QED
        BY <2>1, <3>1, <3>2
    <2> QED
      BY <2>2, <2>4, <2>5
  <1> QED
    BY <1>1, <1>2, <1>3 DEF OrderInv

\* The three invariants hold together, over the types.
LEMMA ClockInvariant == Spec => [](TypeInv /\ HomeInv /\ DueInv /\ OrderInv)
  <1>1. Init => HomeInv /\ DueInv /\ OrderInv
    BY InitHome
  <1>2. TypeInv /\ HomeInv /\ DueInv /\ OrderInv /\ [Next]_vars
          => (HomeInv /\ DueInv /\ OrderInv)'
    BY HomeNext, DueNext, OrderNext
  <1> QED
    BY <1>1, <1>2, Typed, PTL DEF Spec

\* A set of places that hold different timers has at most one with a given one.
LEMMA OneOrNone ==
  ASSUME NEW S, NEW f, NEW x, \A m, n \in S : f[m] = f[n] => m = n
  PROVE  Cardinality({n \in S : f[n] = x}) = IF \E n \in S : f[n] = x THEN 1 ELSE 0
  <1>1. CASE \E n \in S : f[n] = x
    <2>1. PICK n \in S : f[n] = x
      BY <1>1
    <2>2. {m \in S : f[m] = x} = {n}
      BY <2>1
    <2> QED
      BY <1>1, <2>2, FS_Singleton
  <1>2. CASE ~\E n \in S : f[n] = x
    <2>1. {n \in S : f[n] = x} = {}
      BY <1>2
    <2> QED
      BY <1>2, <2>1, FS_EmptySet
  <1> QED
    BY <1>1, <1>2

\* The filter works in the array it reads, and loses and doubles nothing: a
\* timer is, at every step of an Advance, in exactly one place (Fake.Advance).
THEOREM OneHomeHolds == Spec => []OneHome
  <1>1. ASSUME TypeInv, HomeInv, NEW t \in Timer
        PROVE  Cardinality({n \in Kept : arr[n] = t}) + Cardinality({n \in Unread : arr[n] = t})
                 + (IF adv # None THEN Cardinality({n \in Firing : adv.fired[n] = t}) ELSE 0)
                 + Len(chan[t]) + (IF got[t] # None THEN 1 ELSE 0)
               = IF timers[t] # None THEN 1 ELSE 0
    <2> DEFINE KeptIn == \E n \in Kept : arr[n] = t
               UnreadIn == \E n \in Unread : arr[n] = t
               k == Cardinality({n \in Kept : arr[n] = t})
               u == Cardinality({n \in Unread : arr[n] = t})
               f == IF adv # None THEN Cardinality({n \in Firing : adv.fired[n] = t}) ELSE 0
    <2>1. Slots = Kept \cup Unread /\ Kept \cap Unread = {}
      <3>1. CASE adv # None /\ adv.pc = "filter"
        <4>1. adv.kept \in Nat /\ adv.i \in Nat /\ adv.kept < adv.i
          BY <3>1, <1>1, CallFields DEF TypeInv
        <4> QED
          BY <3>1, <4>1 DEF Slots, Kept, Unread
      <3>2. CASE ~(adv # None /\ adv.pc = "filter")
        BY <3>2 DEF Slots, Kept, Unread
      <3> QED
        BY <3>1, <3>2
    <2>2. k = (IF KeptIn THEN 1 ELSE 0) /\ u = (IF UnreadIn THEN 1 ELSE 0)
      <3>1. /\ \A m, n \in Kept : arr[m] = arr[n] => m = n
            /\ \A m, n \in Unread : arr[m] = arr[n] => m = n
        BY <1>1, <2>1 DEF HomeInv
      <3>2. k = IF KeptIn THEN 1 ELSE 0
        BY ONLY <3>1, OneOrNone
      <3>3. u = IF UnreadIn THEN 1 ELSE 0
        BY ONLY <3>1, OneOrNone
      <3> QED
        BY <3>2, <3>3
    <2>3. ~(KeptIn /\ UnreadIn) /\ (InArr(t) <=> KeptIn \/ UnreadIn)
      BY <1>1, <2>1 DEF HomeInv, InArr
    <2>4. f = IF InFired(t) THEN 1 ELSE 0
      <3>1. CASE adv # None
        <4> DEFINE g == adv.fired
        <4>1. \A m, n \in Firing : g[m] = g[n] => m = n
          BY <1>1 DEF HomeInv
        <4>2. f = Cardinality({n \in Firing : g[n] = t})
              /\ (InFired(t) <=> \E n \in Firing : g[n] = t)
          BY <3>1 DEF InFired
        <4> HIDE DEF g, f
        <4>3. Cardinality({n \in Firing : g[n] = t})
                = IF \E n \in Firing : g[n] = t THEN 1 ELSE 0
          BY ONLY <4>1, OneOrNone
        <4> QED
          BY <4>2, <4>3
      <3>2. CASE adv = None
        BY <1>1, <3>2, Places DEF InFired
      <3> QED
        BY <3>1, <3>2
    <2>5. Len(chan[t]) = IF InChan(t) THEN 1 ELSE 0
      <3>1. chan[t] \in Seq(Nat) /\ Len(chan[t]) <= 1
        BY <1>1 DEF TypeInv
      <3> QED
        BY <3>1 DEF InChan
    <2> HIDE DEF k, u, f, KeptIn, UnreadIn
    <2>6. k + u + f + Len(chan[t]) + (IF InGot(t) THEN 1 ELSE 0) = IF timers[t] # None THEN 1 ELSE 0
      BY <1>1, <2>2, <2>3, <2>4, <2>5 DEF HomeInv
    <2> QED
      BY <2>6 DEF k, u, f, InGot
  <1>2. TypeInv /\ HomeInv => OneHome
    BY <1>1 DEF OneHome
  <1> QED
    BY <1>2, ClockInvariant, PTL

\* No timer fires early, none is overdue between two calls of Advance (but one
\* of no duration), and when HasPending says no, every timer was delivered.
THEOREM OnTimeHolds == Spec => []OnTime
  <1>1. ASSUME TypeInv, HomeInv, DueInv
        PROVE  OnTime
    <2>1. ASSUME NEW t \in Timer
          PROVE  /\ got[t] # None => got[t] >= timers[t].deadline
                 /\ chan[t] # <<>> => chan[t][1] >= timers[t].deadline
      <3>1. CASE InChan(t)
        <4>1. Deadline(t) <= chan[t][1] /\ ~InGot(t)
          BY <1>1, <3>1 DEF DueInv, HomeInv, IsTold, Told, InChan
        <4>2. Deadline(t) \in Nat /\ chan[t][1] \in Nat
          BY <1>1, <3>1, Times DEF TypeInv, IsTold, InChan
        <4> QED
          BY <4>1, <4>2 DEF Deadline, InGot
      <3>2. CASE ~InChan(t)
        <4>1. InGot(t) => /\ Deadline(t) <= got[t] /\ Deadline(t) \in Nat /\ got[t] \in Nat
          BY <1>1, <3>2, Times DEF TypeInv, DueInv, IsTold, Told, InChan, InGot
        <4> QED
          BY <3>2, <4>1 DEF Deadline, InGot, InChan
      <3> QED
        BY <3>1, <3>2
    <2>2. ASSUME adv = None
          PROVE  /\ \A n \in 1 .. len :
                      LET t == timers[arr[n]]
                      IN  t.deadline > now \/ (t.deadline = t.born /\ t.born = now)
                 /\ ~HasPending =>
                      \A t \in Timer : timers[t] # None => chan[t] # <<>> \/ got[t] # None
      <3>1. Kept = 1 .. len /\ Slots = 1 .. len /\ Firing = {} /\ len \in Nat
        BY <1>1, <2>2, Places DEF TypeInv
      <3>2. \A n \in 1 .. len :
              LET t == timers[arr[n]]
              IN  t.deadline > now \/ (t.deadline = t.born /\ t.born = now)
        BY <1>1, <2>2, <3>1 DEF DueInv, Deadline
      <3>3. ASSUME ~HasPending, NEW t \in Timer, timers[t] # None
            PROVE  chan[t] # <<>> \/ got[t] # None
        <4>1. Slots = {}
          BY <3>1, <3>3 DEF HasPending
        <4> QED
          BY <1>1, <3>1, <3>3, <4>1 DEF HomeInv, InArr, InFired, InChan, InGot
      <3> QED
        BY <3>2, <3>3
    <2> QED
      BY <2>1, <2>2 DEF OnTime
  <1> QED
    BY <1>1, ClockInvariant, PTL

\* Over many calls of Advance the times that are received respect the
\* deadlines, although one call fires in the order of registration.
THEOREM DeadlinesRespected == Spec => []DeadlineOrder
  <1>1. ASSUME TypeInv, HomeInv, OrderInv
        PROVE  DeadlineOrder
    <2> SUFFICES ASSUME NEW t \in Timer, NEW u \in Timer, got[t] # None, got[u] # None,
                        timers[t].deadline < timers[u].deadline
                 PROVE  got[t] <= got[u]
      BY DEF DeadlineOrder
    <2>1. ~InChan(t) /\ ~InChan(u) /\ IsTold(t) /\ IsTold(u)
      BY <1>1 DEF HomeInv, InGot, IsTold
    <2>2. Told(t) = got[t] /\ Told(u) = got[u]
      BY <2>1 DEF Told, InChan
    <2> QED
      BY <1>1, <2>1, <2>2 DEF OrderInv, Deadline
  <1> QED
    BY <1>1, ClockInvariant, PTL
=============================================================================
