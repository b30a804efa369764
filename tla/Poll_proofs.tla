----------------------------- MODULE Poll_proofs -----------------------------
(***************************************************************************)
(* The board is current, bounded in age and offline only after a streak,   *)
(* for any intervals and time-outs and any number of saves.                *)
(***************************************************************************)
EXTENDS Poll, TLAPS

LEMMA MaxAgeNat == MaxAge \in Nat
BY PollAssumption DEF MaxAge

LEMMA PlainScreen ==
    ASSUME NEW k \in {"Connecting", "IdleAddress", "Departures", "Offline"}
    PROVE  Plain(k) \in Screens /\ Plain(k).kind = k
BY DEF Plain, Screens

LEMMA BoardScreen ==
    ASSUME synced \in BOOLEAN, NEW s \in Stops
    PROVE  Board(s) \in Screens /\ Board(s).kind = "Departures" /\ Board(s).stop = s
BY DEF Board, Screens

LEMMA OlderAge ==
    ASSUME NEW t \in 0..(MaxAge + 1)
    PROVE  Older(t) \in 0..(MaxAge + 1) /\ Older(t) >= t /\ Older(t) <= t + 1
BY MaxAgeNat DEF Older

LEMMA OlderStreak ==
    ASSUME NEW t \in 0..(MaxAge + 1) \cup {NoStreak}
    PROVE  /\ Older(t) \in 0..(MaxAge + 1) \cup {NoStreak}
           /\ t = NoStreak <=> Older(t) = NoStreak
BY MaxAgeNat, PollAssumption DEF Older

LEMMA StreakType == TypeOK => Streak \in 0..(MaxAge + 1)
BY MaxAgeNat DEF TypeOK, Streak

-----------------------------------------------------------------------------
(* Types *)

LEMMA InitTypeOK == Init => TypeOK
<1> SUFFICES ASSUME Init PROVE TypeOK
  OBVIOUS
<1>1. display \in Screens
  BY PlainScreen DEF Init
<1>2. /\ up \in BOOLEAN /\ deviceIp \in BOOLEAN /\ synced \in BOOLEAN
      /\ changed \in BOOLEAN
  BY DEF Init
<1>3. /\ timer \in 0..(Interval + Retry + FetchTimeout) /\ age \in 0..(MaxAge + 1)
      /\ requests \in 0..MaxRequests
  BY MaxAgeNat, PollAssumption DEF Init
<1> QED
  BY <1>1, <1>2, <1>3 DEF Init, TypeOK

LEMMA NextTypeOK == TypeOK /\ [Next]_vars => TypeOK'
<1> SUFFICES ASSUME TypeOK, [Next]_vars PROVE TypeOK'
  OBVIOUS
<1> USE PollAssumption, MaxAgeNat DEF TypeOK
<1>1. CASE ConfigUp
  BY <1>1 DEF ConfigUp, pollVars
<1>2. CASE NetReady
  BY <1>2, PlainScreen DEF NetReady, pollVars
<1>3. CASE ClockSet
  BY <1>3 DEF ClockSet, pollVars
<1>4. CASE (\E s \in Stops : Save(s)) \/ Redisplay
  <2>1. Request /\ selection' \in Stops \cup {NoStop}
    BY <1>4 DEF Save, Redisplay
  <2>2. UNCHANGED <<netVars, display, pollVars>>
    BY <1>4 DEF Save, Redisplay, Request
  <2>3. requests' \in 0..MaxRequests
    BY <2>1 DEF Request
  <2>4. changed' \in BOOLEAN
    BY <2>1 DEF Request
  <2> QED
    BY <2>1, <2>2, <2>3, <2>4 DEF netVars, pollVars
<1> USE DEF Goto, netVars
<1>5. CASE PollStarts \/ TimerWakes \/ ChangeWakes
  BY <1>5 DEF PollStarts, TimerWakes, ChangeWakes
<1>6. CASE StartFetch
  BY <1>6 DEF StartFetch
<1>7. CASE ShowAddress
  BY <1>7, PlainScreen DEF ShowAddress
<1>8. CASE FetchGood
  BY <1>8, BoardScreen DEF FetchGood
<1>9. CASE Failed
  BY <1>9, PlainScreen, StreakType DEF Failed
<1>10. CASE Tick
  <2>1. age' \in 0..(MaxAge + 1) /\ streak' \in 0..(MaxAge + 1) \cup {NoStreak}
    BY <1>10, OlderAge, OlderStreak DEF Tick
  <2> QED
    BY <1>10, <2>1 DEF Tick
<1>11. CASE UNCHANGED vars
  BY <1>11 DEF vars, pollVars
<1> QED
  BY <1>1, <1>2, <1>3, <1>4, <1>5, <1>6, <1>7, <1>8, <1>9, <1>10, <1>11
     DEF Next, PollRuns, FetchFails, FetchTimesOut

-----------------------------------------------------------------------------
(* The inductive invariant *)

\* A selection, once there, stays; only a board with one polls or fails.
SelectedInv ==
  /\ pc = "fetch" => selection # NoStop
  /\ display.kind \in {"Departures", "Offline"} => selection # NoStop /\ pc # "boot"
  /\ ready # "boot" => deviceIp

\* A fetch that works on an outdated selection has a wake-up waiting behind it.
CurrentInv ==
  /\ pc = "fetch" /\ ~changed => polled = selection
  /\ BoardIsCurrent

\* A streak is no older than the last good poll, and neither is the offline screen.
StreakInv ==
  /\ streak # NoStreak => streak <= age
  /\ OfflineOnlyAfterStreak

\* While departures are shown: how far the last good poll and the streak can be.
AgeInv ==
  display.kind = "Departures" =>
    IF streak = NoStreak
    THEN /\ pc = "top" => age <= Interval
         /\ pc = "sleep" => age + timer <= Interval
         /\ pc = "fetch" => age + timer <= Interval + FetchTimeout
    ELSE /\ age <= streak + Interval + FetchTimeout
         /\ pc = "top" => streak <= OfflineAfter - 1 + Retry
         /\ pc = "sleep" => streak + timer <= OfflineAfter - 1 + Retry
         /\ pc = "fetch" => streak + timer <= OfflineAfter - 1 + Retry + FetchTimeout

IInv == TypeOK /\ SelectedInv /\ CurrentInv /\ AddressShown /\ StreakInv /\ AgeInv

LEMMA InvBoundsAge == IInv => BoardAgeBounded
<1> SUFFICES ASSUME IInv, display.kind = "Departures" PROVE age <= MaxAge
  BY DEF BoardAgeBounded
<1>1. pc \in {"top", "sleep", "fetch"} /\ age \in Nat /\ timer \in Nat
  BY MaxAgeNat, PollAssumption DEF IInv, TypeOK, SelectedInv
<1>2. CASE streak = NoStreak
  BY <1>1, <1>2, PollAssumption DEF IInv, AgeInv, MaxAge
<1>3. CASE streak # NoStreak
  <2>1. streak \in Nat
    BY <1>3, MaxAgeNat DEF IInv, TypeOK
  <2> QED
    BY <1>1, <1>3, <2>1, PollAssumption DEF IInv, AgeInv, MaxAge
<1> QED
  BY <1>2, <1>3

LEMMA InitInv == Init => IInv
<1> SUFFICES ASSUME Init PROVE IInv
  OBVIOUS
<1>1. display.kind = "Connecting"
  BY PlainScreen DEF Init
<1> QED
  BY <1>1, InitTypeOK
     DEF Init, IInv, SelectedInv, CurrentInv, BoardIsCurrent, AddressShown, StreakInv,
         OfflineOnlyAfterStreak, AgeInv

\* The network, the clock and the handlers: the poll's own state is left alone.
LEMMA OutsideInv ==
    ASSUME IInv, ConfigUp \/ NetReady \/ ClockSet \/ (\E s \in Stops : Save(s)) \/ Redisplay
    PROVE  SelectedInv' /\ CurrentInv' /\ AddressShown' /\ StreakInv' /\ AgeInv'
<1> USE DEF IInv, SelectedInv, CurrentInv, BoardIsCurrent, AddressShown, StreakInv,
            OfflineOnlyAfterStreak, AgeInv, netVars, pollVars, Board
<1>1. CASE ConfigUp
  BY <1>1 DEF ConfigUp
<1>2. CASE NetReady
  <2>1. Plain("IdleAddress").kind = "IdleAddress"
    BY PlainScreen
  <2> QED
    BY <1>2, <2>1 DEF NetReady
<1>3. CASE ClockSet
  BY <1>3 DEF ClockSet
<1>4. CASE (\E s \in Stops : Save(s)) \/ Redisplay
  BY <1>4, PollAssumption DEF Save, Redisplay, Request
<1> QED
  BY <1>1, <1>2, <1>3, <1>4

LEMMA WakesInv ==
    ASSUME IInv, PollStarts \/ TimerWakes \/ ChangeWakes
    PROVE  SelectedInv' /\ CurrentInv' /\ AddressShown' /\ StreakInv' /\ AgeInv'
<1> USE DEF IInv, SelectedInv, CurrentInv, BoardIsCurrent, AddressShown, StreakInv,
            OfflineOnlyAfterStreak, AgeInv, Goto, netVars
<1>1. timer \in Nat /\ age \in Nat /\ (streak # NoStreak => streak \in Nat)
  BY MaxAgeNat, PollAssumption DEF TypeOK
<1>2. CASE PollStarts
  BY <1>1, <1>2, PollAssumption DEF PollStarts
<1>3. CASE TimerWakes \/ ChangeWakes
  BY <1>1, <1>3, PollAssumption DEF TimerWakes, ChangeWakes
<1> QED
  BY <1>2, <1>3

LEMMA TopInv ==
    ASSUME IInv, StartFetch \/ ShowAddress
    PROVE  SelectedInv' /\ CurrentInv' /\ AddressShown' /\ StreakInv' /\ AgeInv'
<1> USE DEF IInv, SelectedInv, CurrentInv, BoardIsCurrent, AddressShown, StreakInv,
            OfflineOnlyAfterStreak, AgeInv, Goto, netVars
<1>1. timer \in Nat /\ age \in Nat /\ (streak # NoStreak => streak \in Nat)
  BY MaxAgeNat, PollAssumption DEF TypeOK
<1>2. CASE StartFetch
  BY <1>1, <1>2, PollAssumption DEF StartFetch
<1>3. CASE ShowAddress
  <2>1. Plain("IdleAddress").kind = "IdleAddress"
    BY PlainScreen
  <2> QED
    BY <1>1, <1>3, <2>1 DEF ShowAddress
<1> QED
  BY <1>2, <1>3

LEMMA FetchInv ==
    ASSUME IInv, FetchGood \/ Failed
    PROVE  SelectedInv' /\ CurrentInv' /\ AddressShown' /\ StreakInv' /\ AgeInv'
<1> USE DEF IInv, SelectedInv, CurrentInv, BoardIsCurrent, AddressShown, StreakInv,
            OfflineOnlyAfterStreak, AgeInv, Goto, netVars
<1>1. timer \in Nat /\ age \in Nat /\ (streak # NoStreak => streak \in Nat)
  BY MaxAgeNat, PollAssumption DEF TypeOK
<1>2. CASE FetchGood
  <2>1. display'.kind = "Departures" /\ display' = Board(polled) /\ Board(polled)' = Board(polled')
    BY <1>2, BoardScreen DEF FetchGood, TypeOK, Board
  <2> QED
    BY <1>1, <1>2, <2>1, PollAssumption DEF FetchGood, Board
<1>3. CASE Failed
  <2>1. /\ Streak \in Nat /\ Streak # NoStreak /\ Streak <= age
        /\ streak # NoStreak => Streak = streak
        /\ streak = NoStreak => Streak = 0
    BY <1>1, PollAssumption DEF Streak
  <2>2. CASE Streak >= OfflineAfter
    <3>1. display'.kind = "Offline"
      BY <1>3, <2>2, PlainScreen DEF Failed
    <3> QED
      BY <1>1, <1>3, <2>1, <2>2, <3>1, PollAssumption DEF Failed
  <2>3. CASE ~(Streak >= OfflineAfter)
    <3>1. Streak <= OfflineAfter - 1
      BY <2>1, <2>3, PollAssumption
    <3> QED
      BY <1>1, <1>3, <2>1, <2>3, <3>1, PollAssumption DEF Failed
  <2> QED
    BY <2>2, <2>3
<1> QED
  BY <1>2, <1>3

LEMMA TickInv ==
    ASSUME IInv, Tick
    PROVE  SelectedInv' /\ CurrentInv' /\ AddressShown' /\ StreakInv' /\ AgeInv'
<1>1. /\ timer \in Nat /\ age \in 0..(MaxAge + 1)
      /\ streak \in 0..(MaxAge + 1) \cup {NoStreak}
  BY MaxAgeNat, PollAssumption DEF IInv, TypeOK
<1>2. age' \in Nat /\ age' >= age /\ age' <= age + 1
  BY <1>1, OlderAge, MaxAgeNat DEF Tick
<1>3. streak' = NoStreak <=> streak = NoStreak
  BY <1>1, OlderStreak DEF Tick
<1>4. SelectedInv' /\ CurrentInv' /\ AddressShown'
  BY <1>3 DEF IInv, SelectedInv, CurrentInv, BoardIsCurrent, AddressShown, Tick, Board, netVars
<1>5. StreakInv'
  BY <1>1, <1>2, <1>3, MaxAgeNat, PollAssumption
     DEF IInv, StreakInv, OfflineOnlyAfterStreak, Tick, Older
<1>6. AgeInv'
  <2> SUFFICES ASSUME display.kind = "Departures" PROVE AgeInv'
    BY DEF AgeInv, Tick
  <2>1. age <= MaxAge /\ age' = age + 1
    BY <1>1, InvBoundsAge, MaxAgeNat DEF BoardAgeBounded, Tick, Older
  <2>2. timer > 0 /\ timer' = timer - 1 /\ pc \in {"fetch", "sleep"}
    BY DEF Tick, IInv, SelectedInv
  <2>3. CASE streak = NoStreak
    BY <1>1, <1>3, <2>1, <2>2, <2>3, PollAssumption DEF IInv, AgeInv, Tick
  <2>4. CASE streak # NoStreak
    <3>1. streak <= age /\ streak' = streak + 1
      BY <1>1, <2>1, <2>4, MaxAgeNat DEF IInv, StreakInv, Tick, Older
    <3> QED
      BY <1>1, <1>3, <2>1, <2>2, <2>4, <3>1, PollAssumption DEF IInv, AgeInv, Tick
  <2> QED
    BY <2>3, <2>4
<1> QED
  BY <1>4, <1>5, <1>6

LEMMA NextInv == IInv /\ [Next]_vars => IInv'
<1> SUFFICES ASSUME IInv, [Next]_vars PROVE IInv'
  OBVIOUS
<1>1. TypeOK'
  BY NextTypeOK DEF IInv
<1>2. CASE UNCHANGED vars
  BY <1>1, <1>2 DEF vars, netVars, pollVars, IInv, SelectedInv, CurrentInv, BoardIsCurrent,
     AddressShown, StreakInv, OfflineOnlyAfterStreak, AgeInv, Board
<1>3. CASE Next
  BY <1>1, <1>3, OutsideInv, WakesInv, TopInv, FetchInv, TickInv
     DEF Next, PollRuns, FetchFails, FetchTimesOut, IInv
<1> QED
  BY <1>2, <1>3

LEMMA PollInvariant == Spec => []IInv
<1>1. Init => IInv
  BY InitInv
<1>2. IInv /\ [Next]_vars => IInv'
  BY NextInv
<1> QED
  BY <1>1, <1>2, PTL DEF Spec

-----------------------------------------------------------------------------
(* The theorems *)

\* The types of the poll's state, and that a fetch has a selection (poll.rs 79-186).
THEOREM TypeCorrect == Spec => []TypeOK
<1>1. IInv => TypeOK
  BY DEF IInv
<1> QED
  BY <1>1, PollInvariant, PTL

\* No save, settings change or clock sample is lost in the fetch it overtakes.
THEOREM BoardStaysCurrent == Spec => []BoardIsCurrent
<1>1. IInv => BoardIsCurrent
  BY DEF IInv, CurrentInv
<1> QED
  BY <1>1, PollInvariant, PTL

\* Both orders of poll_task and net_ready_task end on the address screen.
THEOREM AddressIsShown == Spec => []AddressShown
<1>1. IInv => AddressShown
  BY DEF IInv
<1> QED
  BY <1>1, PollInvariant, PTL

\* The offline screen never comes early, whatever the time-outs.
THEOREM OfflineIsEarned == Spec => []OfflineOnlyAfterStreak
<1>1. IInv => OfflineOnlyAfterStreak
  BY DEF IInv, StreakInv
<1> QED
  BY <1>1, PollInvariant, PTL

\* Departures leave the panel within MaxAge of their poll: 24 ticks of 5 s with
\* the constants of the code.
THEOREM BoardsDoNotLinger == Spec => []BoardAgeBounded
<1>1. IInv => BoardAgeBounded
  BY InvBoundsAge
<1> QED
  BY <1>1, PollInvariant, PTL
=============================================================================
