-------------------------------- MODULE Poll --------------------------------
(***************************************************************************)
(* What the board tells its panel to show once it is in the station phase: *)
(* poll_task (poll.rs), net_ready_task (bin/main.rs), and the handlers of  *)
(* httpd.rs that wake the poll. Parsing a stationboard is abstracted to    *)
(* whose departures it lists and whether the clock was set for them.       *)
(*                                                                         *)
(* The tasks share the cooperative executor of core 0. Between two awaits  *)
(* nothing else runs there, so each action is one such section: the mutex  *)
(* around the selection is never contended. A handler may run while a      *)
(* fetch is under way, and the fetch goes on with what it cloned.          *)
(*                                                                         *)
(* Time is counted in ticks; with a tick of 5 s the constants of the code  *)
(* are Interval 6, Retry 1, OfflineAfter 12 and FetchTimeout 3.            *)
(***************************************************************************)
EXTENDS Naturals

CONSTANTS
    Stops,          \* the selections the user may save
    NoStop,         \* None
    Interval,       \* POLL_INTERVAL_SECS
    Retry,          \* POLL_RETRY_SECS
    OfflineAfter,   \* OFFLINE_AFTER_SECS
    FetchTimeout,   \* FETCH_TIMEOUT_SECS
    NoStreak,       \* failing_since = None
    MaxRequests     \* bound: saves of any kind in one behaviour

ASSUME PollAssumption ==
    /\ NoStop \notin Stops
    /\ Interval \in Nat \ {0} /\ Retry \in Nat \ {0}
    /\ OfflineAfter \in Nat \ {0} /\ FetchTimeout \in Nat \ {0}
    /\ NoStreak \notin Nat
    /\ MaxRequests \in Nat

VARIABLES
    up,             \* the stack has its address (wait_config_up returns)
    deviceIp,       \* DEVICE_IP is set
    synced,         \* BOOT_UNIX is set
    selection,      \* SELECTION
    changed,        \* SELECTION_CHANGED is signalled
    display,        \* the last screen signalled to DISPLAY
    ready,          \* where net_ready_task is
    pc,             \* where poll_task is
    polled,         \* its clone of the selection
    streak,         \* ticks since its failing_since
    timer,          \* ticks left of the fetch's time-out or of the sleep
    age,            \* history: ticks since the last good poll, or since boot
    requests        \* bound: number of saves served

netVars  == <<up, deviceIp, synced, ready>>
pollVars == <<pc, polled, streak, timer, age>>
vars     == <<netVars, selection, changed, display, pollVars, requests>>

\* A board is never older than this: a good poll, an interval, a first failure,
\* a streak short of OfflineAfter, and one more attempt.
MaxAge == Interval + FetchTimeout + (OfflineAfter - 1) + Retry + FetchTimeout

Screens == [kind : {"Connecting", "IdleAddress", "Departures", "Offline"},
            stop : Stops \cup {NoStop}, clock : BOOLEAN]
Plain(kind)   == [kind |-> kind, stop |-> NoStop, clock |-> FALSE]
Board(s)      == [kind |-> "Departures", stop |-> s, clock |-> synced]

\* Every variable has its type; a fetch is always on behalf of a selection.
TypeOK ==
    /\ up \in BOOLEAN /\ deviceIp \in BOOLEAN /\ synced \in BOOLEAN
    /\ selection \in Stops \cup {NoStop} /\ changed \in BOOLEAN
    /\ display \in Screens
    /\ ready \in {"boot", "sync", "resync"}
    /\ pc \in {"boot", "top", "fetch", "sleep"}
    /\ polled \in IF pc = "fetch" THEN Stops ELSE Stops \cup {NoStop}
    /\ streak \in 0..(MaxAge + 1) \cup {NoStreak}
    /\ timer \in 0..(Interval + Retry + FetchTimeout)
    /\ age \in 0..(MaxAge + 1)
    /\ requests \in 0..MaxRequests

\* boot_connected: the tram, the persisted selection, and the tasks.
Init ==
    /\ up = FALSE /\ deviceIp = FALSE /\ synced = FALSE
    /\ selection \in Stops \cup {NoStop} /\ changed = FALSE
    /\ display = Plain("Connecting")
    /\ ready = "boot"
    /\ pc = "boot" /\ polled = NoStop /\ streak = NoStreak /\ timer = 0
    /\ age = 0 /\ requests = 0

-----------------------------------------------------------------------------
(* The network and the clock *)

\* DHCP has an address for the board.
ConfigUp ==
    /\ ~up
    /\ up' = TRUE
    /\ UNCHANGED <<deviceIp, synced, ready, selection, changed, display, pollVars, requests>>

\* Mutant: the address screen is left to poll_task.
NetReadySilently ==
    /\ ready = "boot" /\ up
    /\ deviceIp' = TRUE
    /\ ready' = "sync"
    /\ UNCHANGED <<up, synced, selection, changed, display, pollVars, requests>>

\* net_ready_task notes the address, and shows it when nothing is selected.
NetReady ==
    /\ ready = "boot" /\ up
    /\ deviceIp' = TRUE
    /\ display' = IF selection = NoStop THEN Plain("IdleAddress") ELSE display
    /\ ready' = "sync"
    /\ UNCHANGED <<up, synced, selection, changed, pollVars, requests>>

\* The first sample of the clock wakes the poll. A sync that fails is retried,
\* and a later sample leaves the clock set.
ClockSet ==
    /\ ready = "sync"
    /\ synced' = TRUE
    /\ changed' = TRUE
    /\ ready' = "resync"
    /\ UNCHANGED <<up, deviceIp, selection, display, pollVars, requests>>

-----------------------------------------------------------------------------
(* The handlers. Persisting is in module Device. *)

Request ==
    /\ up
    /\ requests < MaxRequests
    /\ requests' = requests + 1
    /\ changed' = TRUE
    /\ UNCHANGED <<netVars, display, pollVars>>

\* POST /save
Save(s) == Request /\ selection' = s

\* POST /config and POST /layout wake the poll too.
Redisplay == Request /\ UNCHANGED selection

-----------------------------------------------------------------------------
(* poll_task *)

\* A step of poll_task to the next await, with the screen it signals on the way.
Goto(from, next, screen) ==
    /\ pc = from
    /\ pc' = next
    /\ display' = screen
    /\ UNCHANGED <<netVars, selection, requests>>

PollStarts ==
    /\ up
    /\ Goto("boot", "top", display)
    /\ UNCHANGED <<changed, polled, streak, timer, age>>

\* Mutant: a poll without a selection.
FetchAnyway ==
    /\ Goto("top", "fetch", display)
    /\ polled' = selection
    /\ timer' = FetchTimeout
    /\ UNCHANGED <<changed, streak, age>>

\* The top of the loop with a selection: start a fetch for a clone of it.
StartFetch ==
    /\ Goto("top", "fetch", display)
    /\ selection # NoStop
    /\ polled' = selection
    /\ timer' = FetchTimeout
    /\ UNCHANGED <<changed, streak, age>>

\* Without one: the address screen, once there is an address.
ShowAddress ==
    /\ Goto("top", "sleep", IF deviceIp THEN Plain("IdleAddress") ELSE display)
    /\ selection = NoStop
    /\ polled' = NoStop
    /\ streak' = NoStreak
    /\ timer' = Interval
    /\ UNCHANGED <<changed, age>>

\* Mutant: a good poll takes a wake-up that came during the fetch as its own.
FetchGoodResets ==
    /\ Goto("fetch", "sleep", Board(polled))
    /\ changed' = FALSE
    /\ streak' = NoStreak /\ timer' = Interval /\ age' = 0
    /\ UNCHANGED polled

\* Mutant: a good poll does not end the streak of failures.
FetchGoodKeepsStreak ==
    /\ Goto("fetch", "sleep", Board(polled))
    /\ timer' = Interval /\ age' = 0
    /\ UNCHANGED <<changed, polled, streak>>

\* The answer arrived, in time or just ahead of the time-out, and parsed. The
\* minutes are those of the clock now, and the stop that of the clone.
FetchGood ==
    /\ Goto("fetch", "sleep", Board(polled))
    /\ streak' = NoStreak /\ timer' = Interval /\ age' = 0
    /\ UNCHANGED <<changed, polled>>

\* Mutant: each failure starts the streak over.
RestartedStreak == 0

\* offline_if_persistent: when the streak of failures began.
Streak == IF streak = NoStreak THEN 0 ELSE streak

Failed ==
    /\ Goto("fetch", "sleep", IF Streak >= OfflineAfter THEN Plain("Offline") ELSE display)
    /\ streak' = Streak
    /\ timer' = Retry
    /\ UNCHANGED <<changed, polled, age>>

\* DNS, TLS, the request or the parser failed.
FetchFails == Failed

\* Mutant: a fetch without a time-out.
FetchHangs == pc = "fetch" /\ timer = 0 /\ UNCHANGED vars

FetchTimesOut == timer = 0 /\ Failed

\* select polls the timer first; a wake-up it leaves behind starts the next poll
\* at once.
TimerWakes ==
    /\ Goto("sleep", "top", display)
    /\ timer = 0
    /\ UNCHANGED <<changed, polled, streak, timer, age>>

ChangeWakes ==
    /\ Goto("sleep", "top", display)
    /\ timer > 0 /\ changed
    /\ changed' = FALSE
    /\ UNCHANGED <<polled, streak, timer, age>>

PollRuns ==
    \/ PollStarts \/ StartFetch \/ ShowAddress
    \/ FetchTimesOut \/ TimerWakes \/ ChangeWakes

-----------------------------------------------------------------------------
Older(t) == IF t \in 0..MaxAge THEN t + 1 ELSE t

\* Time passes, but not while poll_task can go on without an answer from outside.
Tick ==
    /\ \/ pc = "boot" /\ ~up
       \/ pc = "fetch" /\ timer > 0
       \/ pc = "sleep" /\ timer > 0 /\ ~changed
    /\ timer' = IF timer > 0 THEN timer - 1 ELSE 0
    /\ age' = Older(age)
    /\ streak' = Older(streak)
    /\ UNCHANGED <<netVars, selection, changed, display, pc, polled, requests>>

Next ==
    \/ ConfigUp \/ NetReady \/ ClockSet
    \/ (\E s \in Stops : Save(s)) \/ Redisplay
    \/ PollRuns \/ FetchGood \/ FetchFails
    \/ Tick

Spec == Init /\ [][Next]_vars

\* The executor runs a task that can go on, and time passes. Nothing is assumed
\* of the server, of SNTP or of the user; DHCP is assumed to answer.
FairSpec ==
    Spec /\ WF_vars(ConfigUp) /\ WF_vars(NetReady) /\ WF_vars(PollRuns) /\ WF_vars(Tick)

-----------------------------------------------------------------------------
(* Properties *)

\* The board is about what is selected now: a poll that sleeps after a good answer,
\* with no wake-up pending, has shown the departures of the current selection,
\* with minutes if the clock is set. A save or a clock sample that comes while a
\* fetch is under way is never lost (poll.rs 108, 141-172; httpd.rs 114-115;
\* bin/main.rs 254-255).
BoardIsCurrent ==
    pc = "sleep" /\ ~changed /\ streak = NoStreak /\ selection # NoStop =>
        display = Board(selection)

\* A board without a selection shows its address once both tasks that know of the
\* network have run, in either order (bin/main.rs 244-248, poll.rs 112-119).
AddressShown ==
    pc = "sleep" /\ ~changed /\ ready # "boot" /\ selection = NoStop =>
        display.kind = "IdleAddress"

\* The offline screen stands for at least OfflineAfter without a good poll: a short
\* outage, or several with a good poll between them, never shows it (poll.rs 102-105).
OfflineOnlyAfterStreak == display.kind = "Offline" => age >= OfflineAfter

\* Departures do not stay on the panel for ever: whatever fails, and however often
\* the poll is woken, they leave within MaxAge of the poll they came from.
BoardAgeBounded == display.kind = "Departures" => age <= MaxAge

\* A saved stop gets its board, or the panel says that the board is offline, unless
\* another is saved: a server that never answers cannot wedge the poll.
SavedStopShown ==
    \A s \in Stops :
        selection = s ~> \/ display.kind = "Departures" /\ display.stop = s
                         \/ display.kind = "Offline"
                         \/ selection # s
=============================================================================
