-------------------------------- MODULE Panel --------------------------------
(***************************************************************************)
(* What the panel shows: render_task of display/mod.rs on core 1, and the  *)
(* state of shared.rs it shares with the HTTP handlers on core 0.          *)
(*                                                                         *)
(* The two cores run in parallel, so every critical section and every      *)
(* atomic access of shared.rs is an action of its own.  A Signal holds one *)
(* value: signalling again replaces it, taking it empties it.  Core 0      *)
(* serves one request at a time, so one program counter stands for all     *)
(* handlers.  The layouts are opaque; drawing is abstracted to which       *)
(* screen, layout and view mode the pixels come from.                      *)
(*                                                                         *)
(* Time is counted in ticks.  A timer is kept as the ticks left until it   *)
(* is due, and Tick counts them down.                                      *)
(***************************************************************************)
EXTENDS Integers

CONSTANTS
    Layouts,        \* layouts with at least one element
    EmptyLayout,    \* a layout with no element, which only a preview can be
    NoLayout,       \* None
    Modes,          \* view modes the config page can save
    Kinds,          \* screens the tasks of core 0 can signal after boot
    NoScreen,       \* an empty DISPLAY slot, or nothing parked
    NoTimer,        \* a deadline that is not armed, a sleep that is over
    PreviewTtl,     \* PREVIEW_TTL, 15 s in the code
    Refresh,        \* BRIGHTNESS_REFRESH_SECS, 60 s in the code
    FrameTime,      \* FRAME_MS, 50 ms in the code
    PassFrames,     \* CONNECT_CYCLE_FRAMES, 48 in the code
    FrameWrap,      \* where the u32 frame counter wraps, 2^32 in the code
    MaxScreens,     \* bound: screens signalled in one behaviour
    MaxRequests     \* bound: HTTP requests served in one behaviour

ASSUME LayoutsAssumption ==
    /\ EmptyLayout \notin Layouts
    /\ NoLayout \notin Layouts
    /\ EmptyLayout # NoLayout

ASSUME ScreensAssumption ==
    /\ Modes \subseteq {"Default", "Focus", "Custom"}
    /\ Kinds \subseteq {"IdleAddress", "Departures", "Offline"}
    /\ NoScreen \notin [seq : Nat, kind : Kinds \cup {"Connecting"}]

ASSUME TimesAssumption ==
    /\ PreviewTtl \in Nat \ {0}
    /\ Refresh \in Nat \ {0}
    /\ FrameTime \in Nat \ {0}
    /\ NoTimer \notin Nat

ASSUME BoundsAssumption ==
    /\ PassFrames \in Nat \ {0}
    /\ FrameWrap \in Nat /\ PassFrames <= FrameWrap
    /\ MaxScreens \in Nat \ {0}
    /\ MaxRequests \in Nat

VARIABLES
    display,        \* DISPLAY: the latest screen signalled and not yet taken
    redraw,         \* REDRAW is signalled
    custom,         \* CUSTOM_LAYOUT
    preview,        \* PREVIEW_LAYOUT
    deadline,       \* PREVIEW_DEADLINE, as the ticks left to it
    uiMode,         \* UI_MODE
    http,           \* where the request handler on core 0 is
    pc,             \* where render_task is
    state,          \* its local state, the screen it draws
    pending,        \* its local pending, the screen parked behind the tram
    frame,          \* its local frame
    cache,          \* its local layout_cache
    animating,      \* its local animating
    after,          \* where it goes on after refresh_layout_cache
    wake,           \* ticks left of its current sleep
    panel,          \* what the last frame was drawn from
    played,         \* history: frames of the tram drawn since it came on
    signalled,      \* history: number of screens signalled
    requests        \* bound: number of requests begun

mirrorVars == <<custom, preview, deadline, uiMode>>
renderLocals == <<state, pending, frame, cache, animating, after, wake, panel, played>>
coreZeroVars == <<http, signalled, requests>>
vars == <<display, redraw, mirrorVars, coreZeroVars, pc, renderLocals>>

Screens == [seq : 1..MaxScreens, kind : Kinds \cup {"Connecting"}]
Previews == Layouts \cup {EmptyLayout, NoLayout}
Caches == [preview : Previews, custom : Layouts \cup {NoLayout}]
Timers(n) == 0..n \cup {NoTimer}
Asleep == pc \in {"idle", "tick"}

Lesser(a, b) == IF a < b THEN a ELSE b
Larger(a, b) == IF a > b THEN a ELSE b

TypeOK ==
    /\ display \in Screens \cup {NoScreen}
    /\ redraw \in BOOLEAN
    /\ custom \in Layouts \cup {NoLayout}
    /\ preview \in Previews
    /\ deadline \in Timers(PreviewTtl)
    /\ uiMode \in Modes
    /\ http \in {"ready", "arm", "layoutWake", "end", "take", "wake"}
    /\ pc \in {"boot", "enter", "refresh", "clonePreview", "cloneCustom", "check",
               "revert", "revertTake", "revertWake", "draw", "drawn", "idle", "tick"}
    /\ state \in IF pc = "boot" THEN {NoScreen} ELSE Screens
    /\ pending \in Screens \cup {NoScreen}
    /\ frame \in 0..(FrameWrap - 1)
    /\ cache \in Caches
    /\ animating \in BOOLEAN
    /\ after \in {"check", "draw"}
    /\ wake \in IF Asleep THEN 0..Larger(Refresh, FrameTime) ELSE {NoTimer}
    /\ panel \in [screen : Screens \cup {NoScreen}, cache : Caches, mode : Modes]
    /\ played \in 0..PassFrames
    /\ signalled \in 0..MaxScreens
    /\ requests \in 0..MaxRequests

\* Core 1 is started first, then the layout mirror is seeded from flash, which signals
\* REDRAW; render_task waits for its first screen.
Init ==
    /\ display = NoScreen
    /\ redraw = TRUE
    /\ custom \in Layouts \cup {NoLayout}
    /\ preview = NoLayout
    /\ deadline = NoTimer
    /\ uiMode \in Modes
    /\ http = "ready"
    /\ pc = "boot"
    /\ state = NoScreen
    /\ pending = NoScreen
    /\ frame = 0
    /\ cache = [preview |-> NoLayout, custom |-> NoLayout]
    /\ animating = FALSE
    /\ after = "check"
    /\ wake = NoTimer
    /\ panel = [screen |-> NoScreen, cache |-> cache, mode |-> uiMode]
    /\ played = 0
    /\ signalled = 0
    /\ requests = 0

-----------------------------------------------------------------------------
(* shared.rs *)

\* preview_active, and the render loop's test for a deadline that has passed.
PreviewActive == deadline # NoTimer /\ deadline > 0
PreviewExpired == deadline = 0

\* Core 0 signals a screen (boot, net_ready_task, poll_task); the first one is the tram or
\* the captive portal's.
Signal(kind) ==
    /\ signalled < MaxScreens
    /\ signalled' = signalled + 1
    /\ display' = [seq |-> signalled + 1, kind |-> kind]
    /\ UNCHANGED <<redraw, mirrorVars, http, requests, pc, renderLocals>>

BootScreen == signalled = 0 /\ Signal("Connecting")
RunScreen == signalled > 0 /\ \E kind \in Kinds : Signal(kind)

\* A request reaches its handler, which has nothing else to do until the response is out.
Begin(next) ==
    /\ http = "ready"
    /\ signalled > 0
    /\ requests < MaxRequests
    /\ requests' = requests + 1
    /\ http' = next
    /\ UNCHANGED <<display, signalled, pc, renderLocals>>

\* The handler goes on to its next access of the shared state.
Proceed(from, next) ==
    /\ http = from
    /\ http' = next
    /\ UNCHANGED <<display, signalled, requests, pc, renderLocals>>

\* POST /preview: set_preview replaces the layout ...
PostPreview ==
    /\ Begin("arm")
    /\ \E l \in Layouts \cup {EmptyLayout} : preview' = l
    /\ UNCHANGED <<redraw, custom, deadline, uiMode>>

\* ... then arms the deadline ...
ArmDeadline ==
    /\ Proceed("arm", "wake")
    /\ deadline' = PreviewTtl
    /\ UNCHANGED <<redraw, custom, preview, uiMode>>

\* ... and wakes render_task, the last step of end_preview too.
HandlerWakes ==
    /\ Proceed("wake", "ready")
    /\ redraw' = TRUE
    /\ UNCHANGED mirrorVars

\* POST /preview/end: end_preview clears the deadline ...
PostPreviewEnd ==
    /\ Begin("take")
    /\ deadline' = NoTimer
    /\ UNCHANGED <<redraw, custom, preview, uiMode>>

\* ... then drops the layout.
HandlerTakes ==
    /\ Proceed("take", "wake")
    /\ preview' = NoLayout
    /\ UNCHANGED <<redraw, custom, deadline, uiMode>>

\* POST /layout, once persisted: apply_layout replaces the mirror; an empty layout is None.
PostLayout ==
    /\ Begin("layoutWake")
    /\ \E l \in Layouts \cup {NoLayout} : custom' = l
    /\ UNCHANGED <<redraw, preview, deadline, uiMode>>

\* apply_layout wakes render_task, and end_preview follows.
LayoutWakes ==
    /\ Proceed("layoutWake", "end")
    /\ redraw' = TRUE
    /\ UNCHANGED mirrorVars

LayoutEndsPreview ==
    /\ Proceed("end", "take")
    /\ deadline' = NoTimer
    /\ UNCHANGED <<redraw, custom, preview, uiMode>>

\* POST /config, once persisted: apply_config stores the view mode. It wakes poll_task, not
\* render_task.
PostConfig ==
    /\ Begin("ready")
    /\ uiMode' \in Modes
    /\ UNCHANGED <<redraw, custom, preview, deadline>>

CoreZero ==
    \/ PostPreview \/ PostPreviewEnd \/ PostLayout \/ PostConfig
    \/ ArmDeadline \/ HandlerTakes \/ LayoutWakes \/ LayoutEndsPreview \/ HandlerWakes

-----------------------------------------------------------------------------
(* render_task *)

\* A step of render_task from one point to the next that leaves what only core 0 writes alone.
Goto(from, next) ==
    /\ pc = from
    /\ pc' = next
    /\ UNCHANGED <<custom, uiMode, coreZeroVars>>

\* The locals a step away from drawing and sleeping leaves alone.
drawnVars == <<animating, panel, wake>>

\* let mut state = DISPLAY.wait().await
FirstScreen ==
    /\ Goto("boot", "enter")
    /\ display # NoScreen
    /\ state' = display
    /\ display' = NoScreen
    /\ UNCHANGED <<redraw, preview, deadline, pending, frame, cache, after, drawnVars, played>>

\* The top of the outer loop.
Enter ==
    /\ Goto("enter", "refresh")
    /\ frame' = 0
    /\ pending' = NoScreen
    /\ after' = "check"
    /\ UNCHANGED <<display, redraw, preview, deadline, state, cache, drawnVars, played>>

\* refresh_layout_cache: preview_layout looks at the deadline first ...
RefreshCache ==
    /\ Goto("refresh", IF PreviewActive THEN "clonePreview" ELSE "cloneCustom")
    /\ UNCHANGED <<display, redraw, preview, deadline, renderLocals>>

\* ... then clones the preview, if it is still there ...
ClonePreview ==
    /\ Goto("clonePreview", IF preview = NoLayout THEN "cloneCustom" ELSE after)
    /\ cache' = IF preview = NoLayout THEN cache
                ELSE [preview |-> preview, custom |-> NoLayout]
    /\ UNCHANGED <<display, redraw, preview, deadline, state, pending, frame, after, drawnVars,
                   played>>

\* ... and the saved layout otherwise.
CloneCustom ==
    /\ Goto("cloneCustom", after)
    /\ cache' = [preview |-> NoLayout, custom |-> custom]
    /\ UNCHANGED <<display, redraw, preview, deadline, state, pending, frame, after, drawnVars,
                   played>>

\* Mutant: nothing reverts an expired preview.
NeverReverts ==
    /\ Goto("check", "draw")
    /\ UNCHANGED <<display, redraw, preview, deadline, renderLocals>>

\* The auto-revert test at the top of the inner loop.
CheckDeadline ==
    /\ Goto("check", IF PreviewExpired THEN "revert" ELSE "draw")
    /\ UNCHANGED <<display, redraw, preview, deadline, renderLocals>>

\* end_preview, called by render_task: clear the deadline, whatever it is by now ...
RevertDeadline ==
    /\ Goto("revert", "revertTake")
    /\ deadline' = NoTimer
    /\ UNCHANGED <<display, redraw, preview, renderLocals>>

\* ... drop the layout ...
RevertTakes ==
    /\ Goto("revertTake", "revertWake")
    /\ preview' = NoLayout
    /\ UNCHANGED <<display, redraw, deadline, renderLocals>>

\* ... and signal REDRAW; this frame is drawn from a refreshed cache already.
RevertWakes ==
    /\ Goto("revertWake", "refresh")
    /\ redraw' = TRUE
    /\ after' = "draw"
    /\ UNCHANGED <<display, preview, deadline, state, pending, frame, cache, drawnVars, played>>

\* draw_state: the screens that always animate, and the others, which may.
Animates(kind) == IF kind \in {"Connecting", "Offline"} THEN {TRUE} ELSE BOOLEAN

Draw ==
    /\ Goto("draw", "drawn")
    /\ panel' = [screen |-> state, cache |-> cache, mode |-> uiMode]
    /\ animating' \in Animates(state.kind)
    /\ played' = IF state.kind = "Connecting" /\ frame = played /\ played < PassFrames
                 THEN played + 1 ELSE played
    /\ UNCHANGED <<display, redraw, preview, deadline, state, pending, frame, cache, after, wake>>

\* Mutant: the last frame of the pass is not waited for.
CycleDoneEarly == frame >= PassFrames - 2

ConnectCycleDone == frame >= PassFrames - 1

\* Switch to another screen, which starts the outer loop over.
SwitchTo(screen) ==
    /\ state' = screen
    /\ played' = 0

\* The frame is on its way to the panel: a parked screen takes over once the pass is complete.
Unpark ==
    /\ Goto("drawn", "enter")
    /\ pending # NoScreen
    /\ ConnectCycleDone
    /\ SwitchTo(pending)
    /\ pending' = NoScreen
    /\ UNCHANGED <<display, redraw, preview, deadline, frame, cache, after, drawnVars>>

\* Mutant: the sleep is not bounded by the preview's deadline.
SleepPastDeadline ==
    /\ Goto("drawn", "idle")
    /\ ~(pending # NoScreen /\ ConnectCycleDone)
    /\ ~animating
    /\ wake' = Refresh
    /\ UNCHANGED <<display, redraw, preview, deadline, state, pending, frame, cache, after,
                   animating, panel, played>>

\* Otherwise it goes to sleep: a static screen until the next refresh or the preview's expiry,
SleepStatic ==
    /\ Goto("drawn", "idle")
    /\ ~(pending # NoScreen /\ ConnectCycleDone)
    /\ ~animating
    /\ wake' = IF deadline = NoTimer THEN Refresh ELSE Lesser(deadline, Refresh)
    /\ UNCHANGED <<display, redraw, preview, deadline, state, pending, frame, cache, after,
                   animating, panel, played>>

\* Mutant: the parked screen is taken for the test and not put back.
SleepDropsParked ==
    /\ Goto("drawn", "tick")
    /\ ~(pending # NoScreen /\ ConnectCycleDone)
    /\ animating
    /\ wake' = FrameTime
    /\ pending' = NoScreen
    /\ UNCHANGED <<display, redraw, preview, deadline, state, frame, cache, after,
                   animating, panel, played>>

\* an animated one until its next frame.
SleepFrame ==
    /\ Goto("drawn", "tick")
    /\ ~(pending # NoScreen /\ ConnectCycleDone)
    /\ animating
    /\ wake' = FrameTime
    /\ UNCHANGED <<display, redraw, preview, deadline, state, pending, frame, cache, after,
                   animating, panel, played>>

(* select3 polls its timer, then DISPLAY, then REDRAW, and leaves what it did not poll. *)
TimerWins == wake = 0
DisplayWins == wake > 0 /\ display # NoScreen
RedrawWins == wake > 0 /\ display = NoScreen /\ redraw
Woken == TimerWins \/ display # NoScreen \/ redraw

\* A sleep ends: the task goes on at next.
Awake(from, next) ==
    /\ Goto(from, next)
    /\ wake' = NoTimer
    /\ UNCHANGED <<preview, deadline, cache, animating, panel>>

\* Mutant: a static screen sleeps on when its timer fires, unless that was the deadline's.
SleepsOn ==
    /\ Goto("idle", IF PreviewExpired THEN "enter" ELSE "idle")
    /\ TimerWins
    /\ wake' = IF PreviewExpired THEN NoTimer ELSE Refresh
    /\ UNCHANGED <<display, redraw, preview, deadline, state, pending, frame, cache, after,
                   animating, panel, played>>

\* Static screen: the refresh is due or the preview expires, and the same screen is redrawn.
IdleTimer ==
    /\ Awake("idle", "enter")
    /\ TimerWins
    /\ UNCHANGED <<display, redraw, state, pending, frame, after, played>>

IdleDisplay ==
    /\ Awake("idle", "enter")
    /\ DisplayWins
    /\ SwitchTo(display)
    /\ display' = NoScreen
    /\ UNCHANGED <<redraw, pending, frame, after>>

IdleRedraw ==
    /\ Awake("idle", "enter")
    /\ RedrawWins
    /\ redraw' = FALSE
    /\ UNCHANGED <<display, state, pending, frame, after, played>>

\* Mutant: the frame counter does not wrap.
FrameOverflows ==
    /\ Awake("tick", "check")
    /\ TimerWins
    /\ frame' = frame + 1
    /\ UNCHANGED <<display, redraw, state, pending, after, played>>

\* Animated screen: the next frame, on the cached layout.
NextFrame ==
    /\ Awake("tick", "check")
    /\ TimerWins
    /\ frame' = (frame + 1) % FrameWrap
    /\ UNCHANGED <<display, redraw, state, pending, after, played>>

\* A screen arrives while the tram has not completed its pass: park it. A newer one replaces
\* the one parked.
Park ==
    /\ Awake("tick", "check")
    /\ DisplayWins
    /\ state.kind = "Connecting" /\ ~ConnectCycleDone
    /\ pending' = display
    /\ display' = NoScreen
    /\ UNCHANGED <<redraw, state, frame, after, played>>

CutOver ==
    /\ Awake("tick", "enter")
    /\ DisplayWins
    /\ ~(state.kind = "Connecting" /\ ~ConnectCycleDone)
    /\ SwitchTo(display)
    /\ display' = NoScreen
    /\ UNCHANGED <<redraw, pending, frame, after>>

\* Mutant: REDRAW redraws the frame from the layout cloned earlier.
RedrawFromOldCache ==
    /\ Awake("tick", "check")
    /\ RedrawWins
    /\ redraw' = FALSE
    /\ UNCHANGED <<display, state, pending, frame, after, played>>

\* REDRAW while animating: refresh the cache and redraw this frame.
TickRedraw ==
    /\ Awake("tick", "refresh")
    /\ RedrawWins
    /\ redraw' = FALSE
    /\ after' = "check"
    /\ UNCHANGED <<display, state, pending, frame, played>>

RenderTask ==
    \/ FirstScreen \/ Enter \/ RefreshCache \/ ClonePreview \/ CloneCustom
    \/ CheckDeadline \/ RevertDeadline \/ RevertTakes \/ RevertWakes
    \/ Draw \/ Unpark \/ SleepStatic \/ SleepFrame
    \/ IdleTimer \/ IdleDisplay \/ IdleRedraw
    \/ NextFrame \/ Park \/ CutOver \/ TickRedraw

-----------------------------------------------------------------------------
\* A timer one tick later.
Down(t) == IF t = NoTimer \/ t = 0 THEN t ELSE t - 1

\* Time passes, also between two steps of either core, but not while a sleeping render_task
\* has something to wake up for: the executor polls it well within a tick.
Tick ==
    /\ ~(Asleep /\ Woken)
    /\ wake' = Down(wake)
    /\ deadline' = Down(deadline)
    /\ UNCHANGED <<display, redraw, custom, preview, uiMode, coreZeroVars, pc, state,
                   pending, frame, cache, animating, after, panel, played>>

Next == BootScreen \/ RunScreen \/ CoreZero \/ RenderTask \/ Tick

Spec == Init /\ [][Next]_vars

\* The boot code signals its screen, a handler that was called runs to its end, render_task is
\* scheduled whenever it can go on, and time passes. Nothing has to be requested.
HandlerGoesOn == ArmDeadline \/ HandlerTakes \/ LayoutWakes \/ LayoutEndsPreview \/ HandlerWakes

FairSpec ==
    /\ Spec
    /\ WF_vars(BootScreen)
    /\ WF_vars(HandlerGoesOn)
    /\ WF_vars(RenderTask)
    /\ WF_vars(Tick)

-----------------------------------------------------------------------------
(* Properties *)

\* No access of the shared state is under way on either core, nor a wake-up on its way.
Settled == Asleep /\ http = "ready" /\ ~redraw

\* What refresh_layout_cache would return now.
FreshCache ==
    IF PreviewActive /\ preview # NoLayout
    THEN [preview |-> preview, custom |-> NoLayout]
    ELSE [preview |-> NoLayout, custom |-> custom]

\* The pixels come from what core 0 last stored: once every access is through and every
\* wake-up taken, the panel shows the current screen drawn from the current layouts. A preview
\* whose time is up may still be there, until the timer of WakesInTime (display/mod.rs
\* 238-244, 306 against shared.rs 82-139).
PanelIsCurrent ==
    Settled /\ ~PreviewExpired =>
        /\ cache = FreshCache
        /\ panel.screen = state
        /\ panel.cache = cache

\* A static screen never sleeps past the expiry of the preview it shows, although the deadline
\* may be armed by the other core at any point around the read that bounds the sleep
\* (display/mod.rs 274-282).
WakesInTime ==
    Settled /\ pc = "idle" /\ deadline # NoTimer => wake <= deadline

\* The tram is cut off only after every frame of one pass was drawn, whatever arrives in the
\* meantime (display/mod.rs 233-235).
TramCompletesPass ==
    [][state # NoScreen /\ state.kind = "Connecting" /\ state' # state
            => played = PassFrames]_vars

\* The newest screen is drawn, or a newer one: no screen is lost in the DISPLAY slot, parked for
\* good or overtaken by the frame timer.
NewestScreenShown ==
    \A n \in 1..MaxScreens :
        signalled = n ~> panel.screen # NoScreen /\ panel.screen.seq >= n

\* An expired preview leaves the panel without anyone asking, unless it is renewed.
ExpiredPreviewLeaves ==
    PreviewExpired ~> PreviewActive \/ panel.cache.preview = NoLayout

\* A change of the view mode reaches the panel, although POST /config does not wake
\* render_task: a static screen is redrawn periodically (display/mod.rs 270-278).
ModeReachesPanel ==
    \A m \in Modes :
        (uiMode = m /\ panel.screen # NoScreen) ~> (uiMode # m \/ panel.mode = m)

\* The doc comment of PREVIEW_TTL (shared.rs 103-104): the auto-revert "only fires when pushes
\* stop". Then the deadline it clears has not just been armed again.
RevertsOnlyExpired ==
    [][pc = "revert" /\ pc' = "revertTake" => ~PreviewActive]_vars
=============================================================================
