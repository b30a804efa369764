----------------------------- MODULE Panel_proofs -----------------------------
(***************************************************************************)
(* The panel is current, wakes in time and lets the tram complete its      *)
(* pass, for any layouts, time-outs, pass length and number of requests.   *)
(***************************************************************************)
EXTENDS Panel, TLAPS

LEMMA LesserNat ==
    ASSUME NEW a \in Nat, NEW b \in Nat
    PROVE  Lesser(a, b) \in Nat /\ Lesser(a, b) <= a /\ Lesser(a, b) <= b
BY DEF Lesser

\* The longest sleep covers both time-outs.
LEMMA LongestSleep ==
    /\ Larger(Refresh, FrameTime) \in Nat
    /\ Refresh <= Larger(Refresh, FrameTime)
    /\ FrameTime <= Larger(Refresh, FrameTime)
BY TimesAssumption DEF Larger

\* A timer of at most n ticks is none, due or running.
LEMMA TimerCases ==
    ASSUME NEW n \in Nat, NEW t \in Timers(n)
    PROVE  t = NoTimer \/ (t \in 0..n /\ t # NoTimer)
BY TimesAssumption DEF Timers

LEMMA InitTypeOK == Init => TypeOK
<1> SUFFICES ASSUME Init PROVE TypeOK
  OBVIOUS
<1>1. cache \in Caches
  BY DEF Init, Caches, Previews
<1>2. panel \in [screen : Screens \cup {NoScreen}, cache : Caches, mode : Modes]
  BY <1>1 DEF Init
<1>3. 0 \in 0..(FrameWrap - 1) /\ 0 \in 0..PassFrames /\ 0 \in 0..MaxScreens
      /\ 0 \in 0..MaxRequests
  BY BoundsAssumption
<1> QED
  BY <1>1, <1>2, <1>3 DEF Init, TypeOK, Asleep, Previews, Timers

LEMMA NextTypeOK == TypeOK /\ [Next]_vars => TypeOK'
<1> SUFFICES ASSUME TypeOK, [Next]_vars PROVE TypeOK'
  OBVIOUS
<1> USE LayoutsAssumption, ScreensAssumption, TimesAssumption, BoundsAssumption
    DEF TypeOK, Asleep
<1>1. CASE BootScreen
  BY <1>1 DEF BootScreen, Signal, Screens, mirrorVars, renderLocals
<1>2. CASE RunScreen
  BY <1>2 DEF RunScreen, Signal, Screens, mirrorVars, renderLocals
<1>3. CASE CoreZero
  <2> USE DEF Begin, Proceed, mirrorVars, renderLocals, Previews, Timers
  <2>1. CASE PostPreview
    BY <2>1 DEF PostPreview
  <2>2. CASE PostPreviewEnd
    BY <2>2 DEF PostPreviewEnd
  <2>3. CASE PostLayout
    BY <2>3 DEF PostLayout
  <2>4. CASE PostConfig
    BY <2>4 DEF PostConfig
  <2>5. CASE ArmDeadline
    BY <2>5 DEF ArmDeadline
  <2>6. CASE HandlerTakes
    BY <2>6 DEF HandlerTakes
  <2>7. CASE LayoutWakes
    BY <2>7 DEF LayoutWakes
  <2>8. CASE LayoutEndsPreview
    BY <2>8 DEF LayoutEndsPreview
  <2>9. CASE HandlerWakes
    BY <2>9 DEF HandlerWakes
  <2> QED
    BY <1>3, <2>1, <2>2, <2>3, <2>4, <2>5, <2>6, <2>7, <2>8, <2>9 DEF CoreZero
<1>4. CASE RenderTask
  <2> USE DEF Goto, coreZeroVars, drawnVars, renderLocals
  <2>1. CASE FirstScreen
    BY <2>1 DEF FirstScreen
  <2>2. CASE Enter
    BY <2>2 DEF Enter
  <2>3. CASE RefreshCache
    BY <2>3 DEF RefreshCache
  <2>4. CASE ClonePreview
    BY <2>4 DEF ClonePreview, Caches
  <2>5. CASE CloneCustom
    BY <2>5 DEF CloneCustom, Caches, Previews
  <2>6. CASE CheckDeadline
    BY <2>6 DEF CheckDeadline
  <2>7. CASE RevertDeadline
    BY <2>7 DEF RevertDeadline, Timers
  <2>8. CASE RevertTakes
    BY <2>8 DEF RevertTakes, Previews
  <2>9. CASE RevertWakes
    BY <2>9 DEF RevertWakes
  <2>10. CASE Draw
    <3>1. played' \in 0..PassFrames
      BY <2>10 DEF Draw
    <3>2. animating' \in BOOLEAN
      BY <2>10 DEF Draw, Animates
    <3>3. panel' \in [screen : Screens \cup {NoScreen}, cache : Caches, mode : Modes]
      BY <2>10 DEF Draw
    <3> QED
      BY <2>10, <3>1, <3>2, <3>3 DEF Draw
  <2>11. CASE Unpark
    BY <2>11 DEF Unpark, SwitchTo
  <2>12. CASE SleepStatic
    <3>1. wake' \in 0..Larger(Refresh, FrameTime)
      <4>1. CASE deadline = NoTimer
        <5>1. wake' = Refresh
          BY <2>12, <4>1 DEF SleepStatic
        <5> QED
          BY <5>1, LongestSleep
      <4>2. CASE deadline \in Nat
        <5>1. Lesser(deadline, Refresh) \in Nat /\ Lesser(deadline, Refresh) <= Refresh
          BY <4>2, LesserNat
        <5> QED
          <6>1. wake' = Lesser(deadline, Refresh)
            BY <2>12, <4>2 DEF SleepStatic
          <6> QED
            BY <5>1, <6>1, LongestSleep
      <4> QED
        BY <4>1, <4>2, TimerCases
    <3> QED
      BY <2>12, <3>1 DEF SleepStatic
  <2>13. CASE SleepFrame
    BY <2>13, LongestSleep DEF SleepFrame
  <2> USE DEF Awake
  <2>14. CASE IdleTimer
    BY <2>14 DEF IdleTimer
  <2>15. CASE IdleDisplay
    BY <2>15 DEF IdleDisplay, DisplayWins, SwitchTo
  <2>16. CASE IdleRedraw
    BY <2>16 DEF IdleRedraw
  <2>17. CASE NextFrame
    BY <2>17 DEF NextFrame
  <2>18. CASE Park
    BY <2>18 DEF Park, DisplayWins
  <2>19. CASE CutOver
    BY <2>19 DEF CutOver, DisplayWins, SwitchTo
  <2>20. CASE TickRedraw
    BY <2>20 DEF TickRedraw
  <2> QED
    BY <1>4, <2>1, <2>2, <2>3, <2>4, <2>5, <2>6, <2>7, <2>8, <2>9, <2>10, <2>11, <2>12,
       <2>13, <2>14, <2>15, <2>16, <2>17, <2>18, <2>19, <2>20 DEF RenderTask
<1>5. CASE Tick
  <2>1. deadline' \in Timers(PreviewTtl)
    BY <1>5, TimerCases DEF Tick, Timers, Down
  <2>2. wake' \in IF Asleep THEN 0..Larger(Refresh, FrameTime) ELSE {NoTimer}
    <3>1. CASE Asleep
      <4>1. wake \in 0..Larger(Refresh, FrameTime) /\ wake' = Down(wake)
        BY <1>5, <3>1 DEF Tick
      <4> QED
        BY <3>1, <4>1, LongestSleep DEF Down
    <3>2. CASE ~Asleep
      BY <1>5, <3>2 DEF Tick, Down
    <3> QED
      BY <3>1, <3>2
  <2> QED
    BY <1>5, <2>1, <2>2 DEF Tick, coreZeroVars
<1>6. CASE UNCHANGED vars
  BY <1>6 DEF vars, mirrorVars, coreZeroVars, renderLocals
<1> QED
  BY <1>1, <1>2, <1>3, <1>4, <1>5, <1>6 DEF Next

\* Type correctness of the render loop and of the state both cores share.
THEOREM TypeCorrect == Spec => []TypeOK
BY InitTypeOK, NextTypeOK, PTL DEF Spec

-----------------------------------------------------------------------------
\* A wake-up is pending, or a handler under way that will end with one.
Owed == redraw \/ http # "ready"

\* Unless a wake-up is owed, what render_task has read of the mirrors is what they hold, up to
\* a preview that expired since.
CacheInv ==
    ~Owed =>
        /\ pc = "clonePreview" => deadline # NoTimer
        /\ pc = "cloneCustom" => PreviewExpired \/ ~PreviewActive \/ preview = NoLayout
        /\ pc \in {"check", "draw", "drawn", "idle", "tick"} =>
              PreviewExpired \/ cache = FreshCache

\* The last frame was drawn from the state and the cache render_task still holds.
DrawnInv ==
    pc \in {"drawn", "idle", "tick"} => panel.screen = state /\ panel.cache = cache

\* The sleep was bounded by the deadline, and both run down together.
WakeInv ==
    ~Owed /\ pc = "idle" /\ deadline # NoTimer => wake <= deadline

\* The frames of the tram follow one another from 0; the counter wraps only after a full pass.
TramInv ==
    /\ pc = "boot" => played = 0
    /\ pc # "boot" /\ state.kind = "Connecting" =>
        /\ pc # "idle"
        /\ pc = "enter" => played = 0
        /\ pc \notin {"enter", "drawn", "tick"} => played \in {PassFrames, frame, frame + 1}
        /\ pc \in {"drawn", "tick"} => animating /\ played \in {PassFrames, frame + 1}

LEMMA InitCurrent == Init => CacheInv /\ DrawnInv /\ WakeInv /\ TramInv
BY DEF Init, CacheInv, DrawnInv, WakeInv, TramInv, Owed

\* A test of the deadline finds it absent, passed or ahead, and never two of these.
LEMMA DeadlineCases ==
    ASSUME TypeOK
    PROVE  /\ deadline = NoTimer \/ PreviewExpired \/ PreviewActive
           /\ ~(PreviewExpired /\ PreviewActive)
           /\ ~(deadline = NoTimer /\ (PreviewExpired \/ PreviewActive))
BY TimerCases, TimesAssumption DEF TypeOK, PreviewExpired, PreviewActive

LEMMA NextCacheInv == TypeOK /\ CacheInv /\ [Next]_vars => CacheInv'
<1> SUFFICES ASSUME TypeOK, CacheInv, [Next]_vars PROVE CacheInv'
  OBVIOUS
<1> USE DeadlineCases DEF CacheInv, Owed, FreshCache, PreviewExpired, PreviewActive
<1>1. CASE BootScreen \/ RunScreen
  BY <1>1 DEF BootScreen, RunScreen, Signal, mirrorVars, renderLocals
<1>2. CASE PostPreview \/ PostPreviewEnd \/ PostLayout
  BY <1>2 DEF PostPreview, PostPreviewEnd, PostLayout, Begin
<1>3. CASE PostConfig
  BY <1>3 DEF PostConfig, Begin, renderLocals
<1>4. CASE HandlerGoesOn
  BY <1>4 DEF HandlerGoesOn, ArmDeadline, HandlerTakes, LayoutWakes, LayoutEndsPreview,
              HandlerWakes, Proceed
<1>5. CASE RenderTask
  <2> USE DEF Goto, coreZeroVars, drawnVars, renderLocals, TypeOK
  <2>1. CASE FirstScreen \/ Enter \/ RefreshCache
    BY <2>1 DEF FirstScreen, Enter, RefreshCache
  <2>2. CASE ClonePreview
    BY <2>2 DEF ClonePreview
  <2>3. CASE CloneCustom
    BY <2>3 DEF CloneCustom
  <2>4. CASE CheckDeadline
    BY <2>4 DEF CheckDeadline
  <2>5. CASE RevertDeadline \/ RevertTakes \/ RevertWakes
    BY <2>5 DEF RevertDeadline, RevertTakes, RevertWakes
  <2>6. CASE Draw
    BY <2>6 DEF Draw
  <2>7. CASE Unpark \/ SleepStatic \/ SleepFrame
    BY <2>7 DEF Unpark, SleepStatic, SleepFrame
  <2>8. CASE IdleTimer \/ IdleDisplay \/ IdleRedraw \/ CutOver \/ TickRedraw
    BY <2>8 DEF IdleTimer, IdleDisplay, IdleRedraw, CutOver, TickRedraw, Awake
  <2>9. CASE NextFrame \/ Park
    BY <2>9 DEF NextFrame, Park, Awake
  <2> QED
    BY <1>5, <2>1, <2>2, <2>3, <2>4, <2>5, <2>6, <2>7, <2>8, <2>9 DEF RenderTask
<1>6. CASE Tick
  BY <1>6, TimerCases, TimesAssumption DEF Tick, Down, coreZeroVars, TypeOK
<1>7. CASE UNCHANGED vars
  BY <1>7 DEF vars, mirrorVars, coreZeroVars, renderLocals
<1> QED
  BY <1>1, <1>2, <1>3, <1>4, <1>5, <1>6, <1>7 DEF Next, CoreZero, HandlerGoesOn

LEMMA NextDrawnInv == TypeOK /\ DrawnInv /\ [Next]_vars => DrawnInv'
<1> SUFFICES ASSUME TypeOK, DrawnInv, [Next]_vars PROVE DrawnInv'
  OBVIOUS
<1> USE DEF DrawnInv, renderLocals
<1>1. CASE BootScreen \/ RunScreen
  BY <1>1 DEF BootScreen, RunScreen, Signal
<1>2. CASE CoreZero
  BY <1>2 DEF CoreZero, PostPreview, PostPreviewEnd, PostLayout, PostConfig, ArmDeadline,
              HandlerTakes, LayoutWakes, LayoutEndsPreview, HandlerWakes, Begin, Proceed
<1>3. CASE RenderTask
  <2> USE DEF Goto, TypeOK
  <2>1. CASE FirstScreen \/ Enter \/ RefreshCache \/ ClonePreview \/ CloneCustom
    BY <2>1 DEF FirstScreen, Enter, RefreshCache, ClonePreview, CloneCustom
  <2>2. CASE CheckDeadline \/ RevertDeadline \/ RevertTakes \/ RevertWakes
    BY <2>2 DEF CheckDeadline, RevertDeadline, RevertTakes, RevertWakes
  <2>3. CASE Draw
    BY <2>3 DEF Draw
  <2>4. CASE Unpark \/ SleepStatic \/ SleepFrame
    BY <2>4 DEF Unpark, SleepStatic, SleepFrame
  <2>5. CASE IdleTimer \/ IdleDisplay \/ IdleRedraw
    BY <2>5 DEF IdleTimer, IdleDisplay, IdleRedraw, Awake
  <2>6. CASE NextFrame \/ Park \/ CutOver \/ TickRedraw
    BY <2>6 DEF NextFrame, Park, CutOver, TickRedraw, Awake
  <2> QED
    BY <1>3, <2>1, <2>2, <2>3, <2>4, <2>5, <2>6 DEF RenderTask
<1>4. CASE Tick
  BY <1>4 DEF Tick
<1>5. CASE UNCHANGED vars
  BY <1>5 DEF vars
<1> QED
  BY <1>1, <1>2, <1>3, <1>4, <1>5 DEF Next

LEMMA NextWakeInv == TypeOK /\ WakeInv /\ [Next]_vars => WakeInv'
<1> SUFFICES ASSUME TypeOK, WakeInv, [Next]_vars PROVE WakeInv'
  OBVIOUS
<1> USE DEF WakeInv, Owed
<1>1. CASE BootScreen \/ RunScreen
  BY <1>1 DEF BootScreen, RunScreen, Signal, mirrorVars, renderLocals
<1>2. CASE PostPreview \/ PostPreviewEnd \/ PostLayout
  BY <1>2 DEF PostPreview, PostPreviewEnd, PostLayout, Begin
<1>3. CASE PostConfig
  BY <1>3 DEF PostConfig, Begin, renderLocals
<1>4. CASE HandlerGoesOn
  BY <1>4 DEF HandlerGoesOn, ArmDeadline, HandlerTakes, LayoutWakes, LayoutEndsPreview,
              HandlerWakes, Proceed
<1>5. CASE RenderTask
  <2> USE DEF Goto
  <2>1. CASE SleepStatic
    <3>1. CASE deadline = NoTimer
      BY <2>1, <3>1 DEF SleepStatic
    <3>2. CASE deadline \in Nat
      BY <2>1, <3>2, LesserNat, TimesAssumption DEF SleepStatic
    <3> QED
      BY <3>1, <3>2, TimerCases, TimesAssumption DEF TypeOK
  <2>2. CASE ~SleepStatic
    <3>1. pc' # "idle"
      BY <1>5, <2>2 DEF RenderTask, FirstScreen, Enter, RefreshCache, ClonePreview, CloneCustom,
         CheckDeadline, RevertDeadline, RevertTakes, RevertWakes, Draw, Unpark, SleepFrame,
         IdleTimer, IdleDisplay, IdleRedraw, NextFrame, Park, CutOver, TickRedraw, Awake, TypeOK
    <3> QED
      BY <3>1
  <2> QED
    BY <2>1, <2>2
<1>6. CASE Tick
  <2> SUFFICES ASSUME Owed' = Owed, ~Owed, pc = "idle", deadline' # NoTimer
               PROVE  wake' <= deadline'
    BY <1>6 DEF Tick, coreZeroVars
  <2>1. wake \in Nat /\ wake # 0
    BY <1>6, LongestSleep DEF Tick, Asleep, Woken, TimerWins, TypeOK
  <2>2. deadline # NoTimer /\ deadline \in Nat /\ wake <= deadline
    BY <1>6, TimerCases, TimesAssumption DEF Tick, Down, TypeOK
  <2> QED
    BY <1>6, <2>1, <2>2, TimesAssumption DEF Tick, Down
<1>7. CASE UNCHANGED vars
  BY <1>7 DEF vars, mirrorVars, coreZeroVars, renderLocals
<1> QED
  BY <1>1, <1>2, <1>3, <1>4, <1>5, <1>6, <1>7 DEF Next, CoreZero, HandlerGoesOn

LEMMA NextTramInv == TypeOK /\ TramInv /\ [Next]_vars => TramInv'
<1> SUFFICES ASSUME TypeOK, TramInv, [Next]_vars PROVE TramInv'
  OBVIOUS
<1> USE DEF TramInv, renderLocals
<1>1. CASE BootScreen \/ RunScreen
  BY <1>1 DEF BootScreen, RunScreen, Signal
<1>2. CASE CoreZero
  BY <1>2 DEF CoreZero, PostPreview, PostPreviewEnd, PostLayout, PostConfig, ArmDeadline,
              HandlerTakes, LayoutWakes, LayoutEndsPreview, HandlerWakes, Begin, Proceed
<1>3. CASE RenderTask
  <2> USE DEF Goto, TypeOK, drawnVars
  <2>0. /\ frame \in Nat /\ frame <= FrameWrap - 1 /\ FrameWrap \in Nat
        /\ played \in Nat /\ played <= PassFrames
        /\ PassFrames \in Nat /\ PassFrames > 0 /\ PassFrames <= FrameWrap
    BY BoundsAssumption
  <2>1. CASE FirstScreen
    <3>1. pc = "boot" /\ pc' = "enter" /\ played' = played
      BY <2>1 DEF FirstScreen
    <3> QED
      BY <3>1
  <2>2. CASE Enter \/ RefreshCache \/ ClonePreview \/ CloneCustom
    BY <2>2 DEF Enter, RefreshCache, ClonePreview, CloneCustom
  <2>3. CASE CheckDeadline \/ RevertDeadline \/ RevertTakes \/ RevertWakes
    BY <2>3 DEF CheckDeadline, RevertDeadline, RevertTakes, RevertWakes
  <2>4. CASE Draw
    <3>1. /\ pc = "draw" /\ pc' = "drawn" /\ state' = state /\ frame' = frame
          /\ animating' \in Animates(state.kind)
          /\ played' = IF state.kind = "Connecting" /\ frame = played /\ played < PassFrames
                       THEN played + 1 ELSE played
      BY <2>4 DEF Draw
    <3>2. ASSUME state.kind = "Connecting"
          PROVE  animating' = TRUE /\ played' \in {PassFrames, frame + 1}
      <4>1. played \in {PassFrames, frame, frame + 1}
        BY <3>1, <3>2
      <4>2. played' \in {PassFrames, frame + 1}
        BY <2>0, <3>1, <3>2, <4>1
      <4> QED
        BY <3>1, <3>2, <4>2 DEF Animates
    <3> QED
      BY <3>1, <3>2
  <2>5. CASE Unpark \/ SleepStatic \/ SleepFrame
    BY <2>5 DEF Unpark, SleepStatic, SleepFrame, SwitchTo
  <2>6. CASE IdleTimer \/ IdleDisplay \/ IdleRedraw
    BY <2>6 DEF IdleTimer, IdleDisplay, IdleRedraw, Awake, SwitchTo
  <2>7. CASE NextFrame
    BY <2>0, <2>7 DEF NextFrame, Awake
  <2>8. CASE Park \/ CutOver \/ TickRedraw
    BY <2>8 DEF Park, CutOver, TickRedraw, Awake, SwitchTo
  <2> QED
    BY <1>3, <2>1, <2>2, <2>3, <2>4, <2>5, <2>6, <2>7, <2>8 DEF RenderTask
<1>4. CASE Tick
  BY <1>4 DEF Tick
<1>5. CASE UNCHANGED vars
  BY <1>5 DEF vars
<1> QED
  BY <1>1, <1>2, <1>3, <1>4, <1>5 DEF Next

-----------------------------------------------------------------------------
\* The invariants hold together.
THEOREM PanelInvariant == Spec => [](TypeOK /\ CacheInv /\ DrawnInv /\ WakeInv /\ TramInv)
<1>1. Init => TypeOK /\ CacheInv /\ DrawnInv /\ WakeInv /\ TramInv
  BY InitTypeOK, InitCurrent
<1>2. TypeOK /\ CacheInv /\ DrawnInv /\ WakeInv /\ TramInv /\ [Next]_vars
        => (TypeOK /\ CacheInv /\ DrawnInv /\ WakeInv /\ TramInv)'
  BY NextTypeOK, NextCacheInv, NextDrawnInv, NextWakeInv, NextTramInv
<1> QED
  BY <1>1, <1>2, PTL DEF Spec

\* Whatever the two cores interleave, the panel ends up drawn from what core 0 last stored.
THEOREM PanelStaysCurrent == Spec => []PanelIsCurrent
<1>1. CacheInv /\ DrawnInv => PanelIsCurrent
  BY DEF CacheInv, DrawnInv, PanelIsCurrent, Settled, Asleep, Owed
<1> QED
  BY <1>1, PanelInvariant, PTL

\* A static screen never sleeps past the expiry of the preview it shows.
THEOREM SleepsWithinDeadline == Spec => []WakesInTime
<1>1. WakeInv => WakesInTime
  BY DEF WakeInv, WakesInTime, Settled, Owed
<1> QED
  BY <1>1, PanelInvariant, PTL

\* Nothing that core 0 signals cuts the tram's first pass short.
THEOREM TramIsNotCutShort == Spec => TramCompletesPass
<1>1. TypeOK /\ TramInv /\ [Next]_vars =>
        [state # NoScreen /\ state.kind = "Connecting" /\ state' # state
            => played = PassFrames]_vars
  <2> SUFFICES ASSUME TypeOK, TramInv, Next,
                      state # NoScreen, state.kind = "Connecting", state' # state
               PROVE  played = PassFrames
    OBVIOUS
  <2>0. /\ frame \in Nat /\ played \in Nat /\ played <= PassFrames
        /\ PassFrames \in Nat /\ PassFrames > 0
    BY BoundsAssumption DEF TypeOK
  <2>1. Unpark \/ IdleDisplay \/ CutOver \/ FirstScreen
    BY DEF Next, BootScreen, RunScreen, Signal, CoreZero, PostPreview, PostPreviewEnd,
       PostLayout, PostConfig, ArmDeadline, HandlerTakes, LayoutWakes, LayoutEndsPreview,
       HandlerWakes, Begin, Proceed, RenderTask, Enter, RefreshCache, ClonePreview, CloneCustom,
       CheckDeadline, RevertDeadline, RevertTakes, RevertWakes, Draw, SleepStatic, SleepFrame,
       IdleTimer, IdleRedraw, NextFrame, Park, TickRedraw, Tick, renderLocals
  <2>2. CASE Unpark
    BY <2>0, <2>2 DEF Unpark, Goto, TramInv, ConnectCycleDone
  <2>3. CASE IdleDisplay
    BY <2>3 DEF IdleDisplay, Awake, Goto, TramInv
  <2>4. CASE CutOver
    BY <2>0, <2>4 DEF CutOver, Awake, Goto, TramInv, ConnectCycleDone
  <2>5. CASE FirstScreen
    BY <2>5 DEF FirstScreen, Goto, TypeOK
  <2> QED
    BY <2>1, <2>2, <2>3, <2>4, <2>5
<1> QED
  BY <1>1, PanelInvariant, PTL DEF Spec, TramCompletesPass
=============================================================================
