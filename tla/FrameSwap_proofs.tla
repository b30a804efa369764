--------------------------- MODULE FrameSwap_proofs ---------------------------
(***************************************************************************)
(* The frame-buffer exchange is safe for every numbering of the frames:    *)
(* the invariants of FrameSwap, and the safety part of the refinement of   *)
(* FramePipe.                                                              *)
(***************************************************************************)
EXTENDS FrameSwap, TLAPS

\* The buffer the panel is not driven from is in one place, told by the two program counters.
Elsewhere(b) ==
    \/ /\ renderPc # "await"
       /\ renderFb = b /\ toHub = NoBuffer /\ hubNew = NoBuffer /\ toRender = NoBuffer
    \/ /\ renderPc = "await"
       /\ \/ toHub = b /\ hubNew = NoBuffer /\ toRender = NoBuffer
          \/ toHub = NoBuffer /\ hubNew = b /\ toRender = NoBuffer
          \/ toHub = NoBuffer /\ hubNew = NoBuffer /\ toRender = b

\* A completed frame that the panel is not driven from yet.
InFlight == renderPc = "offer" \/ toHub # NoBuffer \/ hubNew # NoBuffer

\* The inductive invariant: where the spare buffer is, and what the two buffers hold.
SwapInv ==
    /\ TypeOK
    /\ \E b \in Buffers :
        /\ b # hubFb
        /\ Elsewhere(b)
        /\ ink[hubFb] # Torn
        /\ IF InFlight
           THEN ink[b] = last /\ last = Pipe!Following(ink[hubFb])
           ELSE ink[hubFb] = last

\* Following stays within the frame numbers, and moves off the number it is given.
LEMMA FollowingFrame ==
    ASSUME NEW n \in Pipe!Frames
    PROVE  Pipe!Following(n) \in Pipe!Frames /\ Pipe!Following(n) # n
BY FrameCountAssumption DEF Pipe!Frames, Pipe!Following

\* The number that stands for an erased buffer is none of the frames'.
LEMMA TornIsNoFrame == Torn \notin Pipe!Frames
BY FrameCountAssumption DEF Pipe!Frames, Torn

LEMMA InitSwapInv == Init => SwapInv
<1> SUFFICES ASSUME Init PROVE SwapInv
  OBVIOUS
<1>1. 0 \in Pipe!Frames
  BY FrameCountAssumption DEF Pipe!Frames
<1>2. TypeOK
  BY <1>1, BuffersAssumption DEF Init, TypeOK
<1>3. /\ RenderFirst \in Buffers
      /\ RenderFirst # hubFb
      /\ Elsewhere(RenderFirst)
      /\ ink[hubFb] # Torn
      /\ ~InFlight
      /\ ink[hubFb] = last
  BY <1>1, TornIsNoFrame, BuffersAssumption DEF Init, Elsewhere, InFlight
<1> QED
  BY <1>2, <1>3 DEF SwapInv

LEMMA NextSwapInv == SwapInv /\ [Next]_vars => SwapInv'
<1> SUFFICES ASSUME SwapInv, [Next]_vars PROVE SwapInv'
  OBVIOUS
<1>b. PICK b \in Buffers :
        /\ b # hubFb
        /\ Elsewhere(b)
        /\ ink[hubFb] # Torn
        /\ IF InFlight
           THEN ink[b] = last /\ last = Pipe!Following(ink[hubFb])
           ELSE ink[hubFb] = last
  BY DEF SwapInv
<1>t. TypeOK
  BY DEF SwapInv
<1> USE <1>b, <1>t, BuffersAssumption, TornIsNoFrame
<1>1. CASE RenderErase
  BY <1>1 DEF RenderErase, hubVars, SwapInv, TypeOK, Elsewhere, InFlight, Pipe!Frames
<1>2. CASE RenderDraw
  BY <1>2, FollowingFrame
     DEF RenderDraw, hubVars, SwapInv, TypeOK, Elsewhere, InFlight, Pipe!Frames
<1>3. CASE RenderOffer
  BY <1>3 DEF RenderOffer, hubVars, SwapInv, TypeOK, Elsewhere, InFlight, Pipe!Frames
<1>4. CASE RenderTake
  BY <1>4 DEF RenderTake, hubVars, SwapInv, TypeOK, Elsewhere, InFlight, Pipe!Frames
<1>5. CASE HubFirstTake
  BY <1>5 DEF HubFirstTake, TakeOffered, renderVars, SwapInv, TypeOK, Elsewhere, InFlight
<1>6. CASE HubFirstReturn
  BY <1>6 DEF HubFirstReturn, ReturnShown, renderVars, SwapInv, TypeOK, Elsewhere, InFlight
<1>7. CASE HubCheck
  BY <1>7 DEF HubCheck, TakeOffered, renderVars, SwapInv, TypeOK, Elsewhere, InFlight
<1>8. CASE HubReturn
  BY <1>8 DEF HubReturn, ReturnShown, renderVars, SwapInv, TypeOK, Elsewhere, InFlight
<1>9. CASE HubStart \/ HubScanned
  BY <1>9 DEF HubStart, HubScanned, renderVars, SwapInv, TypeOK, Elsewhere, InFlight
<1>10. CASE UNCHANGED vars
  BY <1>10 DEF vars, SwapInv, TypeOK, Elsewhere, InFlight
<1> QED
  BY <1>1, <1>2, <1>3, <1>4, <1>5, <1>6, <1>7, <1>8, <1>9, <1>10 DEF Next, Render, Hub

\* The inductive invariant holds throughout.
THEOREM SwapInvariant == Spec => []SwapInv
BY InitSwapInv, NextSwapInv, PTL DEF Spec

\* Type correctness: render_task holds no reference while it waits for one, and hub75_task
\* holds a second one only while it swaps.
THEOREM TypeCorrect == Spec => []TypeOK
BY SwapInvariant, PTL DEF SwapInv

\* Neither buffer is ever lost in an occupied slot or reachable from two places.
THEOREM OwnerIsUnique == Spec => []OneOwner
<1>1. SwapInv => OneOwner
  <2> SUFFICES ASSUME SwapInv, NEW b \in Buffers
               PROVE  \E h \in DOMAIN Holders :
                         \A g \in DOMAIN Holders : Holders[g] = b <=> g = h
    BY DEF OneOwner
  <2>1. DOMAIN Holders = {"renderFb", "toHub", "hubNew", "hubFb", "toRender"}
    BY DEF Holders
  <2>2. /\ Holders["renderFb"] = renderFb
        /\ Holders["toHub"] = toHub
        /\ Holders["hubNew"] = hubNew
        /\ Holders["hubFb"] = hubFb
        /\ Holders["toRender"] = toRender
    BY DEF Holders
  <2>3. CASE b = hubFb
    BY <2>1, <2>2, <2>3, BuffersAssumption DEF SwapInv, TypeOK, Elsewhere
  <2>4. CASE b # hubFb
    <3>1. Elsewhere(b)
      BY <2>4, BuffersAssumption DEF SwapInv, TypeOK
    <3> QED
      BY <2>1, <2>2, <2>4, <3>1, BuffersAssumption DEF SwapInv, TypeOK, Elsewhere
  <2> QED
    BY <2>3, <2>4
<1> QED
  BY <1>1, SwapInvariant, PTL

\* The panel is never driven from a buffer that render_task is drawing into.
THEOREM WholeFrames == Spec => []PanelSeesWholeFrames
<1>1. SwapInv => PanelSeesWholeFrames
  BY BuffersAssumption DEF SwapInv, TypeOK, Elsewhere, PanelSeesWholeFrames
<1> QED
  BY <1>1, SwapInvariant, PTL

\* The safety part of ImplementsPipe: the panel shows the frames one by one, in order, none
\* skipped and none completed ahead of time.
THEOREM ExchangeImplementsPipe == Spec => Pipe!PipeSpec
<1>1. Init => Pipe!PipeInit
  BY BuffersAssumption DEF Init, Pipe!PipeInit
<1>2. SwapInv /\ [Next]_vars => [Pipe!PipeNext]_(Pipe!pipeVars)
  <2> SUFFICES ASSUME SwapInv, [Next]_vars
               PROVE  [Pipe!PipeNext]_(Pipe!pipeVars)
    OBVIOUS
  <2> USE BuffersAssumption, TornIsNoFrame
      DEF SwapInv, TypeOK, Elsewhere, InFlight, Pipe!pipeVars
  <2>1. CASE RenderErase
    BY <2>1 DEF RenderErase, hubVars
  <2>2. CASE RenderDraw
    BY <2>2, FollowingFrame DEF RenderDraw, hubVars, Pipe!PipeNext, Pipe!Complete
  <2>3. CASE RenderOffer \/ RenderTake
    BY <2>3 DEF RenderOffer, RenderTake, hubVars
  <2>4. CASE HubFirstTake \/ HubCheck
    BY <2>4 DEF HubFirstTake, HubCheck, TakeOffered, renderVars
  <2>5. CASE HubFirstReturn \/ HubReturn
    BY <2>5, FollowingFrame
       DEF HubFirstReturn, HubReturn, ReturnShown, renderVars, Pipe!PipeNext, Pipe!Show
  <2>6. CASE HubStart \/ HubScanned
    BY <2>6 DEF HubStart, HubScanned, renderVars
  <2>7. CASE UNCHANGED vars
    BY <2>7 DEF vars
  <2> QED
    BY <2>1, <2>2, <2>3, <2>4, <2>5, <2>6, <2>7 DEF Next, Render, Hub
<1> QED
  BY <1>1, <1>2, SwapInvariant, PTL DEF Spec, Pipe!PipeSpec
=============================================================================
