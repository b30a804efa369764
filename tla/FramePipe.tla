------------------------------ MODULE FramePipe ------------------------------
(***************************************************************************)
(* What the double-buffer handshake of display/mod.rs promises, with the   *)
(* buffers and the two hand-over slots hidden: the render task completes   *)
(* frames one after the other, the panel shows every one of them, in       *)
(* order, and no frame is completed before its predecessor is on the       *)
(* panel.                                                                  *)
(***************************************************************************)
EXTENDS Naturals

CONSTANT FrameCount     \* frames are numbered modulo this bound

VARIABLES
    drawn,      \* number of the last frame the render task completed
    shown       \* number of the frame the panel is driven from

pipeVars == <<drawn, shown>>

Frames == 0..(FrameCount - 1)

\* The frame after n. Frame 0 is the blank content both buffers start with.
Following(n) == IF n = FrameCount - 1 THEN 0 ELSE n + 1

PipeInit == drawn = 0 /\ shown = 0

\* A new frame is completed only while the panel shows its predecessor.
Complete ==
    /\ shown = drawn
    /\ drawn' = Following(drawn)
    /\ UNCHANGED shown

\* The panel moves on to the completed frame.
Show ==
    /\ shown # drawn
    /\ shown' = drawn
    /\ UNCHANGED drawn

PipeNext == Complete \/ Show

PipeSpec == PipeInit /\ [][PipeNext]_pipeVars

PipeFairSpec == PipeSpec /\ WF_pipeVars(Show)
=============================================================================
