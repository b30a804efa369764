------------------------------ MODULE FrameSwap ------------------------------
(***************************************************************************)
(* The frame-buffer exchange of display/mod.rs. hub75_task drives the      *)
(* panel over DMA from one buffer while render_task draws into the other;  *)
(* they swap the two over a pair of one-slot Signals. A Signal never       *)
(* blocks its writer: signalling an occupied slot replaces the value, so a *)
(* hand-over out of turn would lose a buffer for good.                     *)
(*                                                                         *)
(* Both tasks run on core 1, hub75_task on an interrupt executor that      *)
(* pre-empts render_task anywhere; every step below is its own action, so  *)
(* nothing here depends on which of the two has the higher priority.       *)
(***************************************************************************)
EXTENDS Naturals

CONSTANTS
    Buffers,        \* the two framebuffers
    RenderFirst,    \* fb0, handed to render_task when it is spawned
    HubFirst,       \* fb1, handed to hub75_task when it is spawned
    NoBuffer,       \* an empty slot, or a reference that was moved out
    FrameCount      \* frames are numbered modulo this bound

ASSUME BuffersAssumption ==
    /\ Buffers = {RenderFirst, HubFirst}
    /\ RenderFirst # HubFirst
    /\ NoBuffer \notin Buffers

\* Three numbers tell a skipped frame from a repeated one.
ASSUME FrameCountAssumption == FrameCount \in Nat /\ FrameCount >= 3

VARIABLES
    toRender,       \* slot ex_a: hub75_task's tx, render_task's rx
    toHub,          \* slot ex_b: render_task's tx, hub75_task's rx
    renderPc,       \* where render_task is
    renderFb,       \* its local fb
    hubPc,          \* where hub75_task is
    hubFb,          \* its local fb, the one the panel is driven from
    hubNew,         \* its local new_fb, between the wait and the assignment
    ink,            \* what each buffer's pixels hold: a frame, or Torn
    last            \* number of the last frame render_task completed

vars == <<toRender, toHub, renderPc, renderFb, hubPc, hubFb, hubNew, ink, last>>
renderVars == <<renderPc, renderFb, last>>
hubVars == <<hubPc, hubFb, hubNew>>

\* The exchange as the panel sees it: frame numbers, and which one drives the panel.
Pipe == INSTANCE FramePipe WITH drawn <- last, shown <- ink[hubFb]

Torn == FrameCount          \* a buffer that is erased and not yet redrawn in full

TypeOK ==
    /\ toRender \in Buffers \cup {NoBuffer}
    /\ toHub \in Buffers \cup {NoBuffer}
    /\ renderPc \in {"erase", "draw", "offer", "await"}
    /\ renderFb \in IF renderPc = "await" THEN {NoBuffer} ELSE Buffers
    /\ hubPc \in {"first", "firstReturn", "check", "return", "start", "scan"}
    /\ hubFb \in Buffers
    /\ hubNew \in IF hubPc \in {"firstReturn", "return"} THEN Buffers ELSE {NoBuffer}
    /\ ink \in [Buffers -> Pipe!Frames \cup {Torn}]
    /\ last \in Pipe!Frames

Init ==
    /\ toRender = NoBuffer
    /\ toHub = NoBuffer
    /\ renderPc = "erase"
    /\ renderFb = RenderFirst
    /\ hubPc = "first"
    /\ hubFb = HubFirst
    /\ hubNew = NoBuffer
    /\ ink = [b \in Buffers |-> 0]
    /\ last = 0

-----------------------------------------------------------------------------
(* render_task *)

\* fb.erase(): the buffer no longer holds a whole frame.
RenderErase ==
    /\ renderPc = "erase"
    /\ ink' = [ink EXCEPT ![renderFb] = Torn]
    /\ renderPc' = "draw"
    /\ UNCHANGED <<toRender, toHub, renderFb, last, hubVars>>

\* draw_state(fb, ...) has returned: the buffer holds the next frame.
RenderDraw ==
    /\ renderPc = "draw"
    /\ ink' = [ink EXCEPT ![renderFb] = Pipe!Following(last)]
    /\ last' = Pipe!Following(last)
    /\ renderPc' = "offer"
    /\ UNCHANGED <<toRender, toHub, renderFb, hubVars>>

\* tx.signal(fb): whatever the slot held is replaced, and the reference has moved.
RenderOffer ==
    /\ renderPc = "offer"
    /\ toHub' = renderFb
    /\ renderFb' = NoBuffer
    /\ renderPc' = "await"
    /\ UNCHANGED <<toRender, ink, last, hubVars>>

\* Mutant: the reference is taken without waiting for the slot to be filled.
RenderTakeEarly ==
    /\ renderPc = "await"
    /\ renderFb' = toRender
    /\ toRender' = NoBuffer
    /\ renderPc' = "erase"
    /\ UNCHANGED <<toHub, ink, last, hubVars>>

\* fb = rx.wait().await, followed by however long the task sleeps before its next frame.
RenderTake ==
    /\ renderPc = "await"
    /\ toRender # NoBuffer
    /\ renderFb' = toRender
    /\ toRender' = NoBuffer
    /\ renderPc' = "erase"
    /\ UNCHANGED <<toHub, ink, last, hubVars>>

-----------------------------------------------------------------------------
(* hub75_task *)

\* let new_fb = rx.wait().await
TakeOffered(next) ==
    /\ toHub # NoBuffer
    /\ hubNew' = toHub
    /\ toHub' = NoBuffer
    /\ hubPc' = next
    /\ UNCHANGED <<toRender, hubFb, ink, renderVars>>

\* The initial handshake blocks until render_task offers its first frame.
HubFirstTake == hubPc = "first" /\ TakeOffered("firstReturn")

\* Mutant: the new buffer is sent back instead of the one the panel is done with.
ReturnNew(next) ==
    /\ toRender' = hubNew
    /\ hubFb' = hubNew
    /\ hubNew' = NoBuffer
    /\ hubPc' = next
    /\ UNCHANGED <<toHub, ink, renderVars>>

\* Mutant: the old buffer is sent back and the panel is still driven from it.
ReturnWithoutSwitch(next) ==
    /\ toRender' = hubFb
    /\ hubNew' = NoBuffer
    /\ hubPc' = next
    /\ UNCHANGED <<toHub, hubFb, ink, renderVars>>

\* tx.signal(fb); fb = new_fb
ReturnShown(next) ==
    /\ toRender' = hubFb
    /\ hubFb' = hubNew
    /\ hubNew' = NoBuffer
    /\ hubPc' = next
    /\ UNCHANGED <<toHub, ink, renderVars>>

HubFirstReturn == hubPc = "firstReturn" /\ ReturnShown("check")

\* Mutant: a frame on offer is not looked at, the panel keeps its buffer.
HubSkipsOffer ==
    /\ hubPc = "check"
    /\ hubPc' = "start"
    /\ UNCHANGED <<toRender, toHub, hubFb, hubNew, ink, renderVars>>

\* if rx.signaled() at the top of the loop.
HubCheck ==
    /\ hubPc = "check"
    /\ \/ TakeOffered("return")
       \/ /\ toHub = NoBuffer
          /\ hubPc' = "start"
          /\ UNCHANGED <<toRender, toHub, hubFb, hubNew, ink, renderVars>>

HubReturn == hubPc = "return" /\ ReturnShown("start")

\* hub75.render(fb): the transfer starts, or fails and the frame is skipped.
HubStart ==
    /\ hubPc = "start"
    /\ hubPc' \in {"scan", "check"}
    /\ UNCHANGED <<toRender, toHub, hubFb, hubNew, ink, renderVars>>

\* wait_for_done(): the transfer is over, with or without an error.
HubScanned ==
    /\ hubPc = "scan"
    /\ hubPc' = "check"
    /\ UNCHANGED <<toRender, toHub, hubFb, hubNew, ink, renderVars>>

-----------------------------------------------------------------------------
Render == RenderErase \/ RenderDraw \/ RenderOffer \/ RenderTake
Hub == HubFirstTake \/ HubFirstReturn \/ HubCheck \/ HubReturn \/ HubStart \/ HubScanned

Next == Render \/ Hub

Spec == Init /\ [][Next]_vars

\* Between its frames render_task may sleep for ever; once a frame is drawn, the offer
\* follows without an await. hub75_task never sleeps after the handshake.
FairSpec == Spec /\ WF_vars(RenderOffer) /\ WF_vars(Hub)

-----------------------------------------------------------------------------
(* Properties *)

\* Who can reach a buffer: a task's local, or a slot on its way between them.
Holders == [renderFb |-> renderFb, toHub |-> toHub, hubNew |-> hubNew,
            hubFb |-> hubFb, toRender |-> toRender]

\* Each of the two exclusive references lives in exactly one place: the exchange neither
\* overwrites a slot that is still full nor duplicates a buffer (display/mod.rs 186-197, 258-259).
OneOwner ==
    \A b \in Buffers : \E h \in DOMAIN Holders :
        \A g \in DOMAIN Holders : Holders[g] = b <=> g = h

\* While a transfer runs, the buffer behind it holds one whole frame, and render_task has no
\* way to it (display/mod.rs 202-210 against 256-257).
PanelSeesWholeFrames ==
    hubPc = "scan" => /\ ink[hubFb] # Torn
                      /\ renderFb # hubFb

\* The exchange implements the pipe: frames reach the panel one by one and in order, none is
\* skipped, and, under FairSpec, each completed frame does reach it.
ImplementsPipe == Pipe!PipeFairSpec
=============================================================================
