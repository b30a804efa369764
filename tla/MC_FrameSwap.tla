----------------------------- MODULE MC_FrameSwap -----------------------------
EXTENDS FrameSwap
=============================================================================
