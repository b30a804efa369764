------------------------------- MODULE MC_Panel -------------------------------
EXTENDS Panel
=============================================================================
