------------------------------- MODULE MCHost -------------------------------
EXTENDS HostRefinement
=============================================================================
