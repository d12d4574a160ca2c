------------------------------- MODULE MCHarq --------------------------------
EXTENDS Harq
=============================================================================
