----------------------------- MODULE MCTimerList -----------------------------
EXTENDS TimerList
=============================================================================
