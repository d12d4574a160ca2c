----------------------------- MODULE MCUserPlane -----------------------------
EXTENDS UserPlane
=============================================================================
