------------------------------ MODULE MCRlcAm -------------------------------
EXTENDS RlcAmInv
=============================================================================
