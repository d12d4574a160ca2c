------------------------------- MODULE MCRlcUm -------------------------------
EXTENDS RlcUm
=============================================================================
