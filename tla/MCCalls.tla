------------------------------- MODULE MCCalls -------------------------------
EXTENDS Calls, TLC
CONSTANTS ue1, ue2, host
MCFirstId == (ue1 :> 1) @@ (ue2 :> 1) @@ (host :> 11)
MCSymmetry == Permutations({ue1, ue2})
=============================================================================
