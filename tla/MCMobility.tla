------------------------------ MODULE MCMobility -----------------------------
(* Two UEs and two cells, in each of the three deployments. *)
EXTENDS Mobility

Interchangeable == Permutations(Ue)
=============================================================================
