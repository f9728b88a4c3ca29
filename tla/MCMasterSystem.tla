---------------------------- MODULE MCMasterSystem ----------------------------
(* Instances of MasterSystem for TLC. *)
EXTENDS MasterSystem, TLC

CONSTANTS upper, lower, A, B

\* The two conveyors are alike for the state machine, and so are the stations.
MasterSymmetry == Permutations(Conveyors) \cup Permutations(Stations)
=============================================================================
