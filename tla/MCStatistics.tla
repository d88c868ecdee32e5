---------------------------- MODULE MCStatistics ----------------------------
(* Instances of Statistics for TLC. *)
EXTENDS Statistics, TLC

ClientSymmetry == Permutations(Clients)
=============================================================================
