---------------------------- MODULE MCServiceRpc ----------------------------
(* ServiceRpc for TLC.                                                     *)
EXTENDS ServiceRpc, TLC

ClientSymmetry == Permutations(Clients)
=============================================================================
