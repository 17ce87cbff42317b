---------------------------- MODULE MCDaemonGraph ----------------------------
(* Instances of DaemonGraph for TLC.                                        *)
EXTENDS DaemonGraph, TLC

MCSymmetry == Permutations(Clients)
=============================================================================
