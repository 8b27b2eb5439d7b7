---------------------------- MODULE MCSlamThreads ----------------------------
(* Instances of SlamThreads for TLC.                                        *)
EXTENDS SlamThreads, TLC

WorkerSymmetry == Permutations(Workers)
=============================================================================
