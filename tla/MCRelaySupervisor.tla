-------------------------- MODULE MCRelaySupervisor --------------------------
(* Small instances of RelaySupervisor for TLC. *)
EXTENDS RelaySupervisor, TLC

CONSTANTS w1, w2

WorkerSymmetry == Permutations(Workers)
=============================================================================
