-------------------------- MODULE MCReplayCoalescer --------------------------
(* A small instance of ReplayCoalescer for TLC. *)
EXTENDS ReplayCoalescer

CONSTANTS k1, k2
=============================================================================
