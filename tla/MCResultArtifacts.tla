------------------------- MODULE MCResultArtifacts -------------------------
(* Small instances of ResultArtifacts for TLC. *)
EXTENDS ResultArtifacts

CONSTANTS restart, eo

\* broker_restart_drill.json, eo_reconciliation.json
ByName == <<restart, eo>>

\* The drill twice: the second run meets what the first one left.
TwoThenOne == [a \in {restart, eo} |-> IF a = restart THEN 2 ELSE 1]
=============================================================================
