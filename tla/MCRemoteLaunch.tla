---------------------------- MODULE MCRemoteLaunch ----------------------------
(* Small instances of RemoteLaunch for TLC. *)
EXTENDS RemoteLaunch

CONSTANTS l1, l2, a, b

\* Two revisions, one of them also with --fresh.
Requests == {[revision |-> a, fresh |-> FALSE], [revision |-> b, fresh |-> FALSE],
             [revision |-> b, fresh |-> TRUE]}
=============================================================================
