------------------------------ MODULE SourceCuts ------------------------------
(***************************************************************************)
(* What a Path A job promises of its two tables over the source's binlog,  *)
(* with no word of channels, barriers, checkpoints or failures.            *)
(*                                                                         *)
(* Each snapshot added to the changelog holds exactly the changes that     *)
(* follow the ones it has, and the current table is the source table as of *)
(* some change and moves only to later ones.  The two need not show the    *)
(* same cut, but a recovery may move both at once.                         *)
(***************************************************************************)
EXTENDS Naturals, Sequences

CONSTANT Key    \* primary keys

VARIABLES
  log,        \* changes: key, and the row versions before and after, 0: none
  changelog,  \* snapshots: sets of positions in log
  table       \* key -> version

vars == <<log, changelog, table>>

\* The source table after the first n changes.
Cut(n) ==
  [k \in Key |->
     LET writes == {i \in 1 .. n : log[i].key = k} IN
     IF writes = {} THEN 0
     ELSE log[CHOOSE i \in writes : \A j \in writes : j <= i].after]

Published == UNION {changelog[i] : i \in DOMAIN changelog}

Init == log = <<>> /\ changelog = <<>> /\ table = [k \in Key |-> 0]

Grow ==
  /\ \E k \in Key, after \in {0, Len(log) + 1} :
       /\ after # 0 \/ Cut(Len(log))[k] # 0
       /\ log' = Append(log, [key |-> k, before |-> Cut(Len(log))[k], after |-> after])
  /\ UNCHANGED <<changelog, table>>

Commit ==
  /\ \/ UNCHANGED changelog
     \/ \E m \in 0 .. Len(log) : \E n \in m + 1 .. Len(log) :
          Published = 1 .. m /\ changelog' = Append(changelog, m + 1 .. n)
  /\ \E n \in 0 .. Len(log) : \E m \in 0 .. n : table = Cut(m) /\ table' = Cut(n)
  /\ UNCHANGED log

Next == Grow \/ Commit

Spec == Init /\ [][Next]_vars
=============================================================================
