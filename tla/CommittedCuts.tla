---------------------------- MODULE CommittedCuts ----------------------------
(***************************************************************************)
(* What a Path B job promises of its two tables, with no word of           *)
(* checkpoints, writers, committers or failures.                           *)
(*                                                                         *)
(* The changelog shows one cut of the topic at a time: a new snapshot      *)
(* moves it to a later cut and gains exactly the records in between.       *)
(*                                                                         *)
(* A row of the current table shows its key up to some offset of the       *)
(* topic, and a new snapshot moves rows to later offsets: each is then     *)
(* the last change of its key up to there.  A plain job moves all rows to  *)
(* one cut of the topic.  A job that replays with the coalescer moves each *)
(* row on its own, past versions no snapshot shows, so its snapshots are   *)
(* not cuts of the topic: one row may be of an older moment than another.  *)
(*                                                                         *)
(* The two tables need not show the same cut.  Only a new submission       *)
(* starts again from the beginning: a plain one over the tables as they    *)
(* are, a replaying one over empty ones.                                   *)
(***************************************************************************)
EXTENDS OrdersTopic

VARIABLES topic, changelog, current, shownLog, shownCur, run, replaying

submission == <<run, replaying>>
vars == <<topic, changelog, current, shownLog, shownCur, submission>>

Init ==
  /\ topic = [p \in Partition |-> <<>>]
  /\ changelog = <<>> /\ current = EmptyTable
  /\ shownLog = Start /\ shownCur = KeyStart
  /\ run = 1 /\ replaying = FALSE

Grow ==
  /\ \E record \in Record :
       topic' = [topic EXCEPT ![PartitionOf[record.key]] = Append(@, record)]
  /\ UNCHANGED <<changelog, current, shownLog, shownCur, submission>>

AppendChanges(cut) ==
  LET rows == Slice(topic, shownLog, cut) IN
  /\ shownLog' = cut
  /\ Within(shownLog, cut) /\ Within(cut, Ends(topic))
  /\ changelog' = IF rows = {} THEN changelog
                  ELSE Append(changelog, [run |-> run, rows |-> rows])
  /\ UNCHANGED <<topic, current, shownCur, submission>>

\* The rows move to the offsets upTo, of one cut unless the job coalesces.
UpsertRows(upTo) ==
  /\ shownCur' = upTo
  /\ KeysWithin(shownCur, upTo) /\ KeysWithin(upTo, ForKeys(Ends(topic)))
  /\ replaying \/ \E cut \in Position : upTo = ForKeys(cut)
  /\ \E batch \in Batch :
       /\ \A k \in Key : Says(topic, k, shownCur[k], upTo[k], batch[k])
       /\ current' = Overlay(current, batch)
  /\ UNCHANGED <<topic, changelog, shownLog, submission>>

StartOver ==
  /\ run' = run + 1
  /\ shownLog' = Start /\ shownCur' = KeyStart
  /\ \/ replaying' = FALSE /\ UNCHANGED <<changelog, current>>
     \/ replaying' = TRUE /\ changelog' = <<>> /\ current' = EmptyTable
  /\ UNCHANGED topic

Next ==
  \/ Grow
  \/ \E cut \in Position : AppendChanges(cut)
  \/ \E upTo \in KeyPosition : UpsertRows(upTo)
  \/ StartOver

Spec == Init /\ [][Next]_vars
=============================================================================
