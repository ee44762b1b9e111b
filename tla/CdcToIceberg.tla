---------------------------- MODULE CdcToIceberg ----------------------------
(***************************************************************************)
(* The Path A Flink job: embedded MySQL CDC into the two Iceberg tables,   *)
(* and the two one-shot faults the drills arm in it.                       *)
(*                                                                         *)
(* Unlike Path B, the current-table projection runs at the default         *)
(* parallelism: the single source channel is dealt round-robin over the    *)
(* projection subtasks before keyed routing, so a writer merges several    *)
(* channels and aligns the checkpoint barriers that arrive on them.        *)
(*                                                                         *)
(* A change is identified by its position in the binlog, a row version by  *)
(* the change that wrote it, 0 being no row.  All keys of an instance hash *)
(* to one writer.  The changelog needs no alignment: each of its writers   *)
(* has one input channel and order does not matter in the table, so a      *)
(* change is in its writer as soon as it is emitted.                       *)
(***************************************************************************)
EXTENDS Naturals, Sequences, FiniteSets

CONSTANTS
  Key,              \* order ids
  Parallelism,      \* default parallelism: projection subtasks
  RestartAttempts,  \* fixedDelayRestart attempts
  Paced,            \* the drills' discipline, see Write
  MaxChanges,       \* bound: changes in the binlog
  Nothing,          \* no checkpoint, or none aligned yet
  Untouched,        \* a batch says nothing of this key
  Barrier           \* the checkpoint barrier in a channel

ASSUME ParallelismAssumption == Parallelism \in Nat \ {0}
ASSUME BoundsAssumption ==
  /\ RestartAttempts \in Nat /\ MaxChanges \in Nat
  /\ Paced \in BOOLEAN

VARIABLES
  armed,      \* event ids the two fault maps are configured with, 0: none
  struck,     \* fault maps whose marker file exists
  observed,   \* CheckpointCompleteFaultOnceMap.triggerObserved
  binlog,     \* sequence of changes
  pos,        \* changes the source has emitted
  turn,       \* next channel of the round-robin partitioner
  channel,    \* projection subtask -> records and barriers in order
  blocked,    \* channels whose barrier the writer has taken
  curBuf,     \* upsert writer: last row per key since the barrier
  logBuf,     \* changelog writers: changes since the barrier
  logPend,    \* changelog committer: flushed, not in the table
  curPend,    \* upsert committer: the same
  epoch, ongoing, done, \* checkpoints: last id, in progress, completed
  notify,     \* listeners not yet told that done is complete
  status, attempts,
  changelog,  \* snapshots: sets of changes
  current,    \* rows of orders_current
  maxId       \* sink -> greatest checkpoint id in its table's summary

drill == <<armed, struck>>
stream == <<pos, turn, channel, blocked, curBuf, logBuf>>
committers == <<logPend, curPend>>
checkpoints == <<epoch, ongoing, done>>
job == <<status, attempts>>
tables == <<changelog, current, maxId>>
vars == <<drill, observed, binlog, stream, committers, checkpoints, notify,
          job, tables>>

Change == 1 .. MaxChanges
Row == 0 .. MaxChanges
Channel == 0 .. Parallelism - 1
Sink == {"changelog", "current"}
FaultMap == {"crash", "fault"}
Batch == [Key -> Row \cup {Untouched}]
EmptyBatch == [k \in Key |-> Untouched]
Item == [key : Key, row : Row] \cup {Barrier}
Checkpoint == [id : Nat, pos : Row, log : SUBSET Change, cur : Batch \cup {Nothing}]

\* The three markers are no row, no batch or checkpoint, and no record.
ASSUME MarkersAssumption ==
  /\ Untouched \notin Row
  /\ Nothing \notin Batch \cup Checkpoint
  /\ Barrier \notin [key : Key, row : Row]

NoCheckpoint == [id |-> 0, pos |-> 0, log |-> {}, cur |-> EmptyBatch]

\* A drill arms one of the two maps.
Armings == {[m \in FaultMap |-> IF m = f THEN e ELSE 0] : f \in FaultMap, e \in Change}

TypeOK ==
  /\ armed \in Armings /\ struck \subseteq FaultMap /\ observed \in BOOLEAN
  /\ binlog \in Seq([key : Key, before : Row, after : Row])
  /\ pos \in 0 .. Len(binlog)
  /\ turn \in Channel
  /\ channel \in [Channel -> Seq(Item)]
  /\ blocked \subseteq Channel
  /\ curBuf \in Batch /\ curPend \in Batch
  /\ logBuf \subseteq Change /\ logPend \subseteq Change
  /\ epoch \in Nat
  /\ ongoing \in Checkpoint \cup {Nothing} /\ done \in Checkpoint
  /\ notify \subseteq Sink \cup {"fault"}
  /\ status \in {"RUNNING", "RESTARTING", "FAILED"}
  /\ attempts \in 0 .. RestartAttempts
  /\ changelog \in Seq(SUBSET Change)
  /\ current \in [Key -> Row]
  /\ maxId \in [Sink -> Nat]

-----------------------------------------------------------------------------
(* The source table. *)

\* The row of key k after the first n changes.
RowAfter(n, k) ==
  LET writes == {i \in 1 .. n : binlog[i].key = k} IN
  IF writes = {} THEN 0
  ELSE binlog[CHOOSE i \in writes : \A j \in writes : j <= i].after

SourceRow(k) == RowAfter(Len(binlog), k)

\* Event ids in the records of a change: an update is a before image, with
\* the event id of the row it replaces, and an after image.
Carries(change) == {change.before, change.after} \ {0}
RecordsOf(change) == IF change.before # 0 /\ change.after # 0 THEN 2 ELSE 1

\* An insert, update or delete is committed to MySQL.  The drills change a row
\* again only after the current table shows its last version.
Write(k, after) ==
  /\ Len(binlog) < MaxChanges
  /\ after # SourceRow(k)
  /\ Paced => current[k] = SourceRow(k)
  /\ binlog' = Append(binlog, [key |-> k, before |-> SourceRow(k), after |-> after])
  /\ UNCHANGED <<drill, observed, stream, committers, checkpoints, notify, job,
                 tables>>

-----------------------------------------------------------------------------
(* Failure and restart. *)

\* The tasks stop; with them everything in memory and the triggerObserved
\* flag.  The marker files stay.
Fail ==
  /\ IF attempts < RestartAttempts
     THEN status' = "RESTARTING" /\ attempts' = attempts + 1
     ELSE status' = "FAILED" /\ UNCHANGED attempts
  /\ observed' = FALSE
  /\ channel' = [c \in Channel |-> <<>>] /\ blocked' = {}
  /\ curBuf' = EmptyBatch /\ logBuf' = {}
  /\ logPend' = {} /\ curPend' = EmptyBatch
  /\ ongoing' = Nothing /\ notify' = {}

Overlay(base, batch) ==
  [k \in Key |-> IF batch[k] = Untouched THEN base[k] ELSE batch[k]]

\* Does a table's summary lack checkpoint done?  A committer that did not ask
\* would publish its files on every restore.
MissingAlways(s) == TRUE
Missing(s) == done.id > maxId[s]

\* A restored source reads on behind the checkpoint, not from where the binlog
\* has got to.
RestartAtLatest == Len(binlog)
RestartPosition == done.pos

\* A table's summary after a commit: an empty one leaves no snapshot.
Summary(s, files) == IF files THEN done.id ELSE maxId[s]

\* Restart from the last completed checkpoint; the restored committers publish
\* its files unless the summary has it.  The partitioner starts anywhere.
Restart ==
  /\ status = "RESTARTING"
  /\ status' = "RUNNING"
  /\ pos' = RestartPosition
  /\ turn' \in Channel
  /\ changelog' = IF Missing("changelog") /\ done.log # {}
                  THEN Append(changelog, done.log) ELSE changelog
  /\ current' = IF Missing("current") THEN Overlay(current, done.cur) ELSE current
  /\ maxId' = [changelog |-> Summary("changelog", done.log # {}),
               current |-> Summary("current", done.cur # EmptyBatch)]
  /\ UNCHANGED <<drill, observed, binlog, channel, blocked, curBuf, logBuf,
                 committers, checkpoints, notify, attempts>>

-----------------------------------------------------------------------------
(* The stream. *)

\* A one-shot map strikes unless its marker file exists; the marker outlives
\* the task.  A flag in the task would not; the test inverted never strikes.
StrikesEveryTime(m) == TRUE
StrikesMarked(m) == m \in struck
StrikesFirst(m) == m \notin struck

\* The next change reaches TaskCrashOnceMap and is the armed one.
TaskCrash ==
  /\ status = "RUNNING" /\ pos < Len(binlog)
  /\ armed["crash"] \in Carries(binlog[pos + 1]) /\ StrikesFirst("crash")
  /\ struck' = struck \cup {"crash"}
  /\ Fail
  /\ UNCHANGED <<armed, binlog, pos, turn, epoch, done, tables>>

\* The channel dealt to n records after channel c.
DealtWithoutWrapping(c, n) == c + n
Dealt(c, n) == (c + n) % Parallelism

\* The source emits a change through the two fault maps.  Each of its records
\* takes one turn of the partitioner; a before image is dropped behind it.
Emit ==
  LET change == binlog[pos + 1]
      last == Dealt(turn, RecordsOf(change) - 1)
  IN
  /\ status = "RUNNING" /\ pos < Len(binlog)
  /\ ~(armed["crash"] \in Carries(change) /\ StrikesFirst("crash"))
  /\ pos' = pos + 1
  /\ turn' = Dealt(last, 1)
  /\ channel' = [channel EXCEPT ![last] =
                   Append(@, [key |-> change.key, row |-> change.after])]
  /\ logBuf' = logBuf \cup {pos + 1}
  /\ observed' = (observed \/ armed["fault"] \in Carries(change))
  /\ UNCHANGED <<drill, binlog, blocked, curBuf, committers, checkpoints,
                 notify, job, tables>>

\* Not a bound of the code, which checkpoints on a timer: a checkpoint that
\* would change nothing is left out.
CheckpointDue == pos # done.pos \/ logPend # {} \/ curPend # EmptyBatch

\* The source sends a barrier down every channel.  A reduction: no barrier
\* overtakes a callback of the checkpoint before it.  The coordinator sends both
\* to a task over one channel, the callback first, and pauses between them.
Trigger ==
  /\ status = "RUNNING" /\ ongoing = Nothing /\ notify = {}
  /\ CheckpointDue
  /\ epoch' = epoch + 1
  /\ ongoing' = [id |-> epoch + 1, pos |-> pos, log |-> logPend \cup logBuf,
                 cur |-> Nothing]
  /\ logPend' = logPend \cup logBuf /\ logBuf' = {}
  /\ channel' = [c \in Channel |-> Append(channel[c], Barrier)]
  /\ UNCHANGED <<drill, observed, binlog, pos, turn, blocked, curBuf, curPend,
                 done, notify, job, tables>>

\* EXACTLY_ONCE: a channel whose barrier has arrived waits for the others.
\* AT_LEAST_ONCE would keep reading it.
ReadsOn(c) == TRUE
ReadsUntilBarrier(c) == c \notin blocked

\* The writer takes a row.
WriteRow(c) ==
  /\ status = "RUNNING" /\ ReadsUntilBarrier(c)
  /\ channel[c] # <<>> /\ Head(channel[c]) # Barrier
  /\ curBuf' = [curBuf EXCEPT ![Head(channel[c]).key] = Head(channel[c]).row]
  /\ channel' = [channel EXCEPT ![c] = Tail(@)]
  /\ UNCHANGED <<drill, observed, binlog, pos, turn, blocked, logBuf, committers,
                 checkpoints, notify, job, tables>>

\* The writer takes a barrier; with the last one it flushes to the committer.
TakeBarrier(c) ==
  LET cur == Overlay(curPend, curBuf) IN
  /\ status = "RUNNING"
  /\ channel[c] # <<>> /\ Head(channel[c]) = Barrier
  /\ channel' = [channel EXCEPT ![c] = Tail(@)]
  /\ IF blocked \cup {c} = Channel
     THEN /\ blocked' = {}
          /\ curPend' = cur /\ curBuf' = EmptyBatch
          /\ ongoing' = [ongoing EXCEPT !.cur = cur]
     ELSE /\ blocked' = blocked \cup {c}
          /\ UNCHANGED <<curPend, curBuf, ongoing>>
  /\ UNCHANGED <<drill, observed, binlog, pos, turn, logBuf, logPend, epoch,
                 done, notify, job, tables>>

CompleteCheckpoint ==
  /\ status = "RUNNING" /\ ongoing # Nothing /\ ongoing.cur # Nothing
  /\ done' = ongoing /\ ongoing' = Nothing
  /\ notify' = Sink \cup {"fault"}
  /\ UNCHANGED <<drill, observed, binlog, stream, committers, epoch, job, tables>>

-----------------------------------------------------------------------------
(* notifyCheckpointComplete, in any order. *)

\* CheckpointCompleteFaultOnceMap throws at the first completed checkpoint
\* after it saw the armed event, whether or not the checkpoint covers it.
FaultStrikes == observed /\ StrikesFirst("fault")

CommitFault ==
  /\ "fault" \in notify /\ FaultStrikes
  /\ struck' = struck \cup {"fault"}
  /\ Fail
  /\ UNCHANGED <<armed, binlog, pos, turn, epoch, done, tables>>

NoFault ==
  /\ "fault" \in notify /\ ~FaultStrikes
  /\ notify' = notify \ {"fault"}
  /\ UNCHANGED <<drill, observed, binlog, stream, committers, checkpoints, job,
                 tables>>

CommitChangelog ==
  /\ "changelog" \in notify
  /\ changelog' = IF logPend = {} THEN changelog ELSE Append(changelog, logPend)
  /\ maxId' = [maxId EXCEPT !["changelog"] = Summary("changelog", logPend # {})]
  /\ logPend' = {} /\ notify' = notify \ {"changelog"}
  /\ UNCHANGED <<drill, observed, binlog, stream, curPend, checkpoints, job,
                 current>>

CommitCurrent ==
  /\ "current" \in notify
  /\ current' = Overlay(current, curPend)
  /\ maxId' = [maxId EXCEPT !["current"] = Summary("current", curPend # EmptyBatch)]
  /\ curPend' = EmptyBatch /\ notify' = notify \ {"current"}
  /\ UNCHANGED <<drill, observed, binlog, stream, logPend, checkpoints, job,
                 changelog>>

-----------------------------------------------------------------------------

Init ==
  /\ armed \in Armings /\ struck = {} /\ observed = FALSE
  /\ binlog = <<>> /\ pos = 0 /\ turn \in Channel
  /\ channel = [c \in Channel |-> <<>>] /\ blocked = {}
  /\ curBuf = EmptyBatch /\ logBuf = {}
  /\ logPend = {} /\ curPend = EmptyBatch
  /\ epoch = 0 /\ ongoing = Nothing /\ done = NoCheckpoint
  /\ notify = {}
  /\ status = "RUNNING" /\ attempts = 0
  /\ changelog = <<>> /\ current = [k \in Key |-> 0]
  /\ maxId = [s \in Sink |-> 0]

JobStep ==
  \/ Emit \/ TaskCrash \/ Restart
  \/ Trigger \/ CompleteCheckpoint
  \/ \E c \in Channel : WriteRow(c) \/ TakeBarrier(c)
  \/ CommitFault \/ NoFault \/ CommitChangelog \/ CommitCurrent

Next ==
  \/ \E k \in Key, after \in {0, Len(binlog) + 1} : Write(k, after)
  \/ JobStep

Spec == Init /\ [][Next]_vars

\* The Flink runtime schedules every enabled step; nothing is assumed of the
\* writers to MySQL.
FairSpec == Spec /\ WF_vars(JobStep)

-----------------------------------------------------------------------------

Source == INSTANCE SourceCuts WITH log <- binlog, table <- current

\* The changelog is a gap-free prefix of the changes, none of them twice, and
\* the current table the source table as of some change, never an earlier one
\* than before, wherever the injected failure struck between barrier, completion
\* and the two commits, and whatever a restored committer found in its state.
ImplementsSourceCuts == Source!Spec

\* The cut of a completed checkpoint is the same in both sinks, though their
\* channels carry the barrier separately: what the upsert writer flushed and
\* what its table has is the source as of the position the source stored.
AlignedCut ==
  status = "RUNNING" /\ Missing("current") =>
    \A k \in Key : Overlay(current, done.cur)[k] = RowAfter(done.pos, k)

\* Everything emitted, written and committed.
Quiet ==
  /\ status = "RUNNING" /\ pos = Len(binlog) /\ done.pos = pos
  /\ \A c \in Channel : channel[c] = <<>>
  /\ curBuf = EmptyBatch /\ ongoing = Nothing /\ notify = {}

\* The claim of the Path A drills: once the job is quiet, the current table
\* equals the source table row by row.
CurrentMatchesSource == Quiet => \A k \in Key : current[k] = SourceRow(k)

\* An armed fault strikes once: replaying the armed event after the restart
\* does not use up the restart attempts.
StrikesOnce == attempts <= Cardinality(struck)

\* The drill waits for the marker of the fault it armed.
FaultFires ==
  \A e \in Change :
    (armed["fault"] = e /\ \E i \in DOMAIN binlog : binlog[i].after = e)
      ~> ("fault" \in struck)
=============================================================================
