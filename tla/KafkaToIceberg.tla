--------------------------- MODULE KafkaToIceberg ---------------------------
(***************************************************************************)
(* The Path B Flink job: one ordered source channel decodes the topic and  *)
(* feeds two Iceberg sinks (orders_current as keyed upserts,               *)
(* orders_changelog as an append-only table) and an at-least-once          *)
(* dead-letter sink.  Checkpoints cut the stream; each sink's committer    *)
(* publishes the files of a checkpoint only after it completed, the source *)
(* commits its group offsets on the same callback, and a failure restores  *)
(* the last completed checkpoint.                                          *)
(*                                                                         *)
(* A job that replays the topic is submitted with a coalescer before the   *)
(* upsert writer: it keeps the last change of a key back until the key has *)
(* been quiet for a while.  ReplayCoalescer models its timers; here a      *)
(* change that is held back may be let through at any moment.              *)
(*                                                                         *)
(* Two reductions.  Every channel from the source to a writer is FIFO per  *)
(* key and barriers are aligned, so a record reaches its writer (or the    *)
(* coalescer) in the step that polls it, and the barrier takes one atomic  *)
(* cut; CdcToIceberg models the job where that is not available.  And a    *)
(* barrier does not overtake the callbacks of the checkpoint before it:    *)
(* the coordinator sends both to a task over one channel, in this order    *)
(* and at least the minimum pause of a second apart.                       *)
(***************************************************************************)
EXTENDS OrdersTopic, FiniteSets

CONSTANTS
  RestartAttempts,  \* fixedDelayRestart attempts (3 in the code)
  LossyCheckpoints, \* bound: only these callbacks may get lost
  MaxRuns,          \* bound: submissions of the job
  Nothing           \* no checkpoint in progress

ASSUME BoundsAssumption ==
  /\ RestartAttempts \in Nat
  /\ LossyCheckpoints \in Nat
  /\ MaxRuns \in Nat \ {0}

VARIABLES
  topic,      \* partition -> sequence of records
  status,     \* of the Flink job
  attempts,   \* restarts used so far
  run,        \* number of this submission
  replaying,  \* was it submitted with the coalescer
  pos,        \* source position
  logBuf,     \* changelog writer: slots written since the last barrier
  held,       \* coalescer: the pending change of each key
  curBuf,     \* upsert writer: last row per key since the last barrier
  dlqBuf,     \* dead letters handed to the producer, not acknowledged
  logPend,    \* changelog committer: flushed files not in the table yet
  curPend,    \* upsert committer: the same
  epoch,      \* id of the last triggered checkpoint
  ongoing,    \* triggered checkpoint not complete yet
  done,       \* last completed checkpoint, the restore point
  notify,     \* listeners not yet told that done is complete
  recovering, \* sinks still in their restore callback
  group,      \* committed consumer-group offsets
  changelog,  \* snapshots of orders_changelog
  current,    \* rows of orders_current
  maxId,      \* sink -> greatest checkpoint id in its table's summary
  dlq,        \* dead-letter topic
  through,    \* key -> offset up to which its changes passed the coalescer
  shownLog,   \* position the changelog shows
  shownCur    \* key -> offset its row of the current table shows
              \* (the last three are history variables)

coalescer == <<held, through>>
writers == <<logBuf, curBuf, dlqBuf>>
committers == <<logPend, curPend>>
checkpoints == <<epoch, ongoing, done>>
tables == <<changelog, current, maxId, shownLog, shownCur>>
job == <<status, attempts, run, replaying>>
vars == <<topic, job, pos, coalescer, writers, committers, checkpoints, notify,
          recovering, group, tables, dlq>>

Sink == {"changelog", "current"}
Listener == Sink \cup {"source"}

Checkpoint(id, position, log, cur, pending, upTo) ==
  [id |-> id, pos |-> position, log |-> log, cur |-> cur, held |-> pending,
   through |-> upTo]
Checkpoints == [id : Nat, pos : Position, log : SUBSET Slot, cur : Batch,
                held : Batch, through : KeyPosition]
NoCheckpoint == Checkpoint(0, Start, {}, EmptyBatch, EmptyBatch, KeyStart)

ASSUME NothingAssumption == Nothing \notin Checkpoints

TypeOK ==
  /\ topic \in [Partition -> Seq(Record)]
  /\ \A p \in Partition : Len(topic[p]) <= MaxRecords
  /\ status \in {"RUNNING", "RESTARTING", "FAILED", "CANCELED"}
  /\ attempts \in 0 .. RestartAttempts
  /\ run \in 1 .. MaxRuns /\ replaying \in BOOLEAN
  /\ pos \in Position
  /\ held \in Batch /\ through \in KeyPosition
  /\ logBuf \subseteq Slot /\ logPend \subseteq Slot
  /\ curBuf \in Batch /\ curPend \in Batch
  /\ dlqBuf \subseteq Slot
  /\ epoch \in Nat
  /\ ongoing \in Checkpoints \cup {Nothing}
  /\ done \in Checkpoints
  /\ notify \subseteq Listener
  /\ recovering \subseteq Sink
  /\ group \in Position
  /\ changelog \in Seq([run : Nat, rows : SUBSET Slot])
  /\ current \in Table
  /\ maxId \in [Sink -> Nat]
  /\ shownLog \in Position /\ shownCur \in KeyPosition
  /\ dlq \in Seq(Slot)

-----------------------------------------------------------------------------

Init ==
  /\ topic = [p \in Partition |-> <<>>]
  /\ status = "RUNNING" /\ attempts = 0 /\ run = 1
  /\ replaying = FALSE
  /\ pos = Start /\ held = EmptyBatch /\ through = KeyStart
  /\ logBuf = {} /\ curBuf = EmptyBatch /\ dlqBuf = {}
  /\ logPend = {} /\ curPend = EmptyBatch
  /\ epoch = 0 /\ ongoing = Nothing /\ done = NoCheckpoint
  /\ notify = {} /\ recovering = {}
  /\ group = Start
  /\ changelog = <<>> /\ current = EmptyTable /\ dlq = <<>>
  /\ maxId = [s \in Sink |-> 0]
  /\ shownLog = Start /\ shownCur = KeyStart

\* A producer (Debezium, redelivering or not, or a repair) appends a record.
Produce(record) ==
  LET p == PartitionOf[record.key] IN
  /\ Len(topic[p]) < MaxRecords
  /\ topic' = [topic EXCEPT ![p] = Append(@, record)]
  /\ UNCHANGED <<job, pos, coalescer, writers, committers, checkpoints,
                 notify, recovering, group, tables, dlq>>

\* How far each key's changes are with the writer: as far as the source has
\* read, or where they were when the pending change was first held back.
LetThrough(pending) ==
  [k \in Key |-> IF pending[k] = Untouched THEN pos'[PartitionOf[k]] ELSE through[k]]

\* The source polls one record, decodes it and routes what comes out: to the
\* changelog writer, to the coalescer or the upsert writer, to the dead letters.
Poll(p) ==
  LET slot == <<p, pos[p] + 1>>
      record == topic[p][pos[p] + 1]
  IN
  /\ status = "RUNNING" /\ recovering = {}
  /\ pos[p] < Len(topic[p])
  /\ pos' = [pos EXCEPT ![p] = @ + 1]
  /\ logBuf' = IF IsLogged(record) THEN logBuf \cup {slot} ELSE logBuf
  /\ dlqBuf' = IF IsQuarantined(record) THEN dlqBuf \cup {slot} ELSE dlqBuf
  /\ \/ /\ ~IsDecoded(record)
        /\ UNCHANGED <<held, curBuf>>
     \/ /\ IsDecoded(record) /\ replaying
        /\ held' = [held EXCEPT ![record.key] = record.payload]
        /\ UNCHANGED curBuf
     \/ /\ IsDecoded(record) /\ ~replaying
        /\ curBuf' = [curBuf EXCEPT ![record.key] = record.payload]
        /\ UNCHANGED held
  /\ through' = LetThrough(held')
  /\ UNCHANGED <<topic, job, committers, checkpoints, notify, recovering,
                 group, tables, dlq>>

\* The key's timer fires: the coalescer emits the change it holds.
OnTimer(k) ==
  /\ status = "RUNNING" /\ recovering = {}
  /\ held[k] # Untouched
  /\ curBuf' = [curBuf EXCEPT ![k] = held[k]]
  /\ held' = [held EXCEPT ![k] = Untouched]
  /\ through' = [through EXCEPT ![k] = pos[PartitionOf[k]]]
  /\ UNCHANGED <<topic, job, pos, logBuf, dlqBuf, committers, checkpoints,
                 notify, recovering, group, tables, dlq>>

\* The dead-letter producer gets one record acknowledged.
SendDeadLetter(slot) ==
  /\ status = "RUNNING"
  /\ slot \in dlqBuf
  /\ dlqBuf' = dlqBuf \ {slot}
  /\ dlq' = Append(dlq, slot)
  /\ UNCHANGED <<topic, job, pos, coalescer, logBuf, curBuf, committers,
                 checkpoints, notify, recovering, group, tables>>

-----------------------------------------------------------------------------

\* Not a bound of the code, which checkpoints on a timer: a checkpoint that
\* would change nothing is left out, so that the ids stay finite.
CheckpointDue ==
  \/ pos # done.pos \/ curBuf # EmptyBatch
  \/ logPend # {} \/ curPend # EmptyBatch
  \/ group # done.pos /\ "source" \notin notify

\* A barrier passes the dead-letter producer only with nothing in flight; a
\* producer without a delivery guarantee would let it pass.
DeadLettersUnflushed == TRUE
DeadLettersFlushed == dlqBuf = {}

\* The coalescer's part of a checkpoint, and a coalescer without state.
HeldForgotten == EmptyBatch
HeldSaved == held

\* The barrier passes every operator: writers flush their files to the
\* committers, the dead-letter producer has nothing left in flight, and the
\* state of the cut is on its way to storage.
Barrier ==
  LET log == logPend \cup logBuf
      cur == Overlay(curPend, curBuf)
  IN
  /\ status = "RUNNING" /\ recovering = {}
  /\ ongoing = Nothing
  /\ notify \cap Sink = {}
  /\ DeadLettersFlushed
  /\ CheckpointDue
  /\ epoch' = epoch + 1
  /\ ongoing' = Checkpoint(epoch + 1, pos, log, cur, HeldSaved, through)
  /\ logPend' = log /\ logBuf' = {}
  /\ curPend' = cur /\ curBuf' = EmptyBatch
  /\ UNCHANGED <<topic, job, pos, coalescer, dlqBuf, done, notify, recovering,
                 group, tables, dlq>>

\* Every task acknowledged: the checkpoint is the new restore point and the
\* completion callbacks are on their way.
CompleteCheckpoint ==
  /\ ongoing # Nothing
  /\ done' = ongoing /\ ongoing' = Nothing
  /\ notify' = Listener
  /\ UNCHANGED <<topic, job, pos, coalescer, writers, committers, epoch,
                 recovering, group, tables, dlq>>

\* The source's callback commits the offsets of the completed checkpoint.
CommitOffsets ==
  /\ "source" \in notify
  /\ group' = done.pos
  /\ notify' = notify \ {"source"}
  /\ UNCHANGED <<topic, job, pos, coalescer, writers, committers, checkpoints,
                 recovering, tables, dlq>>

\* Publish what the committer of a sink holds as checkpoint done.
PublishChangelog ==
  /\ IF logPend = {}
     THEN UNCHANGED <<changelog, maxId>>
     ELSE /\ changelog' = Append(changelog, [run |-> run, rows |-> logPend])
          /\ maxId' = [maxId EXCEPT !["changelog"] = done.id]
  /\ shownLog' = done.pos
  /\ UNCHANGED <<current, shownCur>>

PublishCurrent ==
  /\ IF curPend = EmptyBatch
     THEN UNCHANGED <<current, maxId>>
     ELSE /\ current' = Overlay(current, curPend)
          /\ maxId' = [maxId EXCEPT !["current"] = done.id]
  /\ shownCur' = done.through
  /\ UNCHANGED <<changelog, shownLog>>

\* A committer's completion callback.
CommitChangelog ==
  /\ "changelog" \in notify
  /\ PublishChangelog
  /\ logPend' = {}
  /\ notify' = notify \ {"changelog"}
  /\ UNCHANGED <<topic, job, pos, coalescer, writers, curPend, checkpoints,
                 recovering, group, dlq>>

CommitCurrent ==
  /\ "current" \in notify
  /\ PublishCurrent
  /\ curPend' = EmptyBatch
  /\ notify' = notify \ {"current"}
  /\ UNCHANGED <<topic, job, pos, coalescer, writers, logPend, checkpoints,
                 recovering, group, dlq>>

\* Callbacks are best effort; the next checkpoint makes up for a lost one.
LoseCallback(l) ==
  /\ l \in notify
  /\ done.id <= LossyCheckpoints
  /\ notify' = notify \ {l}
  /\ UNCHANGED <<topic, job, pos, coalescer, writers, committers, checkpoints,
                 recovering, group, tables, dlq>>

-----------------------------------------------------------------------------

\* The tasks stop: what they hold in memory, the checkpoint in progress and
\* the callbacks under way are gone.
StopTasks ==
  /\ held' = EmptyBatch
  /\ logBuf' = {} /\ curBuf' = EmptyBatch /\ dlqBuf' = {}
  /\ logPend' = {} /\ curPend' = EmptyBatch
  /\ ongoing' = Nothing /\ notify' = {} /\ recovering' = {}
  /\ UNCHANGED <<topic, run, replaying, pos, through, epoch, done, group,
                 tables, dlq>>

\* The fixed-delay strategy, and one that counts an attempt too many.
MayRestartOnceMore == attempts <= RestartAttempts
MayRestart == attempts < RestartAttempts

\* A task fails; the fixed-delay strategy restarts the job or gives up.
Crash ==
  /\ status = "RUNNING"
  /\ \/ /\ MayRestart
        /\ status' = "RESTARTING" /\ attempts' = attempts + 1
     \/ /\ ~MayRestart
        /\ status' = "FAILED" /\ UNCHANGED attempts
  /\ StopTasks

\* Where a restarted source reads from: the restored checkpoint, whatever the
\* starting offsets say; not the group's offsets, not the end of the topic.
RestartAtCommitted == group
RestartAtLatest == Ends(topic)
RestartPosition == done.pos

\* Restart from the last completed checkpoint.
Restart ==
  /\ status = "RESTARTING"
  /\ status' = "RUNNING"
  /\ pos' = RestartPosition
  /\ held' = done.held /\ through' = done.through
  /\ logPend' = done.log /\ curPend' = done.cur
  /\ recovering' = Sink
  /\ UNCHANGED <<topic, attempts, run, replaying, writers, checkpoints,
                 notify, group, tables, dlq>>

\* A restored committer publishes the files of the checkpoint unless its
\* table's summary says that checkpoint is in already.
RecoverChangelog ==
  /\ "changelog" \in recovering
  /\ IF done.id > maxId["changelog"]
     THEN PublishChangelog
     ELSE UNCHANGED tables
  /\ logPend' = {}
  /\ recovering' = recovering \ {"changelog"}
  /\ UNCHANGED <<topic, job, pos, coalescer, writers, curPend, checkpoints,
                 notify, group, dlq>>

RecoverCurrent ==
  /\ "current" \in recovering
  /\ IF done.id > maxId["current"]
     THEN PublishCurrent
     ELSE UNCHANGED tables
  /\ curPend' = EmptyBatch
  /\ recovering' = recovering \ {"current"}
  /\ UNCHANGED <<topic, job, pos, coalescer, writers, logPend, checkpoints,
                 notify, group, dlq>>

-----------------------------------------------------------------------------

\* The operator cancels the job.
Cancel ==
  /\ status \in {"RUNNING", "RESTARTING"}
  /\ status' = "CANCELED" /\ UNCHANGED attempts
  /\ StopTasks

\* A job submitted without restored state, at offset zero.  It has a new job
\* id: no table summary knows a checkpoint of it.
SubmitAtStart ==
  /\ status = "CANCELED" /\ run < MaxRuns
  /\ status' = "RUNNING" /\ attempts' = 0 /\ run' = run + 1
  /\ pos' = Start /\ group' = Start
  /\ epoch' = 0 /\ done' = NoCheckpoint
  /\ maxId' = [s \in Sink |-> 0]
  /\ through' = KeyStart /\ shownLog' = Start /\ shownCur' = KeyStart
  /\ UNCHANGED <<topic, held, writers, committers, ongoing, notify,
                 recovering, dlq>>

\* With the job absent, the group is rewound to the earliest offsets and a
\* new job starts from them over the same tables: forced redelivery.
RewindAndResubmit ==
  /\ SubmitAtStart
  /\ replaying' = FALSE
  /\ UNCHANGED <<changelog, current>>

\* With the job absent, both tables are dropped and created again and a job
\* of a new group replays the topic from offset zero, with the coalescer:
\* offset replay, and the replay of the SLO measurement.
RebuildFromEarliest ==
  /\ SubmitAtStart
  /\ replaying' = TRUE
  /\ changelog' = <<>> /\ current' = EmptyTable

JobStep ==
  \/ \E p \in Partition : Poll(p)
  \/ \E k \in Key : OnTimer(k)
  \/ \E slot \in dlqBuf : SendDeadLetter(slot)
  \/ Barrier \/ CompleteCheckpoint
  \/ CommitOffsets \/ CommitChangelog \/ CommitCurrent
  \/ Restart \/ RecoverChangelog \/ RecoverCurrent

Next ==
  \/ \E record \in Record : Produce(record)
  \/ JobStep
  \/ \E l \in Listener : LoseCallback(l)
  \/ Crash
  \/ Cancel \/ RewindAndResubmit \/ RebuildFromEarliest

Spec == Init /\ [][Next]_vars

\* The Flink runtime schedules every enabled task step, the coordinator keeps
\* triggering checkpoints and the fixed-delay strategy restarts.  A change that
\* is held back is let through in the end: that its timer does fire once
\* producers stop is Drains of ReplayCoalescer.  Nothing is assumed of
\* producers, failures, lost callbacks or the operator.
Fairness == WF_vars(JobStep)

FairSpec == Spec /\ Fairness

-----------------------------------------------------------------------------

Published ==
  UNION {changelog[i].rows : i \in {j \in DOMAIN changelog : changelog[j].run = run}}

\* Exactly-once of the append-only table: whatever crashes, lost callbacks and
\* restores happened, the snapshots one submission published never repeat a
\* record and together hold exactly the changelog records up to the position
\* the table shows.
ChangelogExactlyOnce ==
  /\ \A i, j \in DOMAIN changelog :
       i # j /\ changelog[i].run = changelog[j].run
         => changelog[i].rows \cap changelog[j].rows = {}
  /\ Published = Slice(topic, Start, shownLog)

\* The row of key k holds the last decoded record of k up to an offset, if
\* this submission has come to one.
RowIsLast(k, upTo) ==
  \E entry \in Row \cup {Untouched} :
    /\ Says(topic, k, 0, upTo, entry)
    /\ entry # Untouched => current[k] = entry

\* The upsert table is the keyed state of the topic: each row is the last
\* decoded record of its key up to the offset the row shows.  In a job without
\* the coalescer these offsets are one checkpointed cut of the topic.
CurrentIsACut ==
  /\ \A k \in Key : RowIsLast(k, shownCur[k])
  /\ replaying \/ \E cut \in Position : shownCur = ForKeys(cut)

\* Neither table shows a record before the checkpoint that covers it completed,
\* nor the current table a change that checkpoint still holds back.
ReadsOnlyCheckpointed ==
  /\ Within(shownLog, done.pos)
  /\ KeysWithin(shownCur, done.through)
  /\ KeysWithin(done.through, ForKeys(done.pos))

\* A failure at any moment is harmless: the restore point plus what the table
\* already shows is the whole prefix up to the restored source position,
\* nothing twice and nothing missing; what the coalescer held back is restored
\* with it.
RestorePointIsComplete ==
  /\ Slice(topic, shownLog, done.pos)
       = IF done.id > maxId["changelog"] THEN done.log ELSE {}
  /\ \A k \in Key :
       /\ Says(topic, k, shownCur[k], done.through[k],
               IF done.id > maxId["current"] THEN done.cur[k] ELSE Untouched)
       /\ Says(topic, k, done.through[k], done.pos[PartitionOf[k]], done.held[k])

\* No poison record is skipped silently: an offset is neither checkpointed
\* nor committed to the group before the dead letter of every record below it
\* that cannot be decoded whole reached the dead-letter topic.
QuarantineBeforeCommit ==
  /\ Within(group, done.pos)
  /\ QuarantinedUpTo(topic, done.pos) \subseteq {dlq[i] : i \in DOMAIN dlq}

\* Within one submission the committed group offsets never move back, and
\* neither does what a table shows, also across restores.
NeverBack ==
  [][run' = run => /\ Within(group, group')
                   /\ Within(shownLog, shownLog')
                   /\ KeysWithin(shownCur, shownCur')]_vars

\* Lag zero, no dead letter missing, and both tables hold the whole topic.
Settled ==
  /\ group = Ends(topic)
  /\ QuarantinedUpTo(topic, Ends(topic)) \subseteq {dlq[i] : i \in DOMAIN dlq}
  /\ Published = Slice(topic, Start, Ends(topic))
  /\ \A k \in Key : RowIsLast(k, Len(topic[PartitionOf[k]]))

\* The abstract specification of the two tables, over the same variables.
Tables == INSTANCE CommittedCuts

\* The job implements it.  Each snapshot of the changelog is the next cut of
\* the topic, never a part of one and never one again; so is each snapshot of
\* the current table while no coalescer is in the job.  With the coalescer each
\* row moves to a later last change of its key, never to an older one.
ImplementsCommittedCuts == Tables!Spec

\* Once the producers, failures and the operator stop, the job settles and
\* stays settled, unless the restart strategy gave up or the job is canceled.
Converges == <>[](status \in {"FAILED", "CANCELED"} \/ Settled)
=============================================================================
