----------------------- MODULE KafkaToIceberg_proofs -----------------------
(* Theorems about KafkaToIceberg, for all values of its constants. *)
EXTENDS KafkaToIceberg, TLAPS

-----------------------------------------------------------------------------
(* Type correctness. *)

\* The empty batch and table, and an overlay of batches on either, are of
\* their types.
LEMMA BatchType ==
  /\ EmptyBatch \in Batch /\ EmptyTable \in Table
  /\ Start \in Position /\ KeyStart \in KeyPosition
  /\ \A a, b \in Batch : Overlay(a, b) \in Batch
  /\ \A a \in Table, b \in Batch : Overlay(a, b) \in Table
  BY MaxRecordsAssumption
  DEF EmptyBatch, Batch, EmptyTable, Table, Start, Position, KeyStart,
      KeyPosition, Overlay, Row

\* A position of the topic has one of every key.
LEMMA ForKeysType ==
  ASSUME NEW position \in Position
  PROVE  /\ ForKeys(position) \in KeyPosition
         /\ \A k \in Key : ForKeys(position)[k] = position[PartitionOf[k]]
  BY PartitionAssumption, MaxRecordsAssumption DEF ForKeys, KeyPosition, Position

\* Every state the job reaches has its type: positions stay inside the topic's
\* bound, checkpoints and snapshots are well formed.
THEOREM TypeCorrect == Spec => []TypeOK
<1>1. Init => TypeOK
  <2>1. NoCheckpoint \in Checkpoints
    BY BatchType DEF NoCheckpoint, Checkpoint, Checkpoints
  <2> SUFFICES ASSUME Init PROVE TypeOK
    OBVIOUS
  <2>2. /\ topic \in [Partition -> Seq(Record)]
        /\ \A p \in Partition : Len(topic[p]) <= MaxRecords
    BY MaxRecordsAssumption DEF Init
  <2>3. /\ pos \in Position /\ group \in Position /\ shownLog \in Position
        /\ through \in KeyPosition /\ shownCur \in KeyPosition
        /\ held \in Batch /\ curBuf \in Batch /\ curPend \in Batch
        /\ current \in Table
    BY BatchType DEF Init
  <2>4. changelog \in Seq([run : Nat, rows : SUBSET Slot]) /\ dlq \in Seq(Slot)
    BY DEF Init
  <2>5. /\ status \in {"RUNNING", "RESTARTING", "FAILED", "CANCELED"}
        /\ attempts \in 0 .. RestartAttempts /\ run \in 1 .. MaxRuns
        /\ epoch \in Nat /\ maxId \in [Sink -> Nat]
    BY BoundsAssumption DEF Init
  <2>6. /\ replaying \in BOOLEAN
        /\ logBuf \subseteq Slot /\ logPend \subseteq Slot /\ dlqBuf \subseteq Slot
        /\ notify \subseteq Listener /\ recovering \subseteq Sink
    BY DEF Init
  <2>7. done \in Checkpoints /\ ongoing \in Checkpoints \cup {Nothing}
    BY <2>1 DEF Init
  <2> QED
    BY <2>2, <2>3, <2>4, <2>5, <2>6, <2>7 DEF TypeOK
<1>2. TypeOK /\ [Next]_vars => TypeOK'
  <2> SUFFICES ASSUME TypeOK, [Next]_vars PROVE TypeOK'
    OBVIOUS
  <2> USE DEF TypeOK
  <2>1. ASSUME NEW record \in Record, Produce(record) PROVE TypeOK'
    <3> DEFINE p == PartitionOf[record.key]
    <3>1. p \in Partition
      BY PartitionAssumption DEF Record
    <3>2. topic[p] \in Seq(Record) /\ Append(topic[p], record) \in Seq(Record)
          /\ Len(Append(topic[p], record)) = Len(topic[p]) + 1
      BY <3>1
    <3>3. topic' \in [Partition -> Seq(Record)]
      BY <2>1, <3>1, <3>2 DEF Produce
    <3>4. \A q \in Partition : Len(topic'[q]) <= MaxRecords
      BY <2>1, <3>1, <3>2, MaxRecordsAssumption DEF Produce
    <3> QED
      BY <2>1, <3>3, <3>4
      DEF Produce, job, coalescer, writers, committers, checkpoints, tables
  <2>2. ASSUME NEW p \in Partition, Poll(p) PROVE TypeOK'
    <3> DEFINE slot == <<p, pos[p] + 1>>
               record == topic[p][pos[p] + 1]
    <3>1. pos[p] + 1 \in 1 .. Len(topic[p]) /\ Len(topic[p]) \in 0 .. MaxRecords
      BY <2>2, MaxRecordsAssumption DEF Poll, Position
    <3>2. slot \in Slot /\ record \in Record
      BY <3>1, MaxRecordsAssumption DEF Slot, Offset
    <3>3. pos' \in Position
      BY <2>2, <3>1, MaxRecordsAssumption DEF Poll, Position
    <3>4. logBuf' \subseteq Slot /\ dlqBuf' \subseteq Slot
      BY <2>2, <3>2 DEF Poll
    <3>5. curBuf' \in Batch /\ held' \in Batch
      BY <2>2, <3>2 DEF Poll, Batch, IsDecoded, Record
    <3>6. through' \in KeyPosition
      BY <2>2, <3>3, PartitionAssumption
      DEF Poll, LetThrough, KeyPosition, Position
    <3> QED
      BY <2>2, <3>3, <3>4, <3>5, <3>6
      DEF Poll, job, committers, checkpoints, tables
  <2>21. ASSUME NEW k \in Key, OnTimer(k) PROVE TypeOK'
    <3>1. through' \in KeyPosition
      BY <2>21, PartitionAssumption DEF OnTimer, KeyPosition, Position
    <3>2. curBuf' \in Batch /\ held' \in Batch
      BY <2>21 DEF OnTimer, Batch
    <3> QED
      BY <2>21, <3>1, <3>2 DEF OnTimer, job, committers, checkpoints, tables
  <2>3. ASSUME NEW slot \in dlqBuf, SendDeadLetter(slot) PROVE TypeOK'
    BY <2>3 DEF SendDeadLetter, job, coalescer, committers, checkpoints, tables
  <2>4. ASSUME Barrier PROVE TypeOK'
    <3>1. Overlay(curPend, curBuf) \in Batch
      BY BatchType
    <3> QED
      BY <2>4, <3>1, BatchType
      DEF Barrier, DeadLettersFlushed, HeldSaved, Checkpoint, Checkpoints, job,
          coalescer, tables
  <2>5. ASSUME CompleteCheckpoint PROVE TypeOK'
    BY <2>5
    DEF CompleteCheckpoint, job, coalescer, writers, committers, tables
  <2>6. ASSUME CommitOffsets PROVE TypeOK'
    BY <2>6
    DEF CommitOffsets, Checkpoints, job, coalescer, writers, committers,
        checkpoints, tables
  <2>7. ASSUME PublishChangelog
        PROVE /\ changelog' \in Seq([run : Nat, rows : SUBSET Slot])
              /\ maxId' \in [Sink -> Nat] /\ shownLog' \in Position
              /\ UNCHANGED <<current, shownCur>>
    <3>1. [run |-> run, rows |-> logPend] \in [run : Nat, rows : SUBSET Slot]
      BY BoundsAssumption
    <3>2. Append(changelog, [run |-> run, rows |-> logPend])
            \in Seq([run : Nat, rows : SUBSET Slot])
      BY <3>1
    <3> QED
      BY <2>7, <3>2 DEF PublishChangelog, Checkpoints
  <2>8. ASSUME PublishCurrent
        PROVE /\ current' \in Table
              /\ maxId' \in [Sink -> Nat] /\ shownCur' \in KeyPosition
              /\ UNCHANGED <<changelog, shownLog>>
    <3>1. Overlay(current, curPend) \in Table
      BY BatchType
    <3> QED
      BY <2>8, <3>1 DEF PublishCurrent, Checkpoints
  <2>9. ASSUME CommitChangelog PROVE TypeOK'
    BY <2>9, <2>7
    DEF CommitChangelog, job, coalescer, writers, checkpoints
  <2>10. ASSUME CommitCurrent PROVE TypeOK'
    BY <2>10, <2>8, BatchType
    DEF CommitCurrent, job, coalescer, writers, checkpoints
  <2>11. ASSUME NEW l \in Listener, LoseCallback(l) PROVE TypeOK'
    BY <2>11
    DEF LoseCallback, job, coalescer, writers, committers, checkpoints, tables
  <2>12. ASSUME Crash PROVE TypeOK'
    BY <2>12, BatchType, BoundsAssumption DEF Crash, MayRestart, StopTasks, tables
  <2>13. ASSUME Restart PROVE TypeOK'
    BY <2>13 DEF Restart, RestartPosition, Checkpoints, writers, checkpoints, tables
  <2>14. ASSUME RecoverChangelog PROVE TypeOK'
    BY <2>14, <2>7
    DEF RecoverChangelog, job, coalescer, writers, checkpoints, tables
  <2>15. ASSUME RecoverCurrent PROVE TypeOK'
    BY <2>15, <2>8, BatchType
    DEF RecoverCurrent, job, coalescer, writers, checkpoints, tables
  <2>16. ASSUME Cancel PROVE TypeOK'
    BY <2>16, BatchType DEF Cancel, StopTasks, tables
  <2>17. ASSUME SubmitAtStart,
                changelog' \in Seq([run : Nat, rows : SUBSET Slot]),
                current' \in Table, replaying' \in BOOLEAN
         PROVE TypeOK'
    <3>1. NoCheckpoint \in Checkpoints
      BY BatchType DEF NoCheckpoint, Checkpoint, Checkpoints
    <3>2. run' \in 1 .. MaxRuns
      BY <2>17, BoundsAssumption DEF SubmitAtStart
    <3> QED
      BY <2>17, <3>1, <3>2, BatchType, BoundsAssumption
      DEF SubmitAtStart, writers, committers
  <2>18. CASE RewindAndResubmit
    BY <2>17, <2>18 DEF RewindAndResubmit
  <2>19. CASE RebuildFromEarliest
    BY <2>17, <2>19, BatchType DEF RebuildFromEarliest
  <2>20. CASE UNCHANGED vars
    BY <2>20
    DEF vars, job, coalescer, writers, committers, checkpoints, tables
  <2> QED
    BY <2>1, <2>2, <2>3, <2>4, <2>5, <2>6, <2>9, <2>10, <2>11, <2>12, <2>13,
       <2>14, <2>15, <2>16, <2>18, <2>19, <2>20, <2>21
    DEF Next, JobStep
<1>3. QED
  BY <1>1, <1>2, PTL DEF Spec
-----------------------------------------------------------------------------
(* The inductive invariant. *)

Ordered ==
  /\ Within(shownLog, done.pos)
  /\ Within(group, done.pos)
  /\ Within(done.pos, pos) /\ Within(pos, Ends(topic))
  /\ ongoing # Nothing => Within(done.pos, ongoing.pos) /\ Within(ongoing.pos, pos)

\* What may be under way in which phase of the job.
Phases ==
  /\ status # "RUNNING" =>
       /\ ongoing = Nothing /\ notify = {} /\ recovering = {}
       /\ held = EmptyBatch
       /\ logBuf = {} /\ curBuf = EmptyBatch /\ dlqBuf = {}
       /\ logPend = {} /\ curPend = EmptyBatch
  /\ recovering # {} =>
       /\ ongoing = Nothing /\ notify = {}
       /\ logBuf = {} /\ curBuf = EmptyBatch /\ pos = done.pos
  /\ ongoing # Nothing =>
       /\ notify \cap Sink = {}
       /\ ongoing.log = logPend /\ ongoing.cur = curPend
       /\ done.id < ongoing.id /\ ongoing.id = epoch
  /\ "changelog" \in notify => logPend = done.log
  /\ "current" \in notify => curPend = done.cur

Ids == (\A s \in Sink : maxId[s] <= done.id) /\ done.id <= epoch

Control == Ordered /\ Phases /\ Ids

\* How far the changes of each key have come: shown, checkpointed, past the
\* coalescer, polled.
KeysOrdered ==
  /\ KeysWithin(shownCur, done.through)
  /\ KeysWithin(done.through, ForKeys(done.pos))
  /\ KeysWithin(done.through, through) /\ KeysWithin(through, ForKeys(pos))
  /\ ongoing # Nothing =>
       /\ KeysWithin(done.through, ongoing.through)
       /\ KeysWithin(ongoing.through, through)
       /\ KeysWithin(ongoing.through, ForKeys(ongoing.pos))

\* Without the coalescer nothing is held back.
NothingHeld ==
  ~replaying =>
    /\ held = EmptyBatch /\ through = ForKeys(pos)
    /\ done.held = EmptyBatch /\ done.through = ForKeys(done.pos)
    /\ ongoing # Nothing =>
         ongoing.held = EmptyBatch /\ ongoing.through = ForKeys(ongoing.pos)
    /\ \E cut \in Position : shownCur = ForKeys(cut)

KeyControl == KeysOrdered /\ NothingHeld

\* The position of the last barrier: the committers hold what came before it,
\* the writers what came after.
BarrierPos == IF ongoing = Nothing THEN done.pos ELSE ongoing.pos
BarrierThrough == IF ongoing = Nothing THEN done.through ELSE ongoing.through

\* Where each changelog record of the topic is on its way into the changelog.
LogInv ==
  /\ ChangelogExactlyOnce
  /\ \A i \in DOMAIN changelog : changelog[i].run \in 1 .. run
  /\ Slice(topic, shownLog, done.pos)
       = IF done.id > maxId["changelog"] THEN done.log ELSE {}
  /\ status = "RUNNING" => logBuf = Slice(topic, BarrierPos, pos)
  /\ status = "RUNNING" /\ "changelog" \notin recovering =>
       logPend = Slice(topic, shownLog, BarrierPos)
  /\ "changelog" \in recovering => logPend = done.log

\* The same for the rows of the current table: what one batch says of a key
\* ends where the next one, further up the pipeline, begins.
CurInv ==
  /\ CurrentIsACut
  /\ \A k \in Key :
       Says(topic, k, shownCur[k], done.through[k],
            IF done.id > maxId["current"] THEN done.cur[k] ELSE Untouched)
  /\ \A k \in Key :
       Says(topic, k, done.through[k], done.pos[PartitionOf[k]], done.held[k])
  /\ ongoing # Nothing =>
       \A k \in Key : Says(topic, k, ongoing.through[k],
                           ongoing.pos[PartitionOf[k]], ongoing.held[k])
  /\ status = "RUNNING" =>
       \A k \in Key :
         /\ Says(topic, k, BarrierThrough[k], through[k], curBuf[k])
         /\ Says(topic, k, through[k], pos[PartitionOf[k]], held[k])
  /\ status = "RUNNING" /\ "current" \notin recovering =>
       \A k \in Key : Says(topic, k, shownCur[k], BarrierThrough[k], curPend[k])
  /\ "current" \in recovering => curPend = done.cur

Sent == {dlq[i] : i \in DOMAIN dlq}

\* Where each quarantined record is on its way to the dead-letter topic.
DeadLetterInv ==
  /\ QuarantinedUpTo(topic, done.pos) \subseteq Sent
  /\ ongoing # Nothing => QuarantinedUpTo(topic, ongoing.pos) \subseteq Sent
  /\ status = "RUNNING" => QuarantinedUpTo(topic, pos) \subseteq Sent \cup dlqBuf

-----------------------------------------------------------------------------
(* Positions, phases and checkpoint ids. *)

\* Cuts of the topic are compared partition by partition: a partial order
\* with the start at the bottom.
LEMMA WithinOrder ==
  /\ \A a \in Position : Within(a, a) /\ Within(Start, a)
  /\ \A a, b, c \in Position : Within(a, b) /\ Within(b, c) => Within(a, c)
  BY MaxRecordsAssumption DEF Within, Position, Start

\* The end of the topic is a position.
LEMMA EndsType ==
  ASSUME TypeOK PROVE Ends(topic) \in Position
  BY MaxRecordsAssumption DEF TypeOK, Ends, Position

\* The topic is append-only.
LEMMA TopicGrows ==
  ASSUME TypeOK, NEW record \in Record, Produce(record)
  PROVE  /\ Within(Ends(topic), Ends(topic'))
         /\ \A p \in Partition, o \in Offset :
              o <= Len(topic[p]) => topic'[p][o] = topic[p][o]
<1> DEFINE q == PartitionOf[record.key]
           longer == Append(topic[q], record)
<1>1. q \in Partition /\ topic[q] \in Seq(Record)
  BY PartitionAssumption DEF Record, TypeOK
<1>2. \A p \in Partition : topic'[p] = IF p = q THEN longer ELSE topic[p]
  BY <1>1 DEF Produce, TypeOK
<1>3. /\ Len(longer) = Len(topic[q]) + 1 /\ Len(topic[q]) \in Nat
      /\ \A o \in 1 .. Len(topic[q]) : longer[o] = topic[q][o]
  BY <1>1
<1> HIDE DEF longer, q
<1>4. ASSUME NEW p \in Partition
      PROVE  /\ Len(topic[p]) <= Len(topic'[p])
             /\ \A o \in 1 .. Len(topic[p]) : topic'[p][o] = topic[p][o]
  <2>1. CASE p = q
    BY <2>1, <1>2, <1>3
  <2>2. CASE p # q
    <3>1. Len(topic[p]) \in Nat
      BY DEF TypeOK
    <3> QED
      BY <2>2, <3>1, <1>2
  <2> QED
    BY <2>1, <2>2
<1>5. \A p \in Partition, o \in Offset :
        o <= Len(topic[p]) => o \in 1 .. Len(topic[p])
  <2>1. \A p \in Partition : Len(topic[p]) \in Nat
    BY DEF TypeOK
  <2> QED
    BY <2>1, MaxRecordsAssumption DEF Offset
<1> QED
  BY <1>4, <1>5 DEF Within, Ends

\* What lies below a position the job has reached is not touched.
LEMMA PrefixKept ==
  ASSUME TypeOK, Within(pos, Ends(topic)), NEW record \in Record,
         Produce(record), NEW high \in Position, Within(high, pos)
  PROVE  \A p \in Partition, o \in Offset :
           o <= high[p] => topic'[p][o] = topic[p][o]
<1>1. \A p \in Partition : high[p] <= Len(topic[p])
  <2>1. Within(high, Ends(topic))
    BY EndsType, WithinOrder DEF TypeOK
  <2> QED
    BY <2>1 DEF Within, Ends
<1>2. \A p \in Partition : Len(topic[p]) \in Nat
  BY DEF TypeOK
<1>3. \A p \in Partition, o \in Offset : o <= high[p] => o <= Len(topic[p])
  BY <1>1, <1>2, MaxRecordsAssumption DEF Offset, Position
<1> QED
  BY <1>3, TopicGrows

\* A barrier starts the checkpoint of what the job holds.
LEMMA BarrierTaken ==
  ASSUME TypeOK, Barrier
  PROVE  /\ ongoing = Nothing /\ ongoing' # Nothing /\ ongoing'.id = epoch + 1
         /\ ongoing'.pos = pos /\ ongoing'.through = through
         /\ ongoing'.held = held
         /\ ongoing'.log = logPend \cup logBuf
         /\ ongoing'.cur = Overlay(curPend, curBuf)
         /\ logPend' = logPend \cup logBuf /\ logBuf' = {}
         /\ curPend' = Overlay(curPend, curBuf) /\ curBuf' = EmptyBatch
         /\ status = "RUNNING" /\ recovering = {}
         /\ UNCHANGED <<topic, job, pos, coalescer, done, recovering, tables>>
<1> DEFINE taken == Checkpoint(epoch + 1, pos, logPend \cup logBuf,
                               Overlay(curPend, curBuf), held, through)
<1>1. ongoing' = taken
  BY DEF Barrier, HeldSaved
<1>2. taken \in Checkpoints
  BY BatchType DEF TypeOK, Checkpoint, Checkpoints
<1>3. taken # Nothing
  BY <1>2, NothingAssumption
<1> QED
  BY <1>1, <1>3 DEF Barrier, Checkpoint

\* No step of the job disturbs the phases and the checkpoint ids.
LEMMA ControlInductive ==
  ASSUME TypeOK, TypeOK', Control, [Next]_vars PROVE Control'
<1> USE DEF Control
<1>1. ASSUME NEW record \in Record, Produce(record) PROVE Control'
  <2>1. Within(pos, Ends(topic)) /\ Within(Ends(topic), Ends(topic'))
    BY <1>1, TopicGrows DEF Ordered
  <2>2. Ends(topic) \in Position /\ Ends(topic)' \in Position /\ pos \in Position
    <3>1. pos \in Position
      BY DEF TypeOK
    <3>2. Ends(topic) \in Position
      BY EndsType
    <3>3. Ends(topic)' \in Position
      BY MaxRecordsAssumption DEF TypeOK, Ends, Position
    <3> QED BY <3>1, <3>2, <3>3
  <2>3. Within(pos, Ends(topic'))
    BY <2>1, <2>2, WithinOrder
  <2> QED
    BY <1>1, <2>3
    DEF Produce, Ordered, Phases, Ids, job, coalescer, writers, committers,
        checkpoints, tables
<1>2. ASSUME NEW p \in Partition, Poll(p) PROVE Control'
  <2>1. /\ pos' = [pos EXCEPT ![p] = @ + 1]
        /\ pos[p] < Len(topic[p])
        /\ status = "RUNNING" /\ recovering = {}
        /\ UNCHANGED <<topic, job, committers, checkpoints, notify, recovering,
                       group, tables, dlq>>
    BY <1>2 DEF Poll
  <2>2. Within(pos, pos') /\ Within(pos', Ends(topic'))
    <3>1. /\ pos \in [Partition -> Nat] /\ topic' = topic
          /\ \A q \in Partition : pos[q] <= Len(topic[q]) /\ Len(topic[q]) \in Nat
      BY <2>1 DEF TypeOK, Ordered, Within, Ends, Position
    <3>2. \A q \in Partition : pos[q] <= pos'[q] /\ pos'[q] <= Len(topic[q])
      BY <2>1, <3>1
    <3> QED BY <3>1, <3>2 DEF Within, Ends
  <2>3. Within(done.pos, pos')
    BY <2>1, <2>2, WithinOrder DEF TypeOK, Ordered, Checkpoints
  <2>4. ongoing # Nothing => Within(ongoing.pos, pos')
    BY <2>1, <2>2, WithinOrder DEF TypeOK, Ordered, Checkpoints
  <2> QED
    BY <2>1, <2>2, <2>3, <2>4
    DEF Ordered, Phases, Ids, job, committers, checkpoints, tables
<1>15. ASSUME NEW k \in Key, OnTimer(k) PROVE Control'
  BY <1>15
  DEF OnTimer, Ordered, Phases, Ids, job, committers, checkpoints, tables
<1>3. ASSUME NEW slot \in dlqBuf, SendDeadLetter(slot) PROVE Control'
  BY <1>3
  DEF SendDeadLetter, Ordered, Phases, Ids, job, coalescer, committers,
      checkpoints, tables
<1>4. CASE Barrier
  <2>1. /\ ongoing = Nothing /\ ongoing' # Nothing /\ ongoing'.id = epoch + 1
        /\ ongoing'.pos = pos
        /\ ongoing'.log = logPend' /\ ongoing'.cur = curPend'
        /\ logBuf' = {} /\ curBuf' = EmptyBatch
        /\ status = "RUNNING" /\ recovering = {} /\ notify \cap Sink = {}
        /\ epoch' = epoch + 1
        /\ UNCHANGED <<topic, job, pos, done, notify, recovering, group, tables>>
    BY <1>4, BarrierTaken DEF Barrier
  <2>2. Within(pos, pos)
    BY WithinOrder DEF TypeOK
  <2>3. Ordered'
    BY <2>1, <2>2 DEF Ordered, tables
  <2>4. done.id < epoch + 1 /\ done.id <= epoch + 1
    BY DEF Ids, TypeOK, Checkpoints
  <2>5. Phases' /\ Ids'
    BY <2>1, <2>4 DEF Phases, Ids, job, tables, Sink
  <2> QED
    BY <2>3, <2>5
<1>5. CASE CompleteCheckpoint
  <2>1. Within(shownLog, ongoing.pos)
    BY <1>5, WithinOrder DEF CompleteCheckpoint, Ordered, TypeOK, Checkpoints
  <2>2. Within(group, ongoing.pos)
    BY <1>5, WithinOrder DEF CompleteCheckpoint, Ordered, TypeOK, Checkpoints
  <2>3. Ordered'
    BY <1>5, <2>1, <2>2 DEF CompleteCheckpoint, Ordered, tables
  <2>4. Phases'
    BY <1>5 DEF CompleteCheckpoint, Phases, job, coalescer, writers, committers
  <2>5. Ids'
    BY <1>5 DEF CompleteCheckpoint, Phases, Ids, TypeOK, Checkpoints, tables
  <2> QED
    BY <2>3, <2>4, <2>5
<1>6. CASE CommitOffsets
  BY <1>6, WithinOrder
  DEF CommitOffsets, Ordered, Phases, Ids, TypeOK, Checkpoints, job, coalescer,
      writers, committers, checkpoints, tables
<1>7. ASSUME PublishChangelog \/ PublishCurrent \/ UNCHANGED tables,
             UNCHANGED done
      PROVE  /\ Within(shownLog', done.pos)
             /\ \A s \in Sink : maxId'[s] <= done.id
  <2>1. shownLog' = shownLog \/ shownLog' = done.pos
    BY <1>7 DEF PublishChangelog, PublishCurrent, tables
  <2>2. \A s \in Sink : maxId'[s] = maxId[s] \/ maxId'[s] = done.id
    BY <1>7 DEF PublishChangelog, PublishCurrent, TypeOK, tables, Sink
  <2>3. done.pos \in Position /\ done.id \in Nat
    BY DEF TypeOK, Checkpoints
  <2>4. Within(done.pos, done.pos)
    BY <2>3, WithinOrder
  <2>5. Within(shownLog, done.pos) /\ \A s \in Sink : maxId[s] <= done.id
    BY DEF Ordered, Ids
  <2> QED BY <2>1, <2>2, <2>3, <2>4, <2>5
<1>8. CASE CommitChangelog \/ CommitCurrent
  <2>1. UNCHANGED <<topic, job, pos, writers, checkpoints, recovering, group>>
    BY <1>8 DEF CommitChangelog, CommitCurrent
  <2>2. ongoing = Nothing /\ notify' \subseteq notify /\ recovering = {}
        /\ status = "RUNNING"
    BY <1>8 DEF CommitChangelog, CommitCurrent, Phases, Sink
  <2>3. /\ Within(shownLog', done.pos)
        /\ \A s \in Sink : maxId'[s] <= done.id
    BY <1>7, <1>8, <2>1 DEF CommitChangelog, CommitCurrent, checkpoints
  <2>4. /\ "changelog" \in notify' => UNCHANGED logPend
        /\ "current" \in notify' => UNCHANGED curPend
    BY <1>8 DEF CommitChangelog, CommitCurrent
  <2> QED
    BY <2>1, <2>2, <2>3, <2>4 DEF Ordered, Phases, Ids, job, writers, checkpoints
<1>9. ASSUME NEW l \in Listener, LoseCallback(l) PROVE Control'
  BY <1>9
  DEF LoseCallback, Ordered, Phases, Ids, job, coalescer, writers, committers,
      checkpoints, tables
<1>10. CASE Crash \/ Cancel
  BY <1>10 DEF Crash, MayRestart, Cancel, StopTasks, Ordered, Phases, Ids, tables
<1>11. CASE Restart
  <2>1. Within(done.pos, Ends(topic))
    BY WithinOrder, EndsType DEF Ordered, TypeOK, Checkpoints
  <2> QED
    BY <1>11, <2>1, WithinOrder
    DEF Restart, RestartPosition, Ordered, Phases, Ids, TypeOK, Checkpoints, writers, checkpoints,
        tables
<1>12. CASE RecoverChangelog \/ RecoverCurrent
  <2>1. /\ UNCHANGED <<topic, job, pos, writers, checkpoints, notify, group>>
        /\ recovering # {} /\ recovering' \subseteq recovering
    BY <1>12 DEF RecoverChangelog, RecoverCurrent
  <2>2. /\ Within(shownLog', done.pos)
        /\ \A s \in Sink : maxId'[s] <= done.id
    BY <1>7, <1>12, <2>1 DEF RecoverChangelog, RecoverCurrent, checkpoints
  <2> QED
    BY <2>1, <2>2 DEF Ordered, Phases, Ids, job, writers, checkpoints
<1>13. CASE SubmitAtStart
  <2>1. Ends(topic') \in Position /\ Start \in Position
    BY <1>13, EndsType, BatchType DEF SubmitAtStart
  <2> QED
    BY <1>13, <2>1, WithinOrder
    DEF SubmitAtStart, NoCheckpoint, Checkpoint, Ordered, Phases, Ids, writers,
        committers
<1>14. CASE UNCHANGED vars
  BY <1>14
  DEF vars, Ordered, Phases, Ids, job, coalescer, writers, committers,
      checkpoints, tables
<1> QED
  BY <1>1, <1>2, <1>3, <1>4, <1>5, <1>6, <1>8, <1>9, <1>10, <1>11,
     <1>12, <1>13, <1>14, <1>15
  DEF Next, JobStep, RewindAndResubmit, RebuildFromEarliest

\* Positions are ordered along the pipeline (shown, checkpointed, polled,
\* produced), callbacks and recovery belong to a completed checkpoint, and a
\* table's summary never names a checkpoint that did not complete.
THEOREM ControlInvariant == Spec => []Control
<1>1. Init => Control
  BY MaxRecordsAssumption
  DEF Init, Control, Ordered, Phases, Ids, NoCheckpoint, Checkpoint, Within,
      Start, Ends, Sink
<1> QED
  BY <1>1, TypeCorrect, ControlInductive, PTL DEF Spec

-----------------------------------------------------------------------------
(* How far the changes of each key have come. *)

\* The same order key by key; a later cut is later for every key.
LEMMA KeysOrder ==
  /\ \A a \in KeyPosition : KeysWithin(a, a) /\ KeysWithin(KeyStart, a)
  /\ \A a, b, c \in KeyPosition : KeysWithin(a, b) /\ KeysWithin(b, c) => KeysWithin(a, c)
  /\ \A a, b \in Position : Within(a, b) => KeysWithin(ForKeys(a), ForKeys(b))
  BY MaxRecordsAssumption, PartitionAssumption
  DEF KeysWithin, KeyPosition, KeyStart, Within, ForKeys, Position

\* A position has an offset for every key.
LEMMA KeyOffsets ==
  /\ \A a \in KeyPosition, k \in Key : a[k] \in Nat
  /\ \A a \in Position : /\ \A p \in Partition : a[p] \in Nat
                         /\ \A k \in Key : a[PartitionOf[k]] \in Nat
  BY MaxRecordsAssumption, PartitionAssumption DEF KeyPosition, Position

\* Every position an invariant compares is one of each key.
LEMMA KeyTypes ==
  ASSUME TypeOK
  PROVE  /\ shownCur \in KeyPosition /\ through \in KeyPosition
         /\ done.through \in KeyPosition /\ done.pos \in Position
         /\ pos \in Position
         /\ ForKeys(done.pos) \in KeyPosition /\ ForKeys(pos) \in KeyPosition
         /\ ongoing # Nothing =>
              /\ ongoing.through \in KeyPosition /\ ongoing.pos \in Position
              /\ ForKeys(ongoing.pos) \in KeyPosition
  BY ForKeysType DEF TypeOK, Checkpoints

\* No step lets the changes of a key fall behind or overtake a stage of the
\* pipeline, and without the coalescer nothing stays behind.
LEMMA KeyControlInductive ==
  ASSUME TypeOK, TypeOK', Control, Control', KeyControl, [Next]_vars
  PROVE  KeyControl'
<1> USE DEF KeyControl
<1>1. ASSUME NEW p \in Partition, Poll(p) PROVE KeyControl'
  <2>1. /\ through' = [k \in Key |-> IF held'[k] = Untouched
                                     THEN pos'[PartitionOf[k]] ELSE through[k]]
        /\ pos' = [pos EXCEPT ![p] = @ + 1]
        /\ UNCHANGED <<replaying, done, ongoing, shownCur>>
    BY <1>1 DEF Poll, LetThrough, job, checkpoints, tables
  <2>2. \A k \in Key : ForKeys(pos')[k] = pos'[PartitionOf[k]]
                       /\ ForKeys(pos)[k] = pos[PartitionOf[k]]
    BY ForKeysType DEF TypeOK
  <2>3. \A k \in Key : /\ through[k] <= pos[PartitionOf[k]]
                       /\ pos[PartitionOf[k]] <= pos'[PartitionOf[k]]
                       /\ through[k] \in Nat /\ pos[PartitionOf[k]] \in Nat
                       /\ pos'[PartitionOf[k]] \in Nat
    <3>1. \A k \in Key : through[k] <= pos[PartitionOf[k]] /\ through[k] \in Nat
      BY <2>2, KeyTypes, KeyOffsets DEF KeysOrdered, KeysWithin
    <3>2. pos \in Position /\ pos' \in Position
      BY DEF TypeOK
    <3>3. \A q \in Partition : pos[q] <= pos'[q] /\ pos[q] \in Nat /\ pos'[q] \in Nat
      <4>1. \A q \in Partition : pos'[q] = IF q = p THEN pos[q] + 1 ELSE pos[q]
        BY <2>1, <3>2 DEF Position
      <4> QED BY <3>2, <4>1, KeyOffsets
    <3> QED BY <3>1, <3>3, PartitionAssumption
  <2>4. \A k \in Key : through'[k] = pos'[PartitionOf[k]] \/ through'[k] = through[k]
    BY <2>1
  <2>5. KeysWithin(through, through') /\ KeysWithin(through', ForKeys(pos'))
    BY <2>2, <2>3, <2>4 DEF KeysWithin
  <2>6. KeysWithin(done.through, through')
        /\ (ongoing # Nothing => KeysWithin(ongoing.through, through'))
    BY <2>5, KeyTypes, KeysOrder DEF KeysOrdered, TypeOK
  <2>7. KeysOrdered'
    BY <2>1, <2>5, <2>6 DEF KeysOrdered
  <2>8. ~replaying => held' = EmptyBatch /\ through' = ForKeys(pos')
    <3>1. ~replaying => held' = held
      BY <1>1 DEF Poll
    <3> QED
      BY <2>1, <3>1 DEF NothingHeld, EmptyBatch, ForKeys
  <2> QED
    BY <2>1, <2>7, <2>8 DEF NothingHeld
<1>2. ASSUME NEW k \in Key, OnTimer(k) PROVE KeyControl'
  <2>1. /\ through' = [through EXCEPT ![k] = pos[PartitionOf[k]]]
        /\ held[k] # Untouched
        /\ UNCHANGED <<replaying, pos, done, ongoing, shownCur>>
    BY <1>2 DEF OnTimer, job, checkpoints, tables
  <2>2. \A q \in Key : /\ through[q] <= ForKeys(pos)[q]
                       /\ ForKeys(pos)[q] = pos[PartitionOf[q]]
                       /\ through[q] \in Nat /\ pos[PartitionOf[q]] \in Nat
    BY ForKeysType, KeyTypes, KeyOffsets DEF KeysOrdered, KeysWithin
  <2>3. KeysWithin(through, through') /\ KeysWithin(through', ForKeys(pos))
    BY <2>1, <2>2 DEF KeysWithin, TypeOK, KeyPosition
  <2>4. KeysWithin(done.through, through')
        /\ (ongoing # Nothing => KeysWithin(ongoing.through, through'))
    BY <2>3, KeyTypes, KeysOrder DEF KeysOrdered, TypeOK
  <2>5. replaying
    BY <2>1 DEF NothingHeld, EmptyBatch
  <2> QED
    BY <2>1, <2>3, <2>4, <2>5 DEF KeysOrdered, NothingHeld
<1>3. CASE Barrier
  <2>1. /\ ongoing' # Nothing /\ ongoing'.through = through
        /\ ongoing'.pos = pos /\ ongoing'.held = held
        /\ UNCHANGED <<replaying, pos, held, through, done, shownCur>>
    BY <1>3, BarrierTaken DEF job, coalescer, tables
  <2>2. KeysWithin(through, through)
    BY KeyTypes, KeysOrder
  <2> QED
    BY <2>1, <2>2 DEF KeysOrdered, NothingHeld
<1>4. CASE CompleteCheckpoint
  <2>1. /\ ongoing # Nothing /\ done' = ongoing /\ ongoing' = Nothing
        /\ UNCHANGED <<replaying, pos, held, through, shownCur>>
    BY <1>4 DEF CompleteCheckpoint, job, coalescer, tables
  <2>2. KeysWithin(shownCur, ongoing.through)
    BY <2>1, KeyTypes, KeysOrder DEF KeysOrdered
  <2> QED
    BY <2>1, <2>2 DEF KeysOrdered, NothingHeld
<1>5. ASSUME shownCur' = done.through,
             UNCHANGED <<replaying, pos, held, through, done, ongoing>>
      PROVE  KeyControl'
  <2>1. KeysWithin(done.through, done.through)
    BY KeyTypes, KeysOrder
  <2> QED
    BY <1>5, <2>1, KeyTypes DEF KeysOrdered, NothingHeld
<1>6. CASE UNCHANGED <<replaying, pos, held, through, done, ongoing, shownCur>>
  BY <1>6 DEF KeysOrdered, NothingHeld
<1>7. CASE CommitCurrent \/ RecoverCurrent
  <2>1. /\ shownCur' = done.through \/ shownCur' = shownCur
        /\ UNCHANGED <<replaying, pos, held, through, done, ongoing>>
    BY <1>7
    DEF CommitCurrent, RecoverCurrent, PublishCurrent, job, coalescer,
        checkpoints, tables
  <2> QED
    BY <1>5, <1>6, <2>1
<1>8. CASE Crash \/ Cancel
  <2>1. /\ held' = EmptyBatch /\ ongoing' = Nothing
        /\ UNCHANGED <<replaying, pos, through, done, shownCur>>
    BY <1>8 DEF Crash, Cancel, StopTasks, tables
  <2> QED
    BY <2>1 DEF KeysOrdered, NothingHeld
<1>9. CASE Restart
  <2>1. /\ pos' = done.pos /\ held' = done.held /\ through' = done.through
        /\ ongoing' = Nothing
        /\ UNCHANGED <<replaying, done, shownCur>>
    BY <1>9
    DEF Restart, RestartPosition, Control, Phases, checkpoints, tables
  <2>2. KeysWithin(done.through, done.through)
    BY KeyTypes, KeysOrder
  <2> QED
    BY <2>1, <2>2 DEF KeysOrdered, NothingHeld
<1>10. CASE SubmitAtStart
  <2>1. /\ pos' = Start /\ held' = EmptyBatch /\ through' = KeyStart
        /\ done'.pos = Start /\ done'.through = KeyStart
        /\ done'.held = EmptyBatch
        /\ ongoing' = Nothing /\ shownCur' = KeyStart
    BY <1>10
    DEF SubmitAtStart, NoCheckpoint, Checkpoint, Control, Phases
  <2>2. /\ KeyStart \in KeyPosition /\ KeyStart = ForKeys(Start)
        /\ Start \in Position
    BY BatchType, PartitionAssumption DEF KeyStart, ForKeys, Start
  <2>3. KeysWithin(KeyStart, KeyStart)
    BY <2>2, KeysOrder
  <2> QED
    BY <2>1, <2>2, <2>3 DEF KeysOrdered, NothingHeld
<1>11. CASE \/ \E record \in Record : Produce(record)
            \/ \E slot \in dlqBuf : SendDeadLetter(slot)
            \/ CommitOffsets \/ CommitChangelog \/ RecoverChangelog
            \/ (\E l \in Listener : LoseCallback(l)) \/ UNCHANGED vars
  <2>1. UNCHANGED <<replaying, pos, held, through, done, ongoing, shownCur>>
    BY <1>11
    DEF Produce, SendDeadLetter, CommitOffsets, CommitChangelog,
        RecoverChangelog, PublishChangelog, LoseCallback, vars, job, coalescer,
        checkpoints, tables
  <2> QED
    BY <1>6, <2>1
<1> QED
  BY <1>1, <1>2, <1>3, <1>4, <1>7, <1>8, <1>9, <1>10, <1>11
  DEF Next, JobStep, RewindAndResubmit, RebuildFromEarliest

\* For every key what is shown, checkpointed, past the coalescer and polled is
\* in this order, and only a replaying job holds changes back.
THEOREM KeyControlInvariant == Spec => []KeyControl
<1>1. Init => KeyControl
  <2> SUFFICES ASSUME Init PROVE KeyControl
    OBVIOUS
  <2>1. /\ KeyStart \in KeyPosition /\ KeyStart = ForKeys(Start)
        /\ Start \in Position
    BY BatchType, PartitionAssumption DEF KeyStart, ForKeys, Start
  <2>2. KeysWithin(KeyStart, KeyStart)
    BY <2>1, KeysOrder
  <2>3. /\ pos = Start /\ held = EmptyBatch /\ through = KeyStart
        /\ done.pos = Start /\ done.through = KeyStart /\ done.held = EmptyBatch
        /\ ongoing = Nothing /\ shownCur = KeyStart
    BY DEF Init, NoCheckpoint, Checkpoint
  <2> QED
    BY <2>1, <2>2, <2>3 DEF KeyControl, KeysOrdered, NothingHeld
<1> QED
  BY <1>1, TypeCorrect, ControlInvariant, KeyControlInductive, PTL DEF Spec

\* Neither table shows a record before the checkpoint that covers it completed,
\* nor the current table a change that checkpoint still holds back.
THEOREM NothingUncommitted == Spec => []ReadsOnlyCheckpointed
<1>1. Control /\ KeyControl => ReadsOnlyCheckpointed
  BY DEF Control, Ordered, KeyControl, KeysOrdered, ReadsOnlyCheckpointed
<1> QED
  BY <1>1, ControlInvariant, KeyControlInvariant, PTL
-----------------------------------------------------------------------------
(* Ranges of the topic. *)

\* A range depends only on the records inside it.
LEMMA SliceSame ==
  ASSUME NEW t1, NEW t2, NEW low, NEW high,
         \A p \in Partition, o \in Offset : o <= high[p] => t1[p][o] = t2[p][o]
  PROVE  Slice(t1, low, high) = Slice(t2, low, high)
  BY DEF Slice, Slot

\* Nothing lies between a cut and itself.
LEMMA SliceEmpty ==
  ASSUME NEW t, NEW at \in Position PROVE Slice(t, at, at) = {}
  BY DEF Slice, Slot, Offset, Position

\* Adjacent ranges are disjoint and cover the range they make up.
LEMMA SliceJoin ==
  ASSUME NEW t, NEW low \in Position, NEW mid \in Position,
         NEW high \in Position, Within(low, mid), Within(mid, high)
  PROVE  /\ Slice(t, low, high) = Slice(t, low, mid) \cup Slice(t, mid, high)
         /\ Slice(t, low, mid) \cap Slice(t, mid, high) = {}
  BY DEF Slice, Slot, Offset, Position, Within

\* One more record.
LEMMA SliceNext ==
  ASSUME NEW t, NEW low \in Position, NEW high \in Position, NEW p \in Partition,
         Within(low, high), high[p] + 1 <= MaxRecords
  PROVE  /\ IsLogged(t[p][high[p] + 1]) =>
              Slice(t, low, [high EXCEPT ![p] = @ + 1])
                = Slice(t, low, high) \cup {<<p, high[p] + 1>>}
         /\ ~IsLogged(t[p][high[p] + 1]) =>
              Slice(t, low, [high EXCEPT ![p] = @ + 1]) = Slice(t, low, high)
<1> DEFINE slot == <<p, high[p] + 1>>
           next == [high EXCEPT ![p] = @ + 1]
<1>1. slot \in Slot /\ slot[1] = p /\ slot[2] = high[p] + 1
  BY MaxRecordsAssumption DEF Slot, Offset, Position
<1>2. low[p] < slot[2]
  BY <1>1 DEF Within, Position
<1>3. ASSUME NEW s \in Slot, s # slot
      PROVE  s[2] <= next[s[1]] <=> s[2] <= high[s[1]]
  BY <1>3, MaxRecordsAssumption DEF Slot, Offset, Position
<1>4. slot[2] <= next[p] /\ ~(slot[2] <= high[p])
  BY <1>1 DEF Position
<1> HIDE DEF slot, next
<1>5. Slice(t, low, next) \ {slot} = Slice(t, low, high) \ {slot}
  BY <1>3 DEF Slice
<1>6. slot \notin Slice(t, low, high)
  BY <1>1, <1>4 DEF Slice
<1>7. slot \in Slice(t, low, next) <=> IsLogged(t[p][high[p] + 1])
  BY <1>1, <1>2, <1>4 DEF Slice
<1>8. CASE IsLogged(t[p][high[p] + 1])
  <2>1. Slice(t, low, next) = Slice(t, low, high) \cup {slot}
    BY <1>5, <1>7, <1>8
  <2> QED
    BY <1>8, <2>1 DEF slot, next
<1>9. CASE ~IsLogged(t[p][high[p] + 1])
  <2>1. Slice(t, low, next) = Slice(t, low, high)
    BY <1>5, <1>6, <1>7, <1>9
  <2> QED
    BY <1>9, <2>1 DEF slot, next
<1> QED
  BY <1>8, <1>9

\* The quarantined records below a cut are fixed once the cut is behind the end.
LEMMA QuarantinedSame ==
  ASSUME NEW t1, NEW t2, NEW high,
         \A p \in Partition, o \in Offset : o <= high[p] => t1[p][o] = t2[p][o]
  PROVE  QuarantinedUpTo(t1, high) = QuarantinedUpTo(t2, high)
  BY DEF QuarantinedUpTo, Slot

\* Moving a cut over one record adds that record if it is quarantined.
LEMMA QuarantinedNext ==
  ASSUME NEW t, NEW high \in Position, NEW p \in Partition,
         NEW s \in QuarantinedUpTo(t, [high EXCEPT ![p] = @ + 1])
  PROVE  \/ s \in QuarantinedUpTo(t, high)
         \/ s = <<p, high[p] + 1>> /\ IsQuarantined(t[p][high[p] + 1])
<1> DEFINE slot == <<p, high[p] + 1>>
           next == [high EXCEPT ![p] = @ + 1]
<1>1. s \in Slot /\ s[2] <= next[s[1]] /\ IsQuarantined(t[s[1]][s[2]])
  BY DEF QuarantinedUpTo
<1>2. s # slot => s[2] <= high[s[1]]
  BY <1>1, MaxRecordsAssumption DEF Slot, Offset, Position
<1> QED
  BY <1>1, <1>2 DEF QuarantinedUpTo

-----------------------------------------------------------------------------
(* No poison record is skipped. *)

\* No step loses a dead letter below a position that has been polled.
LEMMA DeadLetterInductive ==
  ASSUME TypeOK, Control, DeadLetterInv, [Next]_vars PROVE DeadLetterInv'
<1> USE DEF DeadLetterInv
<1>1. ASSUME NEW record \in Record, Produce(record) PROVE DeadLetterInv'
  <2>1. ASSUME NEW high \in Position, Within(high, pos)
        PROVE  QuarantinedUpTo(topic', high) = QuarantinedUpTo(topic, high)
    BY <1>1, <2>1, PrefixKept, QuarantinedSame DEF Control, Ordered
  <2>2. QuarantinedUpTo(topic', done.pos) = QuarantinedUpTo(topic, done.pos)
    BY <2>1 DEF TypeOK, Checkpoints, Control, Ordered
  <2>3. ongoing # Nothing =>
          QuarantinedUpTo(topic', ongoing.pos) = QuarantinedUpTo(topic, ongoing.pos)
    BY <2>1 DEF TypeOK, Checkpoints, Control, Ordered
  <2>4. QuarantinedUpTo(topic', pos) = QuarantinedUpTo(topic, pos)
    BY <2>1, WithinOrder DEF TypeOK
  <2> QED
    BY <1>1, <2>2, <2>3, <2>4
    DEF Produce, job, writers, checkpoints, Sent
<1>2. ASSUME NEW p \in Partition, Poll(p) PROVE DeadLetterInv'
  <2>1. QuarantinedUpTo(topic, pos') \subseteq Sent \cup dlqBuf'
    <3> SUFFICES ASSUME NEW s \in QuarantinedUpTo(topic, pos')
                 PROVE  s \in Sent \cup dlqBuf'
      OBVIOUS
    <3>1. pos' = [pos EXCEPT ![p] = @ + 1] /\ status = "RUNNING"
          /\ dlqBuf \subseteq dlqBuf'
          /\ (IsQuarantined(topic[p][pos[p] + 1])
                => <<p, pos[p] + 1>> \in dlqBuf')
      BY <1>2 DEF Poll
    <3>2. \/ s \in QuarantinedUpTo(topic, pos)
          \/ s = <<p, pos[p] + 1>> /\ IsQuarantined(topic[p][pos[p] + 1])
      BY <3>1, QuarantinedNext DEF TypeOK
    <3> QED
      BY <3>1, <3>2
  <2>2. UNCHANGED <<topic, status, done, ongoing, dlq>>
    BY <1>2 DEF Poll, checkpoints, job
  <2> QED
    BY <2>1, <2>2 DEF Sent
<1>3. ASSUME NEW slot \in dlqBuf, SendDeadLetter(slot) PROVE DeadLetterInv'
  <2>1. Sent' = Sent \cup {slot}
    <3>1. dlq' = Append(dlq, slot) /\ dlq \in Seq(Slot) /\ slot \in Slot
      BY <1>3 DEF SendDeadLetter, TypeOK
    <3> QED
      BY <3>1 DEF Sent
  <2> QED
    BY <1>3, <2>1 DEF SendDeadLetter, checkpoints, job
<1>4. CASE Barrier
  BY <1>4, BarrierTaken DEF Barrier, DeadLettersFlushed, Sent, job
<1>5. CASE CompleteCheckpoint
  BY <1>5 DEF CompleteCheckpoint, Sent, job, writers
<1>6. CASE Crash \/ Cancel
  BY <1>6 DEF Crash, MayRestart, Cancel, StopTasks, Sent
<1>7. CASE Restart
  BY <1>7 DEF Restart, RestartPosition, Sent, writers, checkpoints
<1>8. CASE SubmitAtStart
  <2>1. QuarantinedUpTo(topic, Start) = {}
    BY MaxRecordsAssumption DEF QuarantinedUpTo, Slot, Offset, Start
  <2> QED
    BY <1>8, <2>1
    DEF SubmitAtStart, NoCheckpoint, Checkpoint, Sent, writers
<1>9. CASE CommitOffsets \/ CommitChangelog \/ CommitCurrent
           \/ RecoverChangelog \/ RecoverCurrent \/ (\E k \in Key : OnTimer(k))
           \/ (\E l \in Listener : LoseCallback(l)) \/ UNCHANGED vars
  BY <1>9
  DEF OnTimer, CommitOffsets, CommitChangelog, CommitCurrent, RecoverChangelog,
      RecoverCurrent, LoseCallback, vars, Sent, job, writers, checkpoints
<1> QED
  BY <1>1, <1>2, <1>3, <1>4, <1>5, <1>6, <1>7, <1>8, <1>9
  DEF Next, JobStep, RewindAndResubmit, RebuildFromEarliest

\* An offset is checkpointed or committed to the group only after the dead
\* letter of every record below it not decoded whole is in the dead-letter topic.
THEOREM NoPoisonSkipped == Spec => []QuarantineBeforeCommit
<1>1. Init => DeadLetterInv
  BY MaxRecordsAssumption
  DEF Init, DeadLetterInv, QuarantinedUpTo, NoCheckpoint, Checkpoint, Start, Slot,
      Offset
<1>2. Spec => []DeadLetterInv
  BY <1>1, TypeCorrect, ControlInvariant, DeadLetterInductive, PTL DEF Spec
<1>3. Control /\ DeadLetterInv => QuarantineBeforeCommit
  BY DEF Control, Ordered, DeadLetterInv, QuarantineBeforeCommit, Sent
<1> QED
  BY <1>2, <1>3, ControlInvariant, PTL
-----------------------------------------------------------------------------
(* The append-only table is exactly-once. *)

\* A snapshot of the records between the position shown and the restore point
\* extends the changelog by exactly these.
LEMMA ChangelogGains ==
  ASSUME TypeOK, Control, LogInv, PublishChangelog,
         UNCHANGED <<topic, run, done>>,
         logPend = Slice(topic, shownLog, done.pos)
  PROVE  /\ ChangelogExactlyOnce'
         /\ \A i \in DOMAIN changelog' : changelog'[i].run \in 1 .. run
         /\ shownLog' = done.pos
         /\ done.id > maxId'["changelog"] => done.log = {}
<1> DEFINE before == Slice(topic, Start, shownLog)
           snapshot == [run |-> run, rows |-> logPend]
<1>1. shownLog' = done.pos
  BY DEF PublishChangelog
<1>2. /\ Slice(topic, Start, done.pos) = before \cup logPend
      /\ before \cap logPend = {}
  <2>1. /\ Within(Start, shownLog)
        /\ Within(shownLog, done.pos)
        /\ Start \in Position /\ done.pos \in Position
        /\ shownLog \in Position
    BY WithinOrder, BatchType
    DEF Control, Ordered, TypeOK, Checkpoints, Sink
  <2> QED
    BY <2>1, SliceJoin
<1>3. CASE logPend = {}
  <2>1. UNCHANGED <<changelog, maxId>>
    BY <1>3 DEF PublishChangelog
  <2>2. Published' = Published
    BY <2>1 DEF Published
  <2>3. Published' = Slice(topic', Start, shownLog')
    BY <1>1, <1>2, <1>3, <2>2 DEF LogInv, ChangelogExactlyOnce
  <2> QED
    BY <1>1, <1>3, <2>1, <2>3 DEF LogInv, ChangelogExactlyOnce
<1>4. CASE logPend # {}
  <2>1. /\ changelog' = Append(changelog, snapshot)
        /\ maxId' = [maxId EXCEPT !["changelog"] = done.id]
    BY <1>4 DEF PublishChangelog
  <2>2. /\ changelog \in Seq([run : Nat, rows : SUBSET Slot])
        /\ Len(changelog) \in Nat /\ DOMAIN changelog = 1 .. Len(changelog)
    BY DEF TypeOK
  <2> DEFINE n == Len(changelog)
  <2>3. /\ DOMAIN changelog' = 1 .. (n + 1)
        /\ \A i \in 1 .. n : changelog'[i] = changelog[i]
        /\ changelog'[n + 1] = snapshot
    BY <2>1, <2>2
  <2>4. \A i \in 1 .. n : changelog[i].run = run =>
          changelog[i].rows \subseteq before
    BY <2>2 DEF LogInv, ChangelogExactlyOnce, Published
  <2>5. Published' = Published \cup logPend
    <3>1. DOMAIN changelog' = DOMAIN changelog \cup {n + 1}
      BY <2>2, <2>3
    <3>2. snapshot.run = run /\ snapshot.rows = logPend
      OBVIOUS
    <3>3. \A i \in DOMAIN changelog : changelog'[i] = changelog[i]
      BY <2>2, <2>3
    <3>4. run' = run
      BY <1>1
    <3> QED
      BY <2>3, <3>1, <3>2, <3>3, <3>4 DEF Published
  <2>6. Published' = Slice(topic', Start, shownLog')
    BY <1>1, <1>2, <2>5 DEF LogInv, ChangelogExactlyOnce
  <2>7. ASSUME NEW i \in DOMAIN changelog', NEW j \in DOMAIN changelog',
               i # j, changelog'[i].run = changelog'[j].run
        PROVE  changelog'[i].rows \cap changelog'[j].rows = {}
    <3>1. CASE i \in 1 .. n /\ j \in 1 .. n
      BY <2>2, <2>3, <2>7, <3>1 DEF LogInv, ChangelogExactlyOnce
    <3>2. CASE i = n + 1 /\ j \in 1 .. n
      BY <1>2, <2>3, <2>4, <2>7, <3>2
    <3>3. CASE i \in 1 .. n /\ j = n + 1
      BY <1>2, <2>3, <2>4, <2>7, <3>3
    <3> QED
      BY <2>2, <2>3, <2>7, <3>1, <3>2, <3>3
  <2>8. \A i \in DOMAIN changelog' : changelog'[i].run \in 1 .. run
    <3>1. \A i \in 1 .. n : changelog[i].run \in 1 .. run
      BY <2>2 DEF LogInv
    <3>2. snapshot.run \in 1 .. run
      BY DEF TypeOK
    <3> QED
      BY <2>2, <2>3, <3>1, <3>2
  <2>9. ~(done.id > maxId'["changelog"])
    BY <2>1 DEF TypeOK, Checkpoints, Sink
  <2> QED
    BY <1>1, <2>6, <2>7, <2>8, <2>9 DEF ChangelogExactlyOnce
<1> QED
  BY <1>3, <1>4

\* No step tears what the changelog writer, committer, checkpoint and table
\* hold apart from the ranges of the topic they stand for.
LEMMA LogInductive ==
  ASSUME TypeOK, TypeOK', Control, Control', LogInv, [Next]_vars PROVE LogInv'
<1>1. ASSUME NEW record \in Record, Produce(record) PROVE LogInv'
  <2>1. \A low, high \in Position :
          Within(high, pos) => Slice(topic', low, high) = Slice(topic, low, high)
    <3> SUFFICES ASSUME NEW low \in Position, NEW high \in Position,
                        Within(high, pos)
                 PROVE  Slice(topic', low, high) = Slice(topic, low, high)
      OBVIOUS
    <3>1. \A p \in Partition, o \in Offset :
            o <= high[p] => topic'[p][o] = topic[p][o]
      BY <1>1, PrefixKept DEF Control, Ordered
    <3> QED
      BY <3>1, SliceSame
  <2>2. /\ Within(shownLog, pos) /\ Within(done.pos, pos)
        /\ Within(BarrierPos, pos) /\ Within(pos, pos)
        /\ BarrierPos \in Position /\ shownLog \in Position
        /\ done.pos \in Position /\ pos \in Position /\ Start \in Position
    BY WithinOrder, BatchType
    DEF Control, Ordered, BarrierPos, TypeOK, Checkpoints, Sink
  <2>3. UNCHANGED <<changelog, run, shownLog, done, maxId, status, logBuf, logPend,
                    recovering, ongoing, pos>>
    BY <1>1
    DEF Produce, job, writers, committers, checkpoints, tables
  <2>4. BarrierPos' = BarrierPos /\ Published' = Published
    BY <2>3 DEF BarrierPos, Published
  <2> QED
    BY <2>1, <2>2, <2>3, <2>4 DEF LogInv, ChangelogExactlyOnce
<1>2. ASSUME UNCHANGED <<topic, run, changelog, shownLog>>
      PROVE  /\ ChangelogExactlyOnce'
             /\ \A i \in DOMAIN changelog' : changelog'[i].run \in 1 .. run'
  BY <1>2 DEF LogInv, ChangelogExactlyOnce, Published
<1>3. ASSUME NEW p \in Partition, Poll(p) PROVE LogInv'
  <2>1. /\ pos' = [pos EXCEPT ![p] = @ + 1] /\ status = "RUNNING"
        /\ IsLogged(topic[p][pos[p] + 1]) =>
             logBuf' = logBuf \cup {<<p, pos[p] + 1>>}
        /\ ~IsLogged(topic[p][pos[p] + 1]) => logBuf' = logBuf
        /\ UNCHANGED <<topic, job, committers, checkpoints, recovering, tables>>
    BY <1>3 DEF Poll
  <2>2. /\ BarrierPos \in Position /\ Within(BarrierPos, pos)
        /\ pos \in Position /\ pos[p] + 1 <= MaxRecords
    <3>1. BarrierPos \in Position /\ Within(BarrierPos, pos)
      BY DEF Control, Ordered, BarrierPos, TypeOK, Checkpoints
    <3>2. pos[p] + 1 <= MaxRecords
      BY <1>3, MaxRecordsAssumption DEF Poll, TypeOK, Position
    <3> QED
      BY <3>1, <3>2 DEF TypeOK
  <2>3. /\ IsLogged(topic[p][pos[p] + 1]) =>
             Slice(topic, BarrierPos, pos')
               = Slice(topic, BarrierPos, pos) \cup {<<p, pos[p] + 1>>}
        /\ ~IsLogged(topic[p][pos[p] + 1]) =>
             Slice(topic, BarrierPos, pos') = Slice(topic, BarrierPos, pos)
    <3> DEFINE next == [pos EXCEPT ![p] = @ + 1]
    <3>1. /\ IsLogged(topic[p][pos[p] + 1]) =>
               Slice(topic, BarrierPos, next)
                 = Slice(topic, BarrierPos, pos) \cup {<<p, pos[p] + 1>>}
          /\ ~IsLogged(topic[p][pos[p] + 1]) =>
               Slice(topic, BarrierPos, next) = Slice(topic, BarrierPos, pos)
      BY <2>2, SliceNext
    <3>2. pos' = next
      BY <2>1
    <3> QED
      BY <3>1, <3>2
  <2>4. logBuf' = Slice(topic, BarrierPos, pos')
    BY <2>1, <2>3 DEF LogInv
  <2>5. BarrierPos' = BarrierPos
    BY <2>1 DEF BarrierPos, checkpoints
  <2> QED
    BY <1>2, <2>1, <2>4, <2>5
    DEF LogInv, job, committers, checkpoints, tables
<1>4. CASE Barrier
  <2>1. /\ ongoing = Nothing /\ ongoing'.pos = pos /\ ongoing' # Nothing
        /\ ongoing'.log = logPend \cup logBuf
        /\ logPend' = logPend \cup logBuf /\ logBuf' = {}
        /\ status = "RUNNING" /\ recovering = {}
        /\ UNCHANGED <<topic, job, pos, done, recovering, tables>>
    BY <1>4, BarrierTaken
  <2>2. BarrierPos = done.pos /\ BarrierPos' = pos
    BY <2>1 DEF BarrierPos
  <2>3. Slice(topic, shownLog, pos) = logPend \cup logBuf
    <3>1. logPend = Slice(topic, shownLog, done.pos)
          /\ logBuf = Slice(topic, done.pos, pos)
      BY <2>1, <2>2 DEF LogInv
    <3>2. /\ Within(shownLog, done.pos) /\ Within(done.pos, pos)
          /\ shownLog \in Position /\ done.pos \in Position
          /\ pos \in Position
      BY DEF Control, Ordered, TypeOK, Checkpoints, Sink
    <3> QED
      BY <3>1, <3>2, SliceJoin
  <2>4. Slice(topic, pos, pos) = {}
    BY SliceEmpty DEF TypeOK
  <2> QED
    BY <1>2, <2>1, <2>2, <2>3, <2>4 DEF LogInv, job, tables
<1>5. CASE CompleteCheckpoint
  <2>1. /\ done' = ongoing /\ ongoing # Nothing /\ ongoing' = Nothing
        /\ UNCHANGED <<topic, job, pos, writers, committers, recovering, tables>>
    BY <1>5 DEF CompleteCheckpoint
  <2>2. BarrierPos' = BarrierPos /\ BarrierPos = ongoing.pos
    BY <2>1 DEF BarrierPos
  <2>3. status = "RUNNING" /\ recovering = {} /\ ongoing.log = logPend
    BY <2>1 DEF Control, Phases
  <2>4. logPend = Slice(topic, shownLog, done'.pos)
    BY <2>1, <2>2, <2>3 DEF LogInv
  <2>5. done'.id > maxId["changelog"]
    <3>1. done.id < ongoing.id /\ maxId["changelog"] <= done.id
      BY <2>1 DEF Control, Phases, Ids, Sink
    <3>2. done.id \in Nat /\ ongoing.id \in Nat /\ maxId["changelog"] \in Nat
      BY <2>1 DEF TypeOK, Checkpoints, Sink
    <3> QED BY <2>1, <3>1, <3>2
  <2> QED
    BY <1>2, <2>1, <2>2, <2>3, <2>4, <2>5
    DEF LogInv, job, writers, committers, tables
<1>6. ASSUME UNCHANGED <<topic, job, pos, logBuf, checkpoints>>,
             PublishChangelog, logPend' = {},
             "changelog" \notin recovering', recovering' \subseteq recovering,
             status = "RUNNING", ongoing = Nothing,
             logPend = Slice(topic, shownLog, done.pos)
      PROVE  LogInv'
  <2>1. /\ ChangelogExactlyOnce'
        /\ \A i \in DOMAIN changelog' : changelog'[i].run \in 1 .. run
        /\ shownLog' = done.pos
        /\ done.id > maxId'["changelog"] => done.log = {}
    BY <1>6, ChangelogGains DEF job, checkpoints
  <2>2. Slice(topic, done.pos, done.pos) = {}
    BY SliceEmpty DEF TypeOK, Checkpoints
  <2>3. BarrierPos' = done.pos /\ BarrierPos = done.pos
    BY <1>6 DEF BarrierPos, checkpoints
  <2> QED
    BY <1>6, <2>1, <2>2, <2>3 DEF LogInv, job, checkpoints
<1>7. CASE CommitChangelog
  <2>1. ongoing = Nothing /\ recovering = {} /\ status = "RUNNING"
    BY <1>7 DEF CommitChangelog, Control, Phases, Sink
  <2>2. logPend = Slice(topic, shownLog, done.pos)
    BY <2>1 DEF LogInv, BarrierPos
  <2> QED
    BY <1>6, <1>7, <2>1, <2>2 DEF CommitChangelog, writers
<1>8. CASE RecoverChangelog
  <2>1. /\ ongoing = Nothing /\ status = "RUNNING" /\ logPend = done.log
        /\ "changelog" \in recovering /\ logPend' = {}
        /\ recovering' = recovering \ {"changelog"}
        /\ UNCHANGED <<topic, job, pos, writers, checkpoints>>
    BY <1>8 DEF RecoverChangelog, Control, Phases, LogInv
  <2>2. CASE done.id > maxId["changelog"]
    <3>1. PublishChangelog
      BY <1>8, <2>2 DEF RecoverChangelog
    <3>2. logPend = Slice(topic, shownLog, done.pos)
      BY <2>1, <2>2 DEF LogInv
    <3> QED
      BY <1>6, <2>1, <3>1, <3>2 DEF writers
  <2>3. CASE ~(done.id > maxId["changelog"])
    <3>1. UNCHANGED tables
      BY <1>8, <2>3 DEF RecoverChangelog
    <3>2. BarrierPos' = done.pos /\ BarrierPos = done.pos
      BY <2>1 DEF BarrierPos, checkpoints
    <3>3. Slice(topic, shownLog, done.pos) = {}
      BY <2>3 DEF LogInv
    <3> QED
      BY <1>2, <2>1, <3>1, <3>2, <3>3
      DEF LogInv, job, writers, checkpoints, tables
  <2> QED
    BY <2>2, <2>3
<1>9. CASE CommitCurrent \/ RecoverCurrent
  <2>1. /\ UNCHANGED <<topic, job, pos, writers, logPend, checkpoints, changelog>>
        /\ recovering' \cap {"changelog"} = recovering \cap {"changelog"}
        /\ shownLog' = shownLog
        /\ maxId'["changelog"] = maxId["changelog"]
    BY <1>9
    DEF CommitCurrent, RecoverCurrent, PublishCurrent, TypeOK, Sink, tables
  <2>2. BarrierPos' = BarrierPos /\ Published' = Published
    BY <2>1 DEF BarrierPos, Published, checkpoints, job
  <2> QED
    BY <2>1, <2>2 DEF LogInv, ChangelogExactlyOnce, job, writers, checkpoints
<1>10. CASE Crash \/ Cancel
  <2>1. /\ UNCHANGED <<topic, run, done, tables>>
        /\ status' # "RUNNING" /\ recovering' = {}
    BY <1>10 DEF Crash, MayRestart, Cancel, StopTasks
  <2> QED
    BY <1>2, <2>1 DEF LogInv, tables
<1>11. CASE Restart
  <2>1. /\ pos' = done.pos /\ logPend' = done.log /\ recovering' = Sink
        /\ logBuf' = {} /\ ongoing' = Nothing
        /\ UNCHANGED <<topic, run, done, tables>>
    BY <1>11
    DEF Restart, RestartPosition, Control, Phases, job, writers, checkpoints
  <2>2. BarrierPos' = done.pos
    BY <2>1 DEF BarrierPos
  <2>3. Slice(topic, done.pos, done.pos) = {}
    BY SliceEmpty DEF TypeOK, Checkpoints
  <2> QED
    BY <1>2, <2>1, <2>2, <2>3 DEF LogInv, tables, Sink
<1>12. ASSUME SubmitAtStart,
              changelog' = changelog \/ changelog' = <<>>
       PROVE  LogInv'
  <2>1. /\ topic' = topic /\ run' = run + 1 /\ pos' = Start
        /\ done'.pos = Start /\ done'.id = 0 /\ done'.log = {}
        /\ ongoing' = Nothing /\ recovering' = {}
        /\ logBuf' = {} /\ logPend' = {}
        /\ shownLog' = Start /\ maxId'["changelog"] = 0
    <3>1. status # "RUNNING"
      BY <1>12 DEF SubmitAtStart
    <3>2. ongoing = Nothing /\ recovering = {} /\ logBuf = {} /\ logPend = {}
      BY <3>1 DEF Control, Phases
    <3> QED
      BY <1>12, <3>2
      DEF SubmitAtStart, NoCheckpoint, Checkpoint, Sink, writers, committers
  <2>2. Slice(topic, Start, Start) = {}
    BY SliceEmpty, BatchType
  <2>3. \A i \in DOMAIN changelog' :
          changelog'[i].run \in 1 .. run' /\ changelog'[i].run # run'
    <3>1. CASE changelog' = <<>>
      BY <3>1
    <3>2. CASE changelog' = changelog
      BY <2>1, <3>2 DEF LogInv, TypeOK
    <3> QED
      BY <1>12, <3>1, <3>2
  <2>4. Published' = {}
    BY <2>3 DEF Published
  <2>5. BarrierPos' = Start
    BY <2>1 DEF BarrierPos
  <2> QED
    <3>1. \A i, j \in DOMAIN changelog' :
            i # j /\ changelog'[i].run = changelog'[j].run
              => changelog'[i].rows \cap changelog'[j].rows = {}
      BY <1>12 DEF LogInv, ChangelogExactlyOnce
    <3> QED
      BY <2>1, <2>2, <2>3, <2>4, <2>5, <3>1 DEF LogInv, ChangelogExactlyOnce
<1>13. CASE \/ \E slot \in dlqBuf : SendDeadLetter(slot)
            \/ \E k \in Key : OnTimer(k)
            \/ CommitOffsets \/ (\E l \in Listener : LoseCallback(l))
            \/ UNCHANGED vars
  <2>1. UNCHANGED <<topic, job, pos, logBuf, logPend, checkpoints, recovering,
                    tables>>
    BY <1>13
    DEF OnTimer, SendDeadLetter, CommitOffsets, LoseCallback, vars, writers,
        committers
  <2>2. BarrierPos' = BarrierPos
    BY <2>1 DEF BarrierPos, checkpoints
  <2> QED
    BY <1>2, <2>1, <2>2 DEF LogInv, job, checkpoints, tables
<1> QED
  BY <1>1, <1>3, <1>4, <1>5, <1>7, <1>8, <1>9, <1>10, <1>11, <1>12, <1>13
  DEF Next, JobStep, RewindAndResubmit, RebuildFromEarliest

\* What the changelog path holds at each stage is exactly the range of the
\* topic between the positions of two stages.
THEOREM LogInvariant == Spec => []LogInv
<1>1. Init => LogInv
  <2> SUFFICES ASSUME Init PROVE LogInv
    OBVIOUS
  <2>1. Slice(topic, Start, Start) = {}
    BY SliceEmpty, BatchType
  <2>2. Published = {}
    BY DEF Init, Published
  <2> QED
    BY <2>1, <2>2
    DEF Init, LogInv, ChangelogExactlyOnce, BarrierPos, NoCheckpoint,
        Checkpoint, Sink
<1> QED
  BY <1>1, TypeCorrect, ControlInvariant, LogInductive, PTL DEF Spec

\* Whatever crashes, lost callbacks, restores and resubmissions happened, the
\* snapshots one submission appended to orders_changelog repeat no record and
\* hold exactly the changelog records up to the position the table shows.
THEOREM ExactlyOnce == Spec => []ChangelogExactlyOnce
<1>1. LogInv => ChangelogExactlyOnce
  BY DEF LogInv
<1> QED
  BY <1>1, LogInvariant, PTL
-----------------------------------------------------------------------------
(* What a range says of a key. *)

\* What a range says of a key does not change while its records do not.
LEMMA SaysSame ==
  ASSUME NEW t1, NEW t2, NEW low, NEW high, NEW k \in Key, NEW entry,
         \A o \in Offset : o <= high => t1[PartitionOf[k]][o] = t2[PartitionOf[k]][o]
  PROVE  Says(t1, k, low, high, entry) <=> Says(t2, k, low, high, entry)
<1> DEFINE p == PartitionOf[k]
<1>1. OffsetsOf(t1, k, low, high) = OffsetsOf(t2, k, low, high)
  BY DEF OffsetsOf
<1>2. \A o \in OffsetsOf(t1, k, low, high) : t1[p][o] = t2[p][o]
  BY DEF OffsetsOf
<1> QED
  BY <1>1, <1>2 DEF Says

\* An empty range says nothing of any key.
LEMMA SaysEmpty ==
  ASSUME NEW t, NEW at \in Nat, NEW k \in Key
  PROVE  Says(t, k, at, at, Untouched)
  BY DEF Says, OffsetsOf, Offset

\* Adjacent ranges: the later one decides unless it says nothing.
LEMMA SaysJoin ==
  ASSUME NEW t, NEW k \in Key, NEW low \in Nat, NEW mid \in Nat,
         NEW high \in Nat, low <= mid, mid <= high,
         NEW early, NEW late,
         Says(t, k, low, mid, early), Says(t, k, mid, high, late)
  PROVE  Says(t, k, low, high, IF late = Untouched THEN early ELSE late)
<1> DEFINE p == PartitionOf[k]
           E == OffsetsOf(t, k, low, mid)
           L == OffsetsOf(t, k, mid, high)
           Both == OffsetsOf(t, k, low, high)
<1>1. Both = E \cup L /\ (\A o \in E, u \in L : o < u)
      /\ E \subseteq Nat /\ L \subseteq Nat
  BY DEF OffsetsOf, Offset
<1>2. \A o \in L : t[p][o].payload # Untouched
  BY MarkersAssumption DEF OffsetsOf, IsDecoded, Row
<1>3. /\ \/ early = Untouched /\ E = {}
         \/ \E o \in E : early = t[p][o].payload /\ \A u \in E : u <= o
      /\ \/ late = Untouched /\ L = {}
         \/ \E o \in L : late = t[p][o].payload /\ \A u \in L : u <= o
  BY DEF Says
<1>4. Says(t, k, low, high, IF late = Untouched THEN early ELSE late)
      <=> LET entry == IF late = Untouched THEN early ELSE late
          IN  \/ entry = Untouched /\ Both = {}
              \/ \E o \in Both : /\ entry = t[p][o].payload
                                 /\ \A u \in Both : u <= o
  BY DEF Says
<1> HIDE DEF E, L, Both, p
<1>5. CASE late = Untouched
  <2>1. L = {}
    BY <1>2, <1>3, <1>5
  <2> QED
    BY <1>1, <1>3, <1>4, <1>5, <2>1
<1>6. CASE late # Untouched
  <2>1. PICK o \in L : late = t[p][o].payload /\ \A u \in L : u <= o
    BY <1>3, <1>6
  <2>2. o \in Both /\ \A u \in Both : u <= o
    BY <1>1, <2>1
  <2> QED
    BY <1>4, <1>6, <2>1, <2>2
<1> QED
  BY <1>5, <1>6

\* One more record of the key's partition: it decides for its key if it is
\* decoded.
LEMMA SaysNext ==
  ASSUME NEW t, NEW k \in Key, NEW low \in Nat, NEW high \in Nat,
         low <= high, high + 1 <= MaxRecords,
         NEW before, Says(t, k, low, high, before), NEW after,
         LET record == t[PartitionOf[k]][high + 1]
         IN  after = IF record.key = k /\ IsDecoded(record)
                     THEN record.payload ELSE before
  PROVE  Says(t, k, low, high + 1, after)
<1> DEFINE p == PartitionOf[k]
           last == high + 1
           Old == OffsetsOf(t, k, low, high)
           New == OffsetsOf(t, k, low, last)
<1>1. last \in Offset /\ low < last /\ ~(last <= high)
      /\ \A o \in Offset : o <= last <=> o <= high \/ o = last
  BY MaxRecordsAssumption DEF Offset
<1>2. /\ \/ before = Untouched /\ Old = {}
         \/ \E o \in Old : before = t[p][o].payload /\ \A u \in Old : u <= o
      /\ \A o \in Old : o <= last
  BY DEF Says, OffsetsOf, Offset
<1>3. (\/ after = Untouched /\ New = {}
       \/ \E o \in New : after = t[p][o].payload /\ \A u \in New : u <= o)
      => Says(t, k, low, last, after)
  BY DEF Says
<1>4. CASE t[p][last].key = k /\ IsDecoded(t[p][last])
  <2>1. New = Old \cup {last}
    BY <1>1, <1>4 DEF OffsetsOf
  <2>2. after = t[p][last].payload
    BY <1>4
  <2>3. last \in New /\ \A u \in New : u <= last
    BY <1>1, <1>2, <2>1
  <2> QED
    BY <1>3, <2>2, <2>3
<1>5. CASE ~(t[p][last].key = k /\ IsDecoded(t[p][last]))
  <2>1. New = Old
    BY <1>1, <1>5 DEF OffsetsOf
  <2>2. after = before
    BY <1>5
  <2> QED
    BY <1>2, <1>3, <2>1, <2>2
<1> QED
  BY <1>4, <1>5
-----------------------------------------------------------------------------
(* The current table is a cut. *)

\* The partitioner alone decides where a record is.
Routed ==
  \A p \in Partition : \A o \in 1 .. Len(topic[p]) : PartitionOf[topic[p][o].key] = p

\* Every record stays in the partition of its key.
LEMMA RoutedInductive ==
  ASSUME TypeOK, Routed, [Next]_vars PROVE Routed'
<1>1. ASSUME NEW record \in Record, Produce(record) PROVE Routed'
  <2> DEFINE q == PartitionOf[record.key]
             longer == Append(topic[q], record)
  <2>1. q \in Partition /\ topic[q] \in Seq(Record)
    BY PartitionAssumption DEF Record, TypeOK
  <2>2. \A p \in Partition : topic'[p] = IF p = q THEN longer ELSE topic[p]
    BY <1>1, <2>1 DEF Produce, TypeOK
  <2>3. /\ Len(longer) = Len(topic[q]) + 1 /\ Len(topic[q]) \in Nat
        /\ \A o \in 1 .. Len(topic[q]) : longer[o] = topic[q][o]
        /\ longer[Len(topic[q]) + 1] = record
    BY <2>1
  <2>4. PartitionOf[record.key] = q
    OBVIOUS
  <2> HIDE DEF longer, q
  <2> SUFFICES ASSUME NEW p \in Partition, NEW o \in 1 .. Len(topic'[p])
               PROVE  PartitionOf[topic'[p][o].key] = p
    BY DEF Routed
  <2>5. CASE p = q /\ o = Len(topic[q]) + 1
    BY <2>2, <2>3, <2>4, <2>5
  <2>6. CASE ~(p = q /\ o = Len(topic[q]) + 1)
    <3>1. o \in 1 .. Len(topic[p]) /\ topic'[p][o] = topic[p][o]
      BY <2>2, <2>3, <2>6
    <3> QED
      BY <3>1 DEF Routed
  <2> QED
    BY <2>5, <2>6
<1>2. CASE UNCHANGED topic
  BY <1>2 DEF Routed
<1> QED
  BY <1>1, <1>2
  DEF Next, JobStep, Poll, SendDeadLetter, Barrier, CompleteCheckpoint,
      CommitOffsets, CommitChangelog, CommitCurrent, LoseCallback, Crash, Cancel,
      StopTasks, Restart, OnTimer, RecoverChangelog, RecoverCurrent, RewindAndResubmit,
      RebuildFromEarliest, SubmitAtStart, vars

\* The offsets of one key at the stages of the pipeline, in their order.
LEMMA Stages ==
  ASSUME TypeOK, Control, KeyControl, NEW k \in Key
  PROVE  /\ shownCur[k] \in Nat /\ done.through[k] \in Nat
         /\ BarrierThrough[k] \in Nat /\ through[k] \in Nat
         /\ done.pos[PartitionOf[k]] \in Nat /\ pos[PartitionOf[k]] \in Nat
         /\ shownCur[k] <= done.through[k]
         /\ done.through[k] <= BarrierThrough[k]
         /\ BarrierThrough[k] <= through[k]
         /\ through[k] <= pos[PartitionOf[k]]
         /\ done.through[k] <= done.pos[PartitionOf[k]]
         /\ done.pos[PartitionOf[k]] <= pos[PartitionOf[k]]
         /\ ongoing # Nothing =>
              /\ ongoing.through[k] \in Nat
              /\ ongoing.through[k] <= ongoing.pos[PartitionOf[k]]
              /\ ongoing.pos[PartitionOf[k]] <= pos[PartitionOf[k]]
              /\ ongoing.pos[PartitionOf[k]] \in Nat
<1> DEFINE p == PartitionOf[k]
<1>1. p \in Partition
  BY PartitionAssumption
<1>2. /\ shownCur[k] \in Nat /\ done.through[k] \in Nat /\ through[k] \in Nat
      /\ done.pos[p] \in Nat /\ pos[p] \in Nat
      /\ ongoing # Nothing => ongoing.through[k] \in Nat /\ ongoing.pos[p] \in Nat
  BY KeyTypes, KeyOffsets
<1>3. /\ ForKeys(done.pos)[k] = done.pos[p] /\ ForKeys(pos)[k] = pos[p]
      /\ ongoing # Nothing => ForKeys(ongoing.pos)[k] = ongoing.pos[p]
  BY KeyTypes, ForKeysType
<1>4. done.pos[p] <= pos[p] /\ (ongoing # Nothing => ongoing.pos[p] <= pos[p])
  BY <1>1 DEF Control, Ordered, Within
<1>5. /\ shownCur[k] <= done.through[k] /\ done.through[k] <= done.pos[p]
      /\ done.through[k] <= through[k] /\ through[k] <= pos[p]
      /\ ongoing # Nothing =>
           /\ done.through[k] <= ongoing.through[k]
           /\ ongoing.through[k] <= through[k]
           /\ ongoing.through[k] <= ongoing.pos[p]
  BY <1>3 DEF KeyControl, KeysOrdered, KeysWithin
<1> QED
  BY <1>2, <1>4, <1>5 DEF BarrierThrough

\* A snapshot of what the records between the offsets shown and those of the
\* restore point say moves the rows of the current table to the latter.
LEMMA CurrentGains ==
  ASSUME TypeOK, Control, KeyControl, KeyControl', CurInv, PublishCurrent,
         UNCHANGED <<topic, done, replaying>>,
         \A k \in Key : Says(topic, k, shownCur[k], done.through[k], curPend[k])
  PROVE  /\ CurrentIsACut'
         /\ done.id > maxId'["current"] => curPend = EmptyBatch
<1>1. shownCur' = done.through
  BY DEF PublishCurrent
<1>2. done.id > maxId'["current"] => curPend = EmptyBatch
  BY DEF PublishCurrent, TypeOK, Checkpoints, Sink
<1>3. ASSUME NEW k \in Key
      PROVE  current'[k] = IF curPend[k] = Untouched THEN current[k] ELSE curPend[k]
  BY DEF PublishCurrent, EmptyBatch, Overlay
<1>4. ASSUME NEW k \in Key PROVE RowIsLast(k, shownCur[k])'
  <2>1. PICK early \in Row \cup {Untouched} :
          /\ Says(topic, k, 0, shownCur[k], early)
          /\ early # Untouched => current[k] = early
    BY DEF CurInv, CurrentIsACut, RowIsLast
  <2> DEFINE entry == IF curPend[k] = Untouched THEN early ELSE curPend[k]
  <2>2. /\ shownCur[k] \in Nat /\ done.through[k] \in Nat
        /\ 0 <= shownCur[k] /\ shownCur[k] <= done.through[k]
    BY Stages
  <2>3. Says(topic, k, 0, done.through[k], entry)
    BY <2>1, <2>2, SaysJoin
  <2>4. entry \in Row \cup {Untouched}
    BY DEF TypeOK, Batch
  <2>5. entry # Untouched => current'[k] = entry
    BY <1>3, <2>1
  <2> QED
    BY <1>1, <2>3, <2>4, <2>5 DEF RowIsLast
<1>5. (replaying \/ \E cut \in Position : shownCur = ForKeys(cut))'
  BY DEF KeyControl, NothingHeld
<1> QED
  BY <1>2, <1>4, <1>5 DEF CurrentIsACut

\* Polling a record extends what the coalescer and the writer say of each key
\* by that record.
LEMMA PollSays ==
  ASSUME TypeOK, Control, KeyControl, Routed, CurInv, NEW p \in Partition, Poll(p),
         NEW k \in Key
  PROVE  /\ Says(topic, k, BarrierThrough[k], through'[k], curBuf'[k])
         /\ Says(topic, k, through'[k], pos'[PartitionOf[k]], held'[k])
<1> DEFINE q == PartitionOf[k]
           record == topic[p][pos[p] + 1]
           Mine == q = p /\ record.key = k /\ IsDecoded(record)
<1>1. /\ pos' = [pos EXCEPT ![p] = @ + 1] /\ status = "RUNNING"
      /\ through'[k] = IF held'[k] = Untouched THEN pos'[q] ELSE through[k]
      /\ pos[p] < Len(topic[p])
  BY DEF Poll, LetThrough
<1>2. /\ BarrierThrough[k] \in Nat /\ through[k] \in Nat /\ pos[q] \in Nat
      /\ BarrierThrough[k] <= through[k] /\ through[k] <= pos[q]
  BY Stages
<1>3. pos[p] + 1 \in 1 .. Len(topic[p]) /\ pos[p] + 1 <= MaxRecords
  <2>1. pos[p] \in Nat /\ Len(topic[p]) \in Nat /\ Len(topic[p]) <= MaxRecords
    BY KeyTypes, KeyOffsets DEF TypeOK
  <2> QED
    BY <1>1, <2>1, MaxRecordsAssumption
<1>4. PartitionOf[record.key] = p /\ record.key \in Key
  <2>1. record \in Record
    BY <1>3 DEF TypeOK
  <2> QED
    BY <1>3, <2>1 DEF Routed, Record
<1>5. pos'[q] = IF q = p THEN pos[q] + 1 ELSE pos[q]
  BY <1>1, PartitionAssumption DEF TypeOK, Position
<1>6. /\ Says(topic, k, BarrierThrough[k], through[k], curBuf[k])
      /\ Says(topic, k, through[k], pos[q], held[k])
  BY <1>1 DEF CurInv
<1>7. held[k] \in Row \cup {Untouched} /\ Untouched \notin Row
  BY MarkersAssumption DEF TypeOK, Batch, Row
<1>8. ASSUME NEW low \in Nat, low <= pos[q], NEW before, NEW after,
             Says(topic, k, low, pos[q], before),
             after = IF Mine THEN record.payload ELSE before
      PROVE  Says(topic, k, low, pos'[q], after)
  <2>1. CASE q = p
    BY <1>2, <1>3, <1>5, <1>8, <2>1, SaysNext
  <2>2. CASE q # p
    BY <1>5, <1>8, <2>2
  <2> QED
    BY <2>1, <2>2
<1> HIDE DEF Mine
<1>9. CASE replaying \/ ~IsDecoded(record)
  <2>1. /\ curBuf' = curBuf
        /\ held'[k] = IF Mine THEN record.payload ELSE held[k]
    BY <1>4, <1>9 DEF Poll, Mine, TypeOK, Batch
  <2>2. Says(topic, k, through[k], pos'[q], held'[k])
    BY <1>2, <1>6, <1>8, <2>1
  <2>3. CASE held'[k] = Untouched
    <3>1. Says(topic, k, BarrierThrough[k], pos'[q], curBuf[k])
      BY <1>2, <1>5, <1>6, <2>2, <2>3, SaysJoin
    <3>2. Says(topic, k, pos'[q], pos'[q], Untouched)
      BY <1>2, <1>5, SaysEmpty
    <3> QED
      BY <1>1, <2>1, <2>3, <3>1, <3>2
  <2>4. CASE held'[k] # Untouched
    BY <1>1, <1>6, <2>1, <2>2, <2>4
  <2> QED
    BY <2>3, <2>4
<1>10. CASE ~replaying /\ IsDecoded(record)
  <2>1. /\ held' = held
        /\ curBuf'[k] = IF Mine THEN record.payload ELSE curBuf[k]
    BY <1>4, <1>10 DEF Poll, Mine, TypeOK, Batch
  <2>2. held[k] = Untouched /\ through[k] = pos[q]
    BY <1>10, ForKeysType, KeyTypes DEF KeyControl, NothingHeld, EmptyBatch
  <2>3. Says(topic, k, BarrierThrough[k], pos'[q], curBuf'[k])
    BY <1>2, <1>6, <1>8, <2>1, <2>2
  <2>4. Says(topic, k, pos'[q], pos'[q], Untouched)
    BY <1>2, <1>5, SaysEmpty
  <2> QED
    BY <1>1, <2>1, <2>2, <2>3, <2>4
<1> QED
  BY <1>9, <1>10

\* No step tears the batches of the upsert path apart from the ranges of the
\* topic they stand for.
LEMMA CurInductive ==
  ASSUME TypeOK, TypeOK', Control, Control', KeyControl, KeyControl', Routed,
         CurInv, [Next]_vars
  PROVE  CurInv'
<1>1. ASSUME NEW record \in Record, Produce(record) PROVE CurInv'
  <2>1. ASSUME NEW low, NEW high \in Nat, NEW k \in Key,
               high <= pos[PartitionOf[k]], NEW entry
        PROVE  Says(topic', k, low, high, entry) <=> Says(topic, k, low, high, entry)
    <3>1. \A p \in Partition, o \in Offset :
            o <= pos[p] => topic'[p][o] = topic[p][o]
      BY <1>1, PrefixKept, WithinOrder DEF Control, Ordered, TypeOK
    <3>2. \A o \in Offset : o <= high => o <= pos[PartitionOf[k]]
      BY <2>1, Stages DEF Offset
    <3>3. \A o \in Offset :
            o <= high => topic'[PartitionOf[k]][o] = topic[PartitionOf[k]][o]
      BY <3>1, <3>2, PartitionAssumption
    <3> QED
      BY <3>3, SaysSame
  <2>2. UNCHANGED <<current, replaying, shownCur, done, maxId, status, curBuf,
                    held, through, curPend, recovering, ongoing, pos>>
    BY <1>1
    DEF Produce, job, coalescer, writers, committers, checkpoints, tables
  <2>3. BarrierThrough' = BarrierThrough
    BY <2>2 DEF BarrierThrough
  <2>4. ASSUME NEW k \in Key
        PROVE  /\ shownCur[k] \in Nat /\ shownCur[k] <= pos[PartitionOf[k]]
               /\ done.through[k] \in Nat /\ done.through[k] <= pos[PartitionOf[k]]
               /\ BarrierThrough[k] \in Nat
               /\ BarrierThrough[k] <= pos[PartitionOf[k]]
               /\ through[k] \in Nat /\ through[k] <= pos[PartitionOf[k]]
               /\ done.pos[PartitionOf[k]] \in Nat
               /\ done.pos[PartitionOf[k]] <= pos[PartitionOf[k]]
               /\ pos[PartitionOf[k]] \in Nat
               /\ pos[PartitionOf[k]] <= pos[PartitionOf[k]]
               /\ ongoing # Nothing =>
                    /\ ongoing.pos[PartitionOf[k]] \in Nat
                    /\ ongoing.pos[PartitionOf[k]] <= pos[PartitionOf[k]]
    BY Stages
  <2>5. CurrentIsACut'
    BY <2>1, <2>2, <2>4 DEF CurInv, CurrentIsACut, RowIsLast
  <2>6. \A k \in Key :
          /\ Says(topic', k, shownCur[k], done.through[k],
                  IF done.id > maxId["current"] THEN done.cur[k] ELSE Untouched)
          /\ Says(topic', k, done.through[k], done.pos[PartitionOf[k]], done.held[k])
          /\ ongoing # Nothing =>
               Says(topic', k, ongoing.through[k], ongoing.pos[PartitionOf[k]],
                    ongoing.held[k])
    BY <2>1, <2>4 DEF CurInv
  <2>7. /\ status = "RUNNING" =>
             \A k \in Key :
               /\ Says(topic', k, BarrierThrough[k], through[k], curBuf[k])
               /\ Says(topic', k, through[k], pos[PartitionOf[k]], held[k])
        /\ status = "RUNNING" /\ "current" \notin recovering =>
             \A k \in Key :
               Says(topic', k, shownCur[k], BarrierThrough[k], curPend[k])
    BY <2>1, <2>4 DEF CurInv
  <2> QED
    BY <2>2, <2>3, <2>5, <2>6, <2>7 DEF CurInv
<1>2. ASSUME UNCHANGED <<topic, current, shownCur, replaying>>
      PROVE  CurrentIsACut'
  BY <1>2 DEF CurInv, CurrentIsACut, RowIsLast
<1>3. ASSUME NEW p \in Partition, Poll(p) PROVE CurInv'
  <2>1. UNCHANGED <<topic, status, replaying, curPend, done, ongoing, recovering,
                    current, maxId, shownCur>>
    BY <1>3 DEF Poll, job, committers, checkpoints, tables
  <2>2. BarrierThrough' = BarrierThrough
    BY <2>1 DEF BarrierThrough
  <2>3. \A k \in Key :
          /\ Says(topic, k, BarrierThrough[k], through'[k], curBuf'[k])
          /\ Says(topic, k, through'[k], pos'[PartitionOf[k]], held'[k])
    BY <1>3, PollSays
  <2> QED
    BY <1>2, <2>1, <2>2, <2>3 DEF CurInv
<1>4. ASSUME NEW k \in Key, OnTimer(k) PROVE CurInv'
  <2>1. /\ UNCHANGED <<topic, status, replaying, pos, curPend, done, ongoing,
                       recovering, current, maxId, shownCur>>
        /\ held[k] # Untouched /\ status = "RUNNING"
    BY <1>4 DEF OnTimer, job, committers, checkpoints, tables
  <2>2. BarrierThrough' = BarrierThrough
    BY <2>1 DEF BarrierThrough
  <2>3. /\ curBuf'[k] = held[k] /\ held'[k] = Untouched
        /\ through'[k] = pos[PartitionOf[k]]
        /\ \A other \in Key \ {k} : /\ curBuf'[other] = curBuf[other]
                                    /\ held'[other] = held[other]
                                    /\ through'[other] = through[other]
    BY <1>4 DEF OnTimer, TypeOK, Batch, KeyPosition
  <2>4. /\ Says(topic, k, BarrierThrough[k], through[k], curBuf[k])
        /\ Says(topic, k, through[k], pos[PartitionOf[k]], held[k])
    BY <2>1 DEF CurInv
  <2>5. /\ Says(topic, k, BarrierThrough[k], through'[k], curBuf'[k])
        /\ Says(topic, k, through'[k], pos[PartitionOf[k]], held'[k])
    <3>1. /\ BarrierThrough[k] \in Nat /\ through[k] \in Nat
          /\ pos[PartitionOf[k]] \in Nat
          /\ BarrierThrough[k] <= through[k] /\ through[k] <= pos[PartitionOf[k]]
      BY Stages
    <3>2. Says(topic, k, BarrierThrough[k], pos[PartitionOf[k]], held[k])
      BY <2>1, <2>4, <3>1, SaysJoin
    <3>3. Says(topic, k, pos[PartitionOf[k]], pos[PartitionOf[k]], Untouched)
      BY <3>1, SaysEmpty
    <3> QED
      BY <2>3, <3>2, <3>3
  <2>6. \A other \in Key :
          /\ Says(topic, other, BarrierThrough[other], through'[other], curBuf'[other])
          /\ Says(topic, other, through'[other], pos[PartitionOf[other]], held'[other])
    BY <2>1, <2>3, <2>5 DEF CurInv
  <2> QED
    BY <1>2, <2>1, <2>2, <2>6 DEF CurInv
<1>5. CASE Barrier
  <2>1. /\ ongoing = Nothing /\ ongoing' # Nothing
        /\ ongoing'.pos = pos /\ ongoing'.through = through /\ ongoing'.held = held
        /\ curPend' = Overlay(curPend, curBuf) /\ curBuf' = EmptyBatch
        /\ status = "RUNNING" /\ recovering = {}
        /\ UNCHANGED <<topic, status, replaying, pos, held, through, done,
                       recovering, current, maxId, shownCur>>
    BY <1>5, BarrierTaken DEF job, coalescer, tables
  <2>2. BarrierThrough = done.through /\ BarrierThrough' = through
    BY <2>1 DEF BarrierThrough
  <2>3. ASSUME NEW k \in Key
        PROVE  /\ Says(topic, k, shownCur[k], through[k], curPend'[k])
               /\ Says(topic, k, through[k], through[k], curBuf'[k])
    <3>1. /\ Says(topic, k, shownCur[k], done.through[k], curPend[k])
          /\ Says(topic, k, done.through[k], through[k], curBuf[k])
      BY <2>1, <2>2 DEF CurInv
    <3>2. /\ shownCur[k] \in Nat /\ done.through[k] \in Nat /\ through[k] \in Nat
          /\ shownCur[k] <= done.through[k] /\ done.through[k] <= through[k]
      BY <2>2, Stages
    <3>3. curPend'[k] = IF curBuf[k] = Untouched THEN curPend[k] ELSE curBuf[k]
      BY <2>1 DEF Overlay
    <3>4. curBuf'[k] = Untouched
      BY <2>1 DEF EmptyBatch
    <3> QED
      BY <3>1, <3>2, <3>3, <3>4, SaysJoin, SaysEmpty
  <2> QED
    BY <1>2, <2>1, <2>2, <2>3 DEF CurInv
<1>6. CASE CompleteCheckpoint
  <2>1. /\ done' = ongoing /\ ongoing # Nothing /\ ongoing' = Nothing
        /\ UNCHANGED <<topic, status, replaying, pos, held, through, curBuf,
                       curPend, recovering, current, maxId, shownCur>>
    BY <1>6
    DEF CompleteCheckpoint, job, coalescer, writers, committers, tables
  <2>2. BarrierThrough' = BarrierThrough /\ BarrierThrough = ongoing.through
    BY <2>1 DEF BarrierThrough
  <2>3. status = "RUNNING" /\ recovering = {} /\ ongoing.cur = curPend
    BY <2>1 DEF Control, Phases
  <2>4. \A k \in Key :
          Says(topic, k, shownCur[k], done'.through[k], done'.cur[k])
    BY <2>1, <2>2, <2>3 DEF CurInv
  <2>5. done'.id > maxId["current"]
    <3>1. done.id < ongoing.id /\ maxId["current"] <= done.id
      BY <2>1 DEF Control, Phases, Ids, Sink
    <3>2. done.id \in Nat /\ ongoing.id \in Nat /\ maxId["current"] \in Nat
      BY <2>1 DEF TypeOK, Checkpoints, Sink
    <3> QED BY <2>1, <3>1, <3>2
  <2> QED
    BY <1>2, <2>1, <2>2, <2>3, <2>4, <2>5 DEF CurInv
<1>7. ASSUME UNCHANGED <<topic, status, replaying, pos, held, through, curBuf,
                         done, ongoing>>,
             PublishCurrent, curPend' = EmptyBatch,
             "current" \notin recovering', status = "RUNNING",
             ongoing = Nothing,
             \A k \in Key : Says(topic, k, shownCur[k], done.through[k], curPend[k]),
             done.id > maxId["current"] => done.cur = curPend
      PROVE  CurInv'
  <2>1. /\ CurrentIsACut'
        /\ done.id > maxId'["current"] => curPend = EmptyBatch
    BY <1>7, CurrentGains
  <2>2. shownCur' = done.through
    BY <1>7 DEF PublishCurrent
  <2>3. done.id > maxId'["current"] => done.cur = EmptyBatch
    BY <1>7, <2>1 DEF PublishCurrent
  <2>4. \A k \in Key :
          /\ Says(topic, k, done.through[k], done.through[k], Untouched)
          /\ EmptyBatch[k] = Untouched
    BY Stages, SaysEmpty DEF EmptyBatch
  <2>5. BarrierThrough' = done.through /\ BarrierThrough = done.through
    BY <1>7 DEF BarrierThrough
  <2> QED
    BY <1>7, <2>1, <2>2, <2>3, <2>4, <2>5 DEF CurInv
<1>8. CASE CommitCurrent
  <2>1. ongoing = Nothing /\ recovering = {} /\ status = "RUNNING"
    BY <1>8 DEF CommitCurrent, Control, Phases, Sink
  <2>2. \A k \in Key : Says(topic, k, shownCur[k], done.through[k], curPend[k])
    BY <2>1 DEF CurInv, BarrierThrough
  <2>3. curPend = done.cur
    BY <1>8 DEF CommitCurrent, Control, Phases
  <2> QED
    BY <1>7, <1>8, <2>1, <2>2, <2>3
    DEF CommitCurrent, job, coalescer, writers, checkpoints
<1>9. CASE RecoverCurrent
  <2>1. /\ ongoing = Nothing /\ status = "RUNNING" /\ curPend = done.cur
        /\ curPend' = EmptyBatch /\ "current" \notin recovering'
        /\ UNCHANGED <<topic, status, replaying, pos, held, through, curBuf,
                       done, ongoing>>
    BY <1>9
    DEF RecoverCurrent, Control, Phases, CurInv, job, coalescer, writers,
        checkpoints
  <2>2. CASE done.id > maxId["current"]
    <3>1. PublishCurrent
      BY <1>9, <2>2 DEF RecoverCurrent
    <3>2. \A k \in Key : Says(topic, k, shownCur[k], done.through[k], curPend[k])
      BY <2>1, <2>2 DEF CurInv
    <3> QED
      BY <1>7, <2>1, <3>1, <3>2
  <2>3. CASE ~(done.id > maxId["current"])
    <3>1. UNCHANGED <<current, maxId, shownCur>>
      BY <1>9, <2>3 DEF RecoverCurrent, tables
    <3>2. BarrierThrough' = done.through /\ BarrierThrough = done.through
      BY <2>1 DEF BarrierThrough
    <3>3. \A k \in Key :
            /\ Says(topic, k, shownCur[k], done.through[k], Untouched)
            /\ EmptyBatch[k] = Untouched
      BY <2>3 DEF CurInv, EmptyBatch
    <3> QED
      BY <1>2, <2>1, <2>3, <3>1, <3>2, <3>3 DEF CurInv
  <2> QED
    BY <2>2, <2>3
<1>10. CASE CommitChangelog \/ RecoverChangelog
  <2>1. /\ UNCHANGED <<topic, status, replaying, pos, held, through, curBuf,
                       curPend, done, ongoing, current, shownCur>>
        /\ recovering' \cap {"current"} = recovering \cap {"current"}
        /\ maxId'["current"] = maxId["current"]
    BY <1>10
    DEF CommitChangelog, RecoverChangelog, PublishChangelog, TypeOK, Sink, job,
        coalescer, writers, checkpoints, tables
  <2>2. BarrierThrough' = BarrierThrough
    BY <2>1 DEF BarrierThrough
  <2> QED
    BY <1>2, <2>1, <2>2 DEF CurInv
<1>11. CASE Crash \/ Cancel
  <2>1. /\ UNCHANGED <<topic, replaying, done, current, maxId, shownCur>>
        /\ status' # "RUNNING" /\ recovering' = {} /\ ongoing' = Nothing
    BY <1>11 DEF Crash, MayRestart, Cancel, StopTasks, tables
  <2> QED
    BY <1>2, <2>1 DEF CurInv
<1>12. CASE Restart
  <2>1. /\ pos' = done.pos /\ held' = done.held /\ through' = done.through
        /\ curPend' = done.cur /\ recovering' = Sink
        /\ curBuf' = EmptyBatch /\ ongoing' = Nothing
        /\ UNCHANGED <<topic, replaying, done, current, maxId, shownCur>>
    BY <1>12
    DEF Restart, RestartPosition, Control, Phases, writers, checkpoints, tables
  <2>2. BarrierThrough' = done.through
    BY <2>1 DEF BarrierThrough
  <2>3. \A k \in Key :
          Says(topic, k, done.through[k], done.through[k], curBuf'[k])
    BY <2>1, Stages, SaysEmpty DEF EmptyBatch
  <2> QED
    BY <1>2, <2>1, <2>2, <2>3 DEF CurInv, Sink
<1>13. CASE SubmitAtStart
  <2>1. /\ topic' = topic /\ pos' = Start
        /\ held' = EmptyBatch /\ through' = KeyStart
        /\ done'.pos = Start /\ done'.through = KeyStart
        /\ done'.held = EmptyBatch /\ done'.id = 0
        /\ ongoing' = Nothing /\ recovering' = {}
        /\ curBuf' = EmptyBatch /\ curPend' = EmptyBatch
        /\ shownCur' = KeyStart /\ maxId'["current"] = 0
    <3>1. status # "RUNNING"
      BY <1>13 DEF SubmitAtStart
    <3>2. /\ ongoing = Nothing /\ recovering = {} /\ held = EmptyBatch
          /\ curBuf = EmptyBatch /\ curPend = EmptyBatch
      BY <3>1 DEF Control, Phases
    <3> QED
      BY <1>13, <3>2
      DEF SubmitAtStart, NoCheckpoint, Checkpoint, Sink, writers, committers
  <2>2. \A k \in Key :
          /\ Says(topic, k, 0, 0, Untouched) /\ EmptyBatch[k] = Untouched
          /\ KeyStart[k] = 0 /\ Start[PartitionOf[k]] = 0
    BY SaysEmpty, PartitionAssumption DEF EmptyBatch, KeyStart, Start
  <2>3. CurrentIsACut'
    BY <2>1, <2>2 DEF CurrentIsACut, RowIsLast, KeyControl, NothingHeld
  <2>4. BarrierThrough' = KeyStart
    BY <2>1 DEF BarrierThrough
  <2> QED
    BY <2>1, <2>2, <2>3, <2>4 DEF CurInv
<1>14. CASE \/ \E slot \in dlqBuf : SendDeadLetter(slot)
            \/ CommitOffsets \/ (\E l \in Listener : LoseCallback(l))
            \/ UNCHANGED vars
  <2>1. UNCHANGED <<topic, status, replaying, pos, held, through, curBuf, curPend,
                    done, ongoing, recovering, current, maxId, shownCur>>
    BY <1>14
    DEF SendDeadLetter, CommitOffsets, LoseCallback, vars, job, coalescer,
        writers, committers, checkpoints, tables
  <2>2. BarrierThrough' = BarrierThrough
    BY <2>1 DEF BarrierThrough
  <2> QED
    BY <1>2, <2>1, <2>2 DEF CurInv
<1> QED
  BY <1>1, <1>3, <1>4, <1>5, <1>6, <1>8, <1>9, <1>10, <1>11, <1>12, <1>13, <1>14
  DEF Next, JobStep, RewindAndResubmit, RebuildFromEarliest

\* The batch at each stage of the upsert path says of every key what the
\* offsets between two stages of the pipeline say of it.
THEOREM CurInvariant == Spec => []CurInv
<1>1. Init => CurInv /\ Routed
  <2> SUFFICES ASSUME Init PROVE CurInv /\ Routed
    OBVIOUS
  <2>1. \A k \in Key : Says(topic, k, 0, 0, Untouched)
    BY SaysEmpty
  <2>2. /\ Start \in Position /\ ForKeys(Start) = KeyStart
        /\ \A k \in Key : /\ KeyStart[k] = 0 /\ Start[PartitionOf[k]] = 0
                          /\ EmptyBatch[k] = Untouched
    BY BatchType, PartitionAssumption DEF ForKeys, Start, KeyStart, EmptyBatch
  <2>3. /\ shownCur = KeyStart /\ done.through = KeyStart /\ through = KeyStart
        /\ BarrierThrough = KeyStart /\ done.pos = Start /\ pos = Start
        /\ done.id = 0 /\ maxId["current"] = 0 /\ ongoing = Nothing
        /\ curBuf = EmptyBatch /\ curPend = EmptyBatch /\ held = EmptyBatch
        /\ done.held = EmptyBatch /\ recovering = {}
    BY DEF Init, BarrierThrough, NoCheckpoint, Checkpoint, Sink
  <2>4. CurrentIsACut
    <3>1. \A k \in Key : RowIsLast(k, 0)
      BY <2>1 DEF RowIsLast
    <3> QED
      BY <2>2, <2>3, <3>1 DEF CurrentIsACut
  <2>5. CurInv
    BY <2>1, <2>2, <2>3, <2>4 DEF CurInv
  <2>6. Routed
    BY DEF Init, Routed
  <2> QED
    BY <2>5, <2>6
<1>2. Spec => []Routed
  BY <1>1, TypeCorrect, RoutedInductive, PTL DEF Spec
<1> QED
  BY <1>1, <1>2, TypeCorrect, ControlInvariant, KeyControlInvariant,
     CurInductive, PTL DEF Spec

\* Whatever happened, each row of orders_current is the last decoded record of
\* its key up to the offset the row shows; and unless the job replays with the
\* coalescer these offsets are one cut of the topic.
THEOREM CurrentIsAlwaysACut == Spec => []CurrentIsACut
<1>1. CurInv => CurrentIsACut
  BY DEF CurInv
<1> QED
  BY <1>1, CurInvariant, PTL

\* A failure at any moment is harmless: the restore point, with what its
\* coalescer holds back, and the tables together hold the prefix up to the
\* restored position, nothing twice and nothing missing.
THEOREM RestoreIsComplete == Spec => []RestorePointIsComplete
<1>1. LogInv /\ CurInv => RestorePointIsComplete
  BY DEF LogInv, CurInv, RestorePointIsComplete
<1> QED
  BY <1>1, LogInvariant, CurInvariant, PTL

\* Within one submission neither the committed group offsets nor the offsets
\* a table shows move back, also across restores.
THEOREM NothingMovesBack == Spec => NeverBack
<1>1. ASSUME TypeOK, Control, KeyControl, [Next]_vars
      PROVE  run' = run => /\ Within(group, group')
                           /\ Within(shownLog, shownLog')
                           /\ KeysWithin(shownCur, shownCur')
  <2>1. \/ UNCHANGED <<shownLog, shownCur>>
        \/ PublishChangelog \/ PublishCurrent \/ SubmitAtStart
    BY <1>1
    DEF Next, JobStep, Produce, Poll, OnTimer, SendDeadLetter, Barrier,
        CompleteCheckpoint, CommitOffsets, CommitChangelog, CommitCurrent,
        LoseCallback, Crash, Cancel, StopTasks, Restart, RecoverChangelog,
        RecoverCurrent, RewindAndResubmit, RebuildFromEarliest, vars, tables
  <2>2. UNCHANGED group \/ CommitOffsets \/ SubmitAtStart
    BY <1>1
    DEF Next, JobStep, Produce, Poll, OnTimer, SendDeadLetter, Barrier,
        CompleteCheckpoint, CommitChangelog, CommitCurrent,
        LoseCallback, Crash, Cancel, StopTasks, Restart, RecoverChangelog,
        RecoverCurrent, RewindAndResubmit, RebuildFromEarliest, vars
  <2>3. SubmitAtStart => run' # run
    BY <1>1 DEF SubmitAtStart, TypeOK
  <2>4. run' = run => Within(group, group')
    BY <1>1, <2>2, <2>3, WithinOrder
    DEF CommitOffsets, Control, Ordered, TypeOK
  <2>5. /\ Within(shownLog, shownLog) /\ Within(shownLog, done.pos)
        /\ KeysWithin(shownCur, shownCur) /\ KeysWithin(shownCur, done.through)
    BY <1>1, WithinOrder, KeysOrder, KeyTypes
    DEF Control, Ordered, KeyControl, KeysOrdered, TypeOK
  <2>6. run' = run => Within(shownLog, shownLog') /\ KeysWithin(shownCur, shownCur')
    BY <2>1, <2>3, <2>5 DEF PublishChangelog, PublishCurrent
  <2> QED
    BY <2>4, <2>6
<1> QED
  BY <1>1, TypeCorrect, ControlInvariant, KeyControlInvariant, PTL
  DEF Spec, NeverBack
-----------------------------------------------------------------------------
(* The job implements the committed cuts of its two tables. *)

\* The instance speaks of the same topic, ranges and batches.
LEMMA SameVocabulary ==
  /\ Tables!Position = Position /\ Tables!Start = Start
  /\ Tables!KeyPosition = KeyPosition /\ Tables!KeyStart = KeyStart
  /\ Tables!EmptyTable = EmptyTable /\ Tables!Record = Record
  /\ Tables!Batch = Batch
  /\ \A t : Tables!Ends(t) = Ends(t)
  /\ \A at : Tables!ForKeys(at) = ForKeys(at)
  /\ \A low, high : /\ Tables!Within(low, high) <=> Within(low, high)
                    /\ Tables!KeysWithin(low, high) <=> KeysWithin(low, high)
  /\ \A t, low, high : Tables!Slice(t, low, high) = Slice(t, low, high)
  /\ \A t, k, low, high, entry :
       Tables!Says(t, k, low, high, entry) <=> Says(t, k, low, high, entry)
  /\ \A base, batch : Tables!Overlay(base, batch) = Overlay(base, batch)
<1>1. /\ Tables!Position = Position /\ Tables!Start = Start
      /\ Tables!KeyPosition = KeyPosition /\ Tables!KeyStart = KeyStart
      /\ Tables!EmptyTable = EmptyTable
  BY DEF Tables!Position, Position, Tables!Start, Start, Tables!KeyPosition,
         KeyPosition, Tables!KeyStart, KeyStart, Tables!EmptyTable, EmptyTable
<1>2. Tables!Record = Record /\ Tables!Batch = Batch
  BY DEF Tables!Record, Record, Tables!Payload, Payload, Tables!Batch, Batch,
         Tables!Row, Row
<1>3. (\A t : Tables!Ends(t) = Ends(t)) /\ (\A at : Tables!ForKeys(at) = ForKeys(at))
  BY DEF Tables!Ends, Ends, Tables!ForKeys, ForKeys
<1>4. \A low, high : /\ Tables!Within(low, high) <=> Within(low, high)
                     /\ Tables!KeysWithin(low, high) <=> KeysWithin(low, high)
  BY DEF Tables!Within, Within, Tables!KeysWithin, KeysWithin
<1>5. \A record : /\ Tables!IsDecoded(record) <=> IsDecoded(record)
                  /\ Tables!IsLogged(record) <=> IsLogged(record)
  BY DEF Tables!IsDecoded, IsDecoded, Tables!IsLogged, IsLogged, Tables!Row, Row
<1>6. Tables!Slot = Slot /\ Tables!Offset = Offset
  BY DEF Tables!Slot, Slot, Tables!Offset, Offset
<1>7. \A t, low, high : Tables!Slice(t, low, high) = Slice(t, low, high)
  BY <1>5, <1>6 DEF Tables!Slice, Slice
<1>8. \A t, k, low, high :
        Tables!OffsetsOf(t, k, low, high) = OffsetsOf(t, k, low, high)
  BY <1>5, <1>6 DEF Tables!OffsetsOf, OffsetsOf
<1>9. \A t, k, low, high, entry :
        Tables!Says(t, k, low, high, entry) <=> Says(t, k, low, high, entry)
  BY <1>8 DEF Tables!Says, Says
<1>10. \A base, batch : Tables!Overlay(base, batch) = Overlay(base, batch)
  BY DEF Tables!Overlay, Overlay
<1> QED
  BY <1>1, <1>2, <1>3, <1>4, <1>7, <1>9, <1>10

\* A commit to the changelog is a step of the abstract specification to the
\* cut of the completed checkpoint.
LEMMA PublishChangelogIsACut ==
  ASSUME TypeOK, Control, PublishChangelog,
         UNCHANGED <<topic, run, replaying>>,
         logPend = Slice(topic, shownLog, done.pos)
  PROVE  Tables!Next
<1>1. done.pos \in Position /\ Within(done.pos, Ends(topic))
  BY WithinOrder, EndsType DEF Control, Ordered, TypeOK, Checkpoints
<1>2. Within(shownLog, done.pos)
  BY DEF Control, Ordered
<1>3. Tables!AppendChanges(done.pos)
  BY <1>1, <1>2, SameVocabulary
  DEF PublishChangelog, Tables!AppendChanges, Tables!submission
<1> QED
  BY <1>1, <1>3, SameVocabulary DEF Tables!Next

\* A commit to the current table is a step of the abstract specification to
\* the offsets the completed checkpoint has let through: one cut unless the
\* job replays.
LEMMA PublishCurrentIsACut ==
  ASSUME TypeOK, Control, KeyControl, PublishCurrent,
         UNCHANGED <<topic, run, replaying>>,
         \A k \in Key : Says(topic, k, shownCur[k], done.through[k], curPend[k])
  PROVE  Tables!Next
<1>1. done.through \in KeyPosition /\ KeysWithin(shownCur, done.through)
  BY KeyTypes DEF KeyControl, KeysOrdered
<1>2. KeysWithin(done.through, ForKeys(Ends(topic)))
  <2>1. done.pos \in Position /\ Within(done.pos, Ends(topic))
    BY WithinOrder, EndsType DEF Control, Ordered, TypeOK, Checkpoints
  <2>2. KeysWithin(ForKeys(done.pos), ForKeys(Ends(topic)))
    BY <2>1, EndsType, KeysOrder
  <2>3. KeysWithin(done.through, ForKeys(done.pos))
    BY DEF KeyControl, KeysOrdered
  <2> QED
    BY <2>2, <2>3, KeyTypes, EndsType, ForKeysType, KeysOrder
<1>3. current' = Overlay(current, curPend)
  <2>1. CASE curPend = EmptyBatch
    BY <2>1 DEF PublishCurrent, EmptyBatch, Overlay, TypeOK, Table
  <2>2. CASE curPend # EmptyBatch
    BY <2>2 DEF PublishCurrent
  <2> QED
    BY <2>1, <2>2
<1>4. curPend \in Batch
  BY DEF TypeOK
<1>5. replaying \/ \E cut \in Position : done.through = ForKeys(cut)
  BY KeyTypes DEF KeyControl, NothingHeld
<1>6. Tables!UpsertRows(done.through)
  BY <1>1, <1>2, <1>3, <1>4, <1>5, SameVocabulary
  DEF PublishCurrent, Tables!UpsertRows, Tables!submission
<1> QED
  BY <1>1, <1>6, SameVocabulary DEF Tables!Next

\* Whatever the job goes through in between, every snapshot of the changelog
\* is the next cut of the topic, never a part of one and never one again.  So
\* is every snapshot of the current table in a job without the coalescer; in a
\* replaying job each row moves to a later last change of its key.
THEOREM Refinement == Spec => ImplementsCommittedCuts
<1>1. Init => Tables!Init
  BY SameVocabulary DEF Init, Tables!Init
<1>2. ASSUME TypeOK, Control, KeyControl, LogInv, CurInv, [Next]_vars
      PROVE  [Tables!Next]_(Tables!vars)
  <2>1. ASSUME NEW record \in Record, Produce(record)
        PROVE  [Tables!Next]_(Tables!vars)
    <3>1. Tables!Grow
      BY <2>1, SameVocabulary
      DEF Produce, Tables!Grow, Tables!submission, job, tables
    <3> QED
      BY <3>1 DEF Tables!Next
  <2>2. CASE CommitChangelog
    <3>1. ongoing = Nothing /\ recovering = {} /\ status = "RUNNING"
      BY <1>2, <2>2 DEF CommitChangelog, Control, Phases, Sink
    <3>2. logPend = Slice(topic, shownLog, done.pos)
      BY <1>2, <3>1 DEF LogInv, BarrierPos
    <3> QED
      BY <1>2, <2>2, <3>2, PublishChangelogIsACut DEF CommitChangelog, job
  <2>3. CASE CommitCurrent
    <3>1. ongoing = Nothing /\ recovering = {} /\ status = "RUNNING"
      BY <1>2, <2>3 DEF CommitCurrent, Control, Phases, Sink
    <3>2. \A k \in Key : Says(topic, k, shownCur[k], done.through[k], curPend[k])
      BY <1>2, <3>1 DEF CurInv, BarrierThrough
    <3> QED
      BY <1>2, <2>3, <3>2, PublishCurrentIsACut DEF CommitCurrent, job
  <2>4. CASE RecoverChangelog
    <3>1. CASE done.id > maxId["changelog"]
      <4>1. logPend = Slice(topic, shownLog, done.pos)
        BY <1>2, <2>4, <3>1 DEF LogInv, RecoverChangelog
      <4> QED
        BY <1>2, <2>4, <3>1, <4>1, PublishChangelogIsACut
        DEF RecoverChangelog, job
    <3>2. CASE ~(done.id > maxId["changelog"])
      BY <2>4, <3>2
      DEF RecoverChangelog, Tables!vars, Tables!submission, tables, job
    <3> QED
      BY <3>1, <3>2
  <2>5. CASE RecoverCurrent
    <3>1. CASE done.id > maxId["current"]
      <4>1. \A k \in Key :
              Says(topic, k, shownCur[k], done.through[k], curPend[k])
        BY <1>2, <2>5, <3>1 DEF CurInv, RecoverCurrent
      <4> QED
        BY <1>2, <2>5, <3>1, <4>1, PublishCurrentIsACut DEF RecoverCurrent, job
    <3>2. CASE ~(done.id > maxId["current"])
      BY <2>5, <3>2
      DEF RecoverCurrent, Tables!vars, Tables!submission, tables, job
    <3> QED
      BY <3>1, <3>2
  <2>6. CASE RewindAndResubmit \/ RebuildFromEarliest
    <3>1. Tables!StartOver
      BY <2>6, SameVocabulary
      DEF RewindAndResubmit, RebuildFromEarliest, SubmitAtStart,
          Tables!StartOver
    <3> QED
      BY <3>1 DEF Tables!Next
  <2>7. CASE UNCHANGED <<topic, changelog, current, shownLog, shownCur, run,
                         replaying>>
    BY <2>7 DEF Tables!vars, Tables!submission
  <2> QED
    BY <1>2, <2>1, <2>2, <2>3, <2>4, <2>5, <2>6, <2>7
    DEF Next, JobStep, Poll, OnTimer, SendDeadLetter, Barrier,
        CompleteCheckpoint, CommitOffsets, LoseCallback, Crash, Cancel,
        StopTasks, Restart, vars, job, tables
<1> QED
  BY <1>1, <1>2, TypeCorrect, ControlInvariant, KeyControlInvariant,
     LogInvariant, CurInvariant, PTL
  DEF Spec, ImplementsCommittedCuts, Tables!Spec
=============================================================================
