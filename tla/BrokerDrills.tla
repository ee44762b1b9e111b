---------------------------- MODULE BrokerDrills ----------------------------
(***************************************************************************)
(* The broker drills, Phases B1 to B4, as programs over a pipeline that    *)
(* runs on while they look at it.  A drill is a script of the helpers of   *)
(* broker_failure_common and broker_parity: it injects its faults, waits,  *)
(* reads offsets, checkpoints and tables one after the other, and passes   *)
(* or raises.                                                              *)
(*                                                                         *)
(* The Flink job is what KafkaToIceberg is shown to implement: tables that *)
(* move from cut to cut of the topic; the Path A job of the parity check   *)
(* does so over the binlog.  The topic is one partition; a record is a     *)
(* version of a source row, version 0 of a row being no row.               *)
(***************************************************************************)
EXTENDS Naturals, Sequences, FiniteSets

CONSTANTS
  Drills,     \* the drills of an instance
  Events,     \* --events or --baseline-events
  Threshold,  \* rows or offsets committed before the broker is killed
  MayRaise    \* drills of which a step may fail: a deadline, a command, ...

ASSUME OptionsAssumption ==
  /\ Events \in Nat \ {0} /\ Threshold \in 1 .. Events
  /\ "broker_slo" \in Drills => Threshold < Events
  /\ MayRaise \subseteq Drills

VARIABLES
  binlog,     \* row versions committed to MySQL
  toInsert,   \* rows the producer has yet to insert
  released,   \* its fault gate is open
  captured,   \* binlog entries Debezium has produced
  connector,  \* state of the Debezium connector
  kafkaUp,
  topic, dlq, \* records of the topic; number of dead letters
  probe,      \* records of the ordering probe topic
  versions,   \* schemas registered for the value of the topic
  job,        \* state of the Flink job
  start,      \* where it started to read
  mode,       \* what it reads: the binlog, Kafka, Kafka with a coalescer
  polled,     \* records it has read
  done,       \* its last completed checkpoint
  notify,     \* listeners not yet told of it
  group,      \* committed offset of its consumer group
  shown,      \* sink -> records of the topic its table shows
  held,       \* rows the replay coalescer holds back
  current, changelog, \* the two tables
  drill, pc,  \* the drill and the step it is at
  owned,      \* the job is in active_jobs
  paused,     \* the connector_paused flag
  seen,       \* what the drill has read
  link,       \* the last offset/checkpoint/snapshot linkage it recorded
  verdict, reason, cleaned

source == <<binlog, toInsert, released>>
debezium == <<captured, connector, versions>>
flink == <<job, start, mode, polled, done, notify, held>>
tables == <<shown, current, changelog>>
kafka == <<kafkaUp, topic, group, dlq, probe>>
pipeline == <<source, debezium, flink, tables, kafka>>
script == <<drill, pc>>
harness == <<script, owned, paused, seen, link, verdict, reason, cleaned>>
vars == <<pipeline, harness>>

Row == 1 .. Events + 2
Version == 0 .. 2
Table == [Row -> Version]
Record == [row : Row, version : Version \ {0}]
Poison == [row |-> 0, version |-> 0]
NoRows == [r \in Row |-> 0]
Sink == {"changelog", "current"}
Checkpoint == [id : Nat, pos : Nat]
Probe == [keyed : BOOLEAN, event : 1 .. 3, partition : 1 .. 3]
Schema == {"registered", "event_id_as_string"}

\* What the job reads.
Input == IF mode = "cdc" THEN binlog ELSE topic

\* Row r after the records at positions in range, over what it was before.
Latest(records, range, r, before) ==
  LET of == {i \in range : records[i].row = r} IN
  IF of = {} THEN before
  ELSE records[CHOOSE i \in of : \A j \in of : j <= i].version

SourceTable == [r \in Row |-> Latest(binlog, DOMAIN binlog, r, 0)]
Present(table) == {r \in Row : table[r] # 0}

\* The places of the changelog that have a row, and how many there are.
Logged == {i \in DOMAIN changelog : changelog[i] # Poison}
LogRows == Cardinality(Logged)

-----------------------------------------------------------------------------
(* The scripts.  Every wait and every read is a step. *)

Do(op) == [do |-> op, n |-> 0]
DoN(op, n) == [do |-> op, n |-> n]

\* The B3 drills list a job they have waited for in active_jobs, the others one
\* that is submitted.
Submit(how) == <<Do(how), Do("await_job"), Do("own")>>
SubmitOwned(how) == <<Do(how), Do("own"), Do("await_job")>>
InsertOneTooMany == <<DoN("start_producer", Events + 1), Do("join_producer")>>
Insert == <<DoN("start_producer", Events), Do("join_producer")>>

\* Waiting for the producer of the restart drill and for its rows, or not.
NoDrain == <<>>
Drain == <<Do("join_producer"), DoN("await_rows", Events)>>

Linkage == <<Do("require_checkpoint"), Do("await_zero_lag"), Do("read_snapshots")>>
Reconciliation == <<Do("read_source"), Do("read_table")>>
Reconciled == Reconciliation \o <<Do("check_reconciled")>>
Conclusion == Reconciliation \o <<Do("audit"), Do("verdict")>>
CancelAndWait == <<Do("cancel"), Do("await_absent")>>

\* Path A, and then Path B over the same source.
BrokerParity ==
  SubmitOwned("submit_cdc") \o Insert \o <<DoN("await_rows", Events)>>
  \o Reconciled \o <<Do("remember_original"), Do("require_checkpoint"),
       DoN("check_changelog", Events), DoN("await_topic", Events)>>
  \o CancelAndWait \o <<Do("reset_tables")>>
  \o SubmitOwned("submit") \o <<Do("await_original"), Do("read_table")>>
  \o Linkage \o <<DoN("check_changelog", Events), Do("verdict")>>

SchemaContract ==
  <<Do("check_connector")>> \o SubmitOwned("submit") \o Insert
  \o <<DoN("await_topic", Events), DoN("await_rows", Events)>> \o Reconciled
  \o <<Do("require_checkpoint"), Do("remember_checkpoint"), Do("await_zero_lag"),
       Do("await_subject"), Do("register"), Do("check_rejected"),
       Do("check_listed"), Do("check_connector"), Do("insert_row"),
       DoN("await_topic", Events + 1), DoN("await_rows", Events + 1),
       Do("await_checkpoint_after"), Do("require_checkpoint"),
       Do("await_zero_lag")>>
  \o Reconciled \o <<Do("check_connector"), Do("check_rejected"), Do("verdict")>>

BrokerRestart ==
  Submit("submit")
  \o <<Do("require_checkpoint"), Do("remember_checkpoint"),
       DoN("start_producer", Events), Do("await_streaming"),
       Do("check_producer"), Do("read_offsets"),
       Do("kill_kafka"), Do("start_kafka"), Do("await_connector")>>
  \o Drain \o Linkage \o Conclusion

DuplicateRedelivery ==
  Submit("submit_committed") \o Insert
  \o <<DoN("await_rows", Events)>> \o Linkage
  \o <<DoN("check_changelog", Events)>>
  \o CancelAndWait \o <<Do("rewind_group")>>
  \o Submit("submit_committed")
  \o <<DoN("await_changelog", 2 * Events)>> \o Linkage \o Conclusion

\* Three records keyed as they should be, three in partitions of their own.
Keyed == <<DoN("produce_keyed", 1), DoN("produce_keyed", 2), DoN("produce_keyed", 3)>>
Miskeyed ==
  <<DoN("produce_miskeyed", 1), DoN("produce_miskeyed", 2), DoN("produce_miskeyed", 3)>>
OrderingMiskey ==
  Submit("submit") \o Insert \o <<DoN("await_rows", Events)>> \o Linkage
  \o Reconciliation \o <<Do("audit")>> \o Keyed \o Miskeyed
  \o <<DoN("await_probe", 6), Do("check_probe"), Do("verdict")>>

PoisonDlq ==
  Submit("submit") \o Insert
  \o <<DoN("await_rows", Events)>> \o Linkage
  \o <<Do("require_checkpoint"), Do("remember_checkpoint"),
       Do("pause"), Do("flag_paused"), Do("await_paused"),
       Do("insert_row"), Do("produce_poison"),
       DoN("await_dlq", 1), Do("await_checkpoint_after"),
       Do("produce_repair"), DoN("await_rows", Events + 1)>>
  \o Linkage \o Reconciled
  \o <<Do("resume"), Do("flag_resumed"), Do("await_connector"),
       Do("insert_row"), DoN("await_rows", Events + 2)>>
  \o Linkage \o Conclusion

OffsetReplay ==
  Submit("submit") \o Insert
  \o <<DoN("await_rows", Events)>> \o Linkage
  \o <<Do("choose_timestamp"), Do("update_sweep"), Do("await_convergence")>>
  \o Linkage \o Reconciliation \o <<Do("remember_original")>>
  \o CancelAndWait \o <<Do("reset_tables")>>
  \o Submit("replay_earliest") \o <<Do("await_convergence")>>
  \o Linkage \o <<Do("read_table"), Do("check_original")>>
  \o CancelAndWait \o <<Do("reset_tables")>>
  \o Submit("replay_timestamp") \o <<Do("await_convergence")>>
  \o Linkage \o Conclusion

\* The five measurements of the SLO run, on one pipeline.  While it measures the
\* second and the last its job is in no list.
RestartMeasured ==
  <<DoN("start_gated_producer", Events), Do("await_gate"), Do("await_records"),
    Do("kill_kafka"), Do("release_gate"), Do("start_kafka"),
    Do("join_producer"), Do("recover_delivery"), DoN("await_rows", Events)>>
  \o Linkage \o Reconciled
DuplicateMeasured ==
  <<Do("disown"), Do("count_changelog"), Do("count_repeats"), Do("count_topic")>>
  \o CancelAndWait
  \o <<Do("rewind_group"), Do("submit_committed"), Do("await_job"),
       Do("await_replayed")>>
  \o Linkage \o Reconciliation \o <<Do("check_replayed"), Do("own")>>
MiskeyMeasured ==
  <<Do("check_unprobed")>> \o Miskeyed \o <<DoN("await_probe", 3)>>
  \o Reconciled \o <<Do("check_probe")>>
PoisonMeasured ==
  <<Do("flag_paused"), Do("pause"), Do("await_paused"), Do("insert_row"),
    Do("produce_poison"), DoN("await_dlq", 1), Do("produce_repair"),
    DoN("await_rows", Events + 1)>>
  \o Reconciliation
  \o <<Do("keep"), Do("resume"), Do("await_connector"), Do("insert_row"),
       DoN("await_rows", Events + 2)>>
  \o Linkage \o Reconciled \o <<Do("check_kept"), Do("flag_resumed")>>
ReplayMeasured ==
  <<Do("disown")>> \o Reconciliation \o <<Do("remember_original")>>
  \o CancelAndWait
  \o <<Do("reset_tables"), Do("replay_earliest"), Do("await_job"),
       DoN("await_rows", Events + 2)>>
  \o Linkage \o Reconciled \o <<Do("check_original"), Do("own")>>
BrokerSlo ==
  Submit("submit") \o RestartMeasured \o DuplicateMeasured \o MiskeyMeasured
  \o PoisonMeasured \o ReplayMeasured \o Reconciliation \o <<Do("verdict")>>

Script == [broker_parity |-> BrokerParity,
           schema_contract |-> SchemaContract,
           broker_restart |-> BrokerRestart,
           duplicate_redelivery |-> DuplicateRedelivery,
           ordering_miskey |-> OrderingMiskey,
           poison_dlq |-> PoisonDlq,
           offset_replay |-> OffsetReplay,
           broker_slo |-> BrokerSlo]

ASSUME DrillsAssumption == Drills \subseteq DOMAIN Script

Step == Script[drill][pc]
At(op) == verdict = "none" /\ Step.do = op
Go == pc' = pc + 1 /\ UNCHANGED <<drill, verdict, reason, cleaned>>

-----------------------------------------------------------------------------

Seen == [checkpoint : Checkpoint, before : Checkpoint, after : Checkpoint,
         offsets : Nat, offsetsBefore : Nat, timestamp : Nat,
         source : Table, table : Table, original : Table, audited : BOOLEAN,
         rows : Nat, repeats : Nat, records : Nat, accepted : BOOLEAN]
Link == [checkpoint : Checkpoint, offsets : Nat, table : Table]
NoCheckpoint == [id |-> 0, pos |-> 0]
NoLink == [checkpoint |-> NoCheckpoint, offsets |-> 0, table |-> NoRows]

\* The assertions on the way, and why a drill may fail.
Checks == {"check_producer", "check_changelog", "check_reconciled", "check_original",
           "check_kept", "check_replayed", "check_connector", "check_listed",
           "check_rejected", "check_unprobed", "check_probe"}
Reason == Checks \cup {"none", "error", "answer_lost", "offsets_advanced", "assertions"}

TypeOK ==
  /\ binlog \in Seq(Record) /\ toInsert \in 0 .. Events /\ released \in BOOLEAN
  /\ captured \in 0 .. Len(binlog) /\ versions \subseteq Schema
  /\ connector \in {"RUNNING", "PAUSING", "PAUSED", "FAILED"}
  /\ kafkaUp \in BOOLEAN
  /\ topic \in Seq(Record \cup {Poison}) /\ dlq \in Nat /\ probe \in Seq(Probe)
  /\ job \in {"absent", "STARTING", "RUNNING", "CANCELING"}
  /\ start \in Nat /\ mode \in {"cdc", "kafka", "replay"}
  /\ polled \in start .. Len(Input)
  /\ done \in Checkpoint /\ done.pos <= polled
  /\ notify \subseteq Sink \cup {"group"} /\ group \in 0 .. Len(topic)
  /\ shown \in [Sink -> 0 .. Len(Input)] /\ held \subseteq Row
  /\ current \in Table /\ changelog \in Seq(Record \cup {Poison})
  /\ drill \in Drills /\ pc \in DOMAIN Script[drill]
  /\ owned \in BOOLEAN /\ paused \in BOOLEAN
  /\ seen \in Seen /\ link \in Link
  /\ verdict \in {"none", "passed", "failed"} /\ reason \in Reason
  /\ cleaned \in BOOLEAN

\* prepare_fresh_drill: empty topics, an empty source table and fresh tables.
\* A reduction: no job of an earlier run is left.  The code cancels the ones it
\* finds and does not wait for them before it truncates and resets; CdcDrills
\* follows such a job where Path A does the same.
Init ==
  /\ binlog = <<>> /\ toInsert = 0 /\ released = TRUE
  /\ captured = 0 /\ versions = {} /\ connector = "RUNNING" /\ kafkaUp = TRUE
  /\ topic = <<>> /\ dlq = 0 /\ group = 0 /\ probe = <<>>
  /\ job = "absent" /\ start = 0 /\ mode = "kafka"
  /\ polled = 0 /\ done = NoCheckpoint /\ notify = {} /\ held = {}
  /\ shown = [s \in Sink |-> 0]
  /\ current = NoRows /\ changelog = <<>>
  /\ drill \in Drills /\ pc = 1 /\ owned = FALSE /\ paused = FALSE
  /\ seen = [checkpoint |-> NoCheckpoint, before |-> NoCheckpoint,
             after |-> NoCheckpoint, offsets |-> 0, offsetsBefore |-> 0, timestamp |-> 0,
             source |-> NoRows, table |-> NoRows, original |-> NoRows,
             audited |-> FALSE, rows |-> 0, repeats |-> 0, records |-> 0,
             accepted |-> FALSE]
  /\ link = NoLink
  /\ verdict = "none" /\ reason = "none" /\ cleaned = FALSE

-----------------------------------------------------------------------------
(* The pipeline. *)

NextRow == [row |-> Cardinality(Present(SourceTable)) + 1, version |-> 1]

\* insert_events, or timed_insert_events, which stops at a gate, commits one
\* more row.
InsertRow ==
  /\ toInsert > 0 /\ (released \/ Len(binlog) < Threshold)
  /\ binlog' = Append(binlog, NextRow) /\ toInsert' = toInsert - 1
  /\ UNCHANGED <<released, debezium, flink, tables, kafka, harness>>

\* Debezium produces the next row of the binlog, also while a pause is under
\* way, and has registered the schema of its value before.
Capture ==
  /\ connector \in {"RUNNING", "PAUSING"} /\ kafkaUp /\ captured < Len(binlog)
  /\ topic' = Append(topic, binlog[captured + 1]) /\ captured' = captured + 1
  /\ versions' = versions \cup {"registered"}
  /\ UNCHANGED <<source, connector, kafkaUp, group, dlq, probe, flink, tables, harness>>

PauseTakesEffect ==
  /\ connector = "PAUSING" /\ connector' = "PAUSED"
  /\ UNCHANGED <<source, captured, versions, kafka, flink, tables, harness>>

JobStarts ==
  /\ job = "STARTING" /\ job' = "RUNNING"
  /\ UNCHANGED <<source, debezium, start, mode, polled, done, notify, held,
                 tables, kafka, harness>>

\* The job reads what there is.  Where among it the barrier of a checkpoint falls
\* is for the checkpoint to choose.
Poll ==
  /\ job = "RUNNING" /\ polled < Len(Input)
  /\ mode # "cdc" => kafkaUp
  /\ polled' = Len(Input)
  /\ dlq' = dlq + Cardinality({i \in polled + 1 .. Len(Input) : Input[i] = Poison})
  /\ UNCHANGED <<source, debezium, job, start, mode, done, notify, held,
                 tables, kafkaUp, topic, group, probe, harness>>

\* A checkpoint completes whose barrier passed anywhere between the last one
\* and the records read.  Empty ones come with the timer; only one that the
\* drill can tell from the checkpoint it has seen makes a difference.  As in
\* KafkaToIceberg, no barrier overtakes a callback of the tables.
CompleteCheckpoint ==
  /\ job = "RUNNING" /\ notify \cap Sink = {}
  /\ \E p \in done.pos .. polled :
       /\ p # done.pos \/ held # {} \/ done.id \in {0, seen.checkpoint.id}
       /\ done' = [id |-> done.id + 1, pos |-> p]
  /\ notify' = Sink \cup (IF mode = "cdc" THEN {} ELSE {"group"})
  /\ UNCHANGED <<source, debezium, job, start, mode, polled, held, tables,
                 kafka, harness>>

\* The completion callbacks, in any order, also while the job is canceling.
Told(l) == l \in notify /\ job \in {"RUNNING", "CANCELING"}

CommitGroup ==
  /\ Told("group") /\ kafkaUp
  /\ group' = done.pos /\ notify' = notify \ {"group"}
  /\ UNCHANGED <<source, debezium, job, start, mode, polled, done, held,
                 tables, kafkaUp, topic, dlq, probe, harness>>

\* A malformed record has no row: it is a gap in what is published.
CommitChangelog ==
  /\ Told("changelog")
  /\ changelog' = changelog \o SubSeq(Input, shown["changelog"] + 1, done.pos)
  /\ shown' = [shown EXCEPT !["changelog"] = done.pos]
  /\ notify' = notify \ {"changelog"}
  /\ UNCHANGED <<source, debezium, job, start, mode, polled, done, held,
                 current, kafka, harness>>

\* A coalescing job may hold back the last version of a row, and show an
\* earlier one, but not beyond the quiet period: not at two commits in a row.
CommitCurrent ==
  LET range == shown["current"] + 1 .. done.pos
      changed == {r \in Row : \E i \in range : Input[i].row = r}
      earlier(r) == {current[r]} \cup
                      {Input[i].version : i \in {j \in range : Input[j].row = r}}
  IN
  /\ Told("current")
  /\ \E h \in SUBSET (IF mode = "replay" THEN changed \ held ELSE {}) :
       \E stale \in [h -> Version] :
         /\ \A r \in h : stale[r] \in earlier(r)
         /\ held' = h
         /\ current' = [r \in Row |->
              IF r \in h THEN stale[r]
              ELSE Latest(Input, start + 1 .. done.pos, r, current[r])]
  /\ shown' = [shown EXCEPT !["current"] = done.pos]
  /\ notify' = notify \ {"current"}
  /\ UNCHANGED <<source, debezium, job, start, mode, polled, done,
                 changelog, kafka, harness>>

JobEnds ==
  /\ job = "CANCELING" /\ job' = "absent" /\ notify' = {}
  /\ UNCHANGED <<source, debezium, start, mode, polled, done, held, tables,
                 kafka, harness>>

\* A source task may give up while it cannot reach its broker.
TaskFails ==
  /\ ~kafkaUp /\ connector = "RUNNING" /\ connector' = "FAILED"
  /\ UNCHANGED <<source, captured, versions, kafka, flink, tables, harness>>

PipelineStep ==
  \/ InsertRow \/ Capture \/ PauseTakesEffect
  \/ JobStarts \/ Poll \/ CompleteCheckpoint
  \/ CommitGroup \/ CommitChangelog \/ CommitCurrent \/ JobEnds
-----------------------------------------------------------------------------
(* Steps of a drill that change the system. *)

still == <<owned, paused, seen, link>>

\* The flags and lists the finally clause goes by.
Flag ==
  /\ \/ At("own") /\ owned' = TRUE /\ UNCHANGED paused
     \/ At("disown") /\ owned' = FALSE /\ UNCHANGED paused
     \/ At("flag_paused") /\ paused' = TRUE /\ UNCHANGED owned
     \/ At("flag_resumed") /\ paused' = FALSE /\ UNCHANGED owned
  /\ Go /\ UNCHANGED <<pipeline, seen, link>>

\* submit_job and submit_kafka_job return when the job is accepted.  A new group
\* has no offsets; the group of a repeated submission starts from its own.
SubmitJob ==
  /\ \/ At("submit_cdc") /\ mode' = "cdc" /\ start' = 0 /\ UNCHANGED group
     \/ At("submit") /\ mode' = "kafka" /\ start' = 0 /\ group' = 0
     \/ At("submit_committed") /\ mode' = "kafka" /\ start' = group /\ UNCHANGED group
     \/ At("replay_earliest") /\ mode' = "replay" /\ start' = 0 /\ group' = 0
     \/ At("replay_timestamp") /\ mode' = "replay" /\ start' = seen.timestamp /\ group' = 0
  /\ job' = "STARTING"
  /\ polled' = start' /\ done' = [id |-> 0, pos |-> start']
  /\ notify' = {} /\ held' = {} /\ shown' = [s \in Sink |-> start']
  /\ Go
  /\ UNCHANGED <<source, debezium, current, changelog, kafkaUp, topic, dlq, probe, still>>

\* insert_events or timed_insert_events, in a thread of its own or in the drill's.
StartProducer ==
  /\ \/ At("start_producer") /\ UNCHANGED released
     \/ At("start_gated_producer") /\ released' = FALSE
  /\ toInsert' = Step.n /\ Go
  /\ UNCHANGED <<binlog, debezium, flink, tables, kafka, still>>

ReleaseGate ==
  /\ At("release_gate") /\ released' = TRUE /\ Go
  /\ UNCHANGED <<binlog, toInsert, debezium, flink, tables, kafka, still>>

InsertSourceRow ==
  /\ At("insert_row") /\ binlog' = Append(binlog, NextRow) /\ Go
  /\ UNCHANGED <<toInsert, released, debezium, flink, tables, kafka, still>>

\* One UPDATE statement over the whole table.
UpdateSweep ==
  /\ At("update_sweep")
  /\ binlog' = binlog \o
       [r \in 1 .. Cardinality(Present(SourceTable)) |-> [row |-> r, version |-> 2]]
  /\ Go
  /\ UNCHANGED <<toInsert, released, debezium, flink, tables, kafka, still>>

\* produce_binary: the malformed record, and the row recovered from its dead
\* letter.
ProduceBinary ==
  /\ \/ At("produce_poison") /\ topic' = Append(topic, Poison)
     \/ At("produce_repair") /\ topic' = Append(topic, binlog[Len(binlog)])
  /\ Go
  /\ UNCHANGED <<source, debezium, flink, tables, kafkaUp, group, dlq, probe, still>>

\* Three versions of one order: with its key in order, all in the partition of
\* that key, and with other keys out of order, each in a partition of its own.
Arrival == <<1, 3, 2>>
ProduceProbe ==
  /\ \/ /\ At("produce_keyed")
        /\ probe' = Append(probe, [keyed |-> TRUE, event |-> Step.n, partition |-> 1])
     \/ /\ At("produce_miskeyed")
        /\ probe' = Append(probe, [keyed |-> FALSE, event |-> Arrival[Step.n],
                                   partition |-> Step.n])
  /\ Go
  /\ UNCHANGED <<source, debezium, flink, tables, kafkaUp, topic, group, dlq, still>>

\* The first version of a subject is as good as any; a later one has to be able
\* to read what the earlier one wrote.
Backward(schema) == versions = {} \/ schema \in versions

RegisterSchema ==
  LET candidate == "event_id_as_string" IN
  /\ At("register")
  /\ versions' = IF Backward(candidate) THEN versions \cup {candidate} ELSE versions
  /\ seen' = [seen EXCEPT !.accepted = Backward(candidate)]
  /\ Go
  /\ UNCHANGED <<source, captured, connector, flink, tables, kafka, owned, paused, link>>

KillKafka ==
  /\ At("kill_kafka") /\ kafkaUp' = FALSE /\ Go
  /\ UNCHANGED <<source, debezium, flink, tables, topic, group, dlq, probe, still>>

\* Debezium goes on where its own offsets say, which may be one record back.
StartKafka ==
  /\ At("start_kafka") /\ kafkaUp' = TRUE
  /\ captured' \in {captured, IF captured = 0 THEN 0 ELSE captured - 1}
  /\ Go
  /\ UNCHANGED <<source, connector, versions, flink, tables, topic, group, dlq, probe, still>>

\* recover_connector_delivery starts a failed task again, and waits on.
RestartFailedTask ==
  /\ At("recover_delivery") /\ connector = "FAILED" /\ connector' = "RUNNING"
  /\ UNCHANGED <<source, captured, versions, flink, tables, kafka, harness>>

SetConnectorState ==
  /\ \/ At("pause") /\ connector' = "PAUSING"
     \/ At("resume") /\ connector' = "RUNNING"
  /\ Go
  /\ UNCHANGED <<source, captured, versions, flink, tables, kafka, still>>

\* flink cancel returns when the cancellation is accepted.  What the drill has
\* read of the job is of no use any more.
CancelJob ==
  /\ At("cancel") /\ job' = "CANCELING" /\ owned' = FALSE /\ Go
  /\ seen' = [seen EXCEPT !.checkpoint = NoCheckpoint, !.offsets = 0] /\ link' = NoLink
  /\ UNCHANGED <<source, debezium, start, mode, polled, done, notify, held,
                 tables, kafka, paused>>

RewindGroup ==
  /\ At("rewind_group") /\ group' = 0 /\ Go
  /\ UNCHANGED <<source, debezium, flink, tables, kafkaUp, topic, dlq, probe, still>>

ResetTables ==
  /\ At("reset_tables")
  /\ current' = NoRows /\ changelog' = <<>> /\ Go
  /\ UNCHANGED <<source, debezium, flink, shown, kafka, still>>

-----------------------------------------------------------------------------
(* Steps of a drill that wait or read. *)

\* The current table has n rows; a count of rows says nothing of their versions.
AnyRows(n) == TRUE
RowsArrived(n) == Cardinality(Present(current)) = n

\* The tables have the same rows; the same number of rows is not enough.
SameCount == Cardinality(Present(current)) = Cardinality(Present(SourceTable))
Converged == SameCount /\ current = SourceTable

\* flink list no longer lists the job, which it does while it is canceling.
NotAwaited == TRUE
JobAbsent == job = "absent"

\* A table never gets shorter: once it has more, the wait goes on for ever.
Replayed == seen.rows + seen.records

Arrived ==
  \/ At("await_job") /\ job = "RUNNING"
  \/ At("await_gate") /\ Len(binlog) >= Threshold
  \/ At("await_records") /\ topic # <<>>
  \/ At("await_topic") /\ Len(topic) = Step.n
  \/ At("await_streaming") /\ Len(topic) >= Threshold /\ group >= Threshold
  \/ At("await_connector") /\ kafkaUp /\ connector = "RUNNING"
  \/ At("recover_delivery") /\ connector = "RUNNING" /\ Len(topic) >= Events
  \/ At("await_subject") /\ versions # {}
  \/ At("join_producer") /\ toInsert = 0
  \/ At("await_rows") /\ RowsArrived(Step.n)
  \/ At("await_convergence") /\ Converged
  \/ At("await_original") /\ current = seen.original
  \/ At("await_changelog") /\ LogRows = Step.n
  \/ At("await_replayed") /\ LogRows = Replayed
  \/ At("await_absent") /\ JobAbsent
  \/ At("await_paused") /\ connector = "PAUSED"
  \/ At("await_dlq") /\ dlq = Step.n
  \/ At("await_probe") /\ Len(probe) = Step.n

Await == Arrived /\ Go /\ UNCHANGED <<pipeline, still>>

\* The reads, each at a moment of its own.
LagZero == topic # <<>> /\ group = Len(topic)
Repeats == LogRows - Cardinality({changelog[i] : i \in Logged})

Read ==
  /\ \/ /\ At("require_checkpoint") /\ done.id > 0
        /\ seen' = [seen EXCEPT !.checkpoint = done]
     \/ /\ At("remember_checkpoint")
        /\ seen' = [seen EXCEPT !.before = seen.checkpoint]
     \/ /\ At("await_checkpoint_after") /\ done.id > seen.before.id
        /\ seen' = [seen EXCEPT !.after = done]
     \/ /\ At("await_zero_lag") /\ LagZero
        /\ seen' = [seen EXCEPT !.offsets = group]
     \/ /\ At("read_offsets")
        /\ seen' = [seen EXCEPT !.offsetsBefore = group]
     \/ /\ At("choose_timestamp")
        /\ seen' = [seen EXCEPT !.timestamp = Len(topic)]
     \/ /\ At("read_source")
        /\ seen' = [seen EXCEPT !.source = SourceTable]
     \/ /\ At("read_table")
        /\ seen' = [seen EXCEPT !.table = current]
     \/ /\ At("remember_original")
        /\ seen' = [seen EXCEPT !.original = seen.table]
     \/ /\ At("audit")
        /\ seen' = [seen EXCEPT !.audited = (current = SourceTable)]
     \/ /\ At("keep")
        /\ seen' = [seen EXCEPT !.audited = (seen.table = seen.source)]
     \/ /\ At("count_changelog")
        /\ seen' = [seen EXCEPT !.rows = LogRows]
     \/ /\ At("count_repeats")
        /\ seen' = [seen EXCEPT !.repeats = Repeats]
     \/ /\ At("count_topic")
        /\ seen' = [seen EXCEPT !.records = Len(topic)]
  /\ Go /\ UNCHANGED <<pipeline, owned, paused, link>>

ReadSnapshots ==
  /\ At("read_snapshots")
  /\ link' = [checkpoint |-> seen.checkpoint, offsets |-> seen.offsets,
              table |-> current]
  /\ Go /\ UNCHANGED <<pipeline, owned, paused, seen>>

-----------------------------------------------------------------------------
(* How a drill ends. *)

Raise(why) ==
  /\ verdict' = "failed" /\ reason' = why
  /\ UNCHANGED <<pipeline, script, still, cleaned>>

\* Of the records at some places of the probe topic: those that are not newer than
\* the one before, in the order of their timestamps, which is the one they were sent in.
Adjacent(i, j, places) == i < j /\ \A k \in places : k <= i \/ j <= k
Violations(places) ==
  Cardinality({i \in places :
    \E j \in places : Adjacent(i, j, places) /\ probe[j].event <= probe[i].event})
Partitions(places) == {probe[i].partition : i \in places}

ProbeShowsHazard ==
  LET keyed == {i \in DOMAIN probe : probe[i].keyed}
      miskeyed == DOMAIN probe \ keyed
  IN
  /\ drill = "ordering_miskey" => Cardinality(Partitions(keyed)) = 1
  /\ Violations(keyed) = 0
  /\ Cardinality(Partitions(miskeyed)) = 3
  /\ Violations(miskeyed) > 0
  /\ \E i \in miskeyed : (\A j \in miskeyed : j <= i) /\ probe[i].event # 3

Holds(op) ==
  CASE op = "check_producer" -> toInsert > 0
    [] op = "check_changelog" -> LogRows = Step.n
    [] op = "check_reconciled" -> seen.table = seen.source
    [] op = "check_original" -> seen.table = seen.original
    [] op = "check_kept" -> seen.audited
    [] op = "check_replayed" ->
         /\ LogRows = Replayed
         /\ Repeats = seen.repeats + seen.records
         /\ seen.table = seen.source
    [] op = "check_connector" -> connector = "RUNNING"
    [] op = "check_listed" -> job = "RUNNING"
    [] op = "check_rejected" -> ~seen.accepted /\ versions = {"registered"}
    [] op = "check_unprobed" -> probe = <<>>
    [] op = "check_probe" -> ProbeShowsHazard

Check ==
  /\ verdict = "none"
  /\ Step.do \in Checks
  /\ IF Holds(Step.do) THEN Go /\ UNCHANGED <<pipeline, still>> ELSE Raise(Step.do)

\* The offsets of the final linkage against those read before the fault.
OffsetsAdvanced == drill = "broker_restart" => link.offsets > seen.offsetsBefore

Copies(record) == Cardinality({i \in Logged : changelog[i] = record})

\* What the drills assert last.
AssertionsHold ==
  /\ drill # "schema_contract" => seen.table = seen.source
  /\ drill \notin {"broker_parity", "schema_contract"} => seen.audited
  /\ drill \in {"broker_parity", "offset_replay"} => seen.table = seen.original
  /\ drill = "broker_restart" => link.checkpoint.id > seen.before.id
  /\ drill = "duplicate_redelivery" =>
       \A r \in 1 .. Events : Copies([row |-> r, version |-> 1]) = 2
  /\ drill \in {"poison_dlq", "schema_contract"} => seen.after.id > seen.before.id
  /\ drill = "offset_replay" =>
       \A r \in Present(seen.original) : seen.original[r] = 2

Conclude ==
  /\ At("verdict")
  /\ IF ~OffsetsAdvanced THEN Raise("offsets_advanced")
     ELSE IF ~AssertionsHold THEN Raise("assertions")
     ELSE /\ verdict' = "passed"
          /\ UNCHANGED <<pipeline, script, reason, still, cleaned>>

\* A step that calls a service raises before it has any effect: a wait reaches
\* its deadline, a command or a connection fails.
StepRaises ==
  /\ drill \in MayRaise /\ verdict = "none"
  /\ Step.do \notin {"own", "disown", "flag_paused", "flag_resumed", "release_gate",
                     "remember_checkpoint", "remember_original", "keep"}
  /\ Raise("error")

\* The connector is told to pause, but the answer does not arrive.
AnswerLost ==
  /\ drill \in MayRaise /\ At("pause") /\ connector' = "PAUSING"
  /\ verdict' = "failed" /\ reason' = "answer_lost"
  /\ UNCHANGED <<source, captured, versions, flink, tables, kafka, script, still, cleaned>>

\* Does the finally clause look after Kafka?
RestoresNothing == FALSE
RestoresKafka == drill \in {"broker_restart", "broker_slo"}

\* The finally clause: the gate opened, Kafka started again, the connector
\* resumed, and the jobs in active_jobs canceled, those that are listed or,
\* after the parity check, all.
Finally ==
  /\ verdict # "none" /\ ~cleaned
  /\ released' = TRUE
  /\ kafkaUp' = (kafkaUp \/ RestoresKafka)
  /\ connector' = IF paused THEN "RUNNING" ELSE connector
  /\ job' = IF owned /\ (job = "RUNNING" \/ (job = "STARTING" /\ drill = "broker_parity"))
            THEN "CANCELING" ELSE job
  /\ cleaned' = TRUE
  /\ UNCHANGED <<binlog, toInsert, captured, versions, start, mode, polled, done,
                 notify, held, tables, topic, group, dlq, probe, script, still,
                 verdict, reason>>

DrillStep ==
  \/ Flag \/ SubmitJob \/ StartProducer \/ ReleaseGate \/ InsertSourceRow
  \/ UpdateSweep \/ ProduceBinary \/ ProduceProbe \/ RegisterSchema
  \/ KillKafka \/ StartKafka \/ RestartFailedTask \/ SetConnectorState
  \/ CancelJob \/ RewindGroup \/ ResetTables
  \/ Await \/ Read \/ ReadSnapshots
  \/ Check \/ Conclude \/ Finally

\* The pipeline is followed to the end of the drill.
Followed == ~cleaned

Next ==
  \/ Followed /\ PipelineStep
  \/ Followed /\ TaskFails
  \/ DrillStep \/ StepRaises \/ AnswerLost

Spec == Init /\ [][Next]_vars

\* The services and the drill keep running; no step has to fail.
FairSpec ==
  Spec /\ WF_vars(Followed /\ PipelineStep) /\ WF_vars(DrillStep)

-----------------------------------------------------------------------------

Workload ==
  CASE drill \in {"poison_dlq", "broker_slo"} -> Events + 2
    [] drill = "schema_contract" -> Events + 1
    [] OTHER -> Events

\* A drill that passes tells the truth about its fault, although it read the
\* source, the offsets and the tables at different moments of a running
\* pipeline: the whole workload is in MySQL and, row by row, in the current
\* table, every record was delivered as often as the drill says, a poison
\* record left one dead letter, and the checkpoint the schema drill shows
\* after the rejection has the row written after it.
PassIsTrue ==
  verdict = "passed" =>
    /\ Cardinality(Present(SourceTable)) = Workload
    /\ current = SourceTable
    /\ drill = "broker_parity" => LogRows = Events
    /\ drill = "duplicate_redelivery" => LogRows = 2 * Events
    /\ drill = "poison_dlq" => dlq = 1
    /\ drill = "offset_replay" => \A r \in Present(current) : current[r] = 2
    /\ drill = "schema_contract" => seen.after.pos = Len(topic)

\* Over a pipeline that keeps its promises no assertion of a drill fails, but
\* for those that look once at something still under way: the producer of the
\* restart drill may be done, the group may be at the end already when its
\* offsets are read, and the changelog committer may be behind when its rows
\* are counted.
OnlyKnownAlarms ==
  verdict = "failed" =>
    reason \in {"error", "answer_lost", "check_producer", "offsets_advanced",
                "check_changelog", "check_replayed"}

\* The faults are what the drills say: a second delivery starts at offset zero,
\* for no commit of the canceled job lands after the rewind of the group both
\* use, and the SLO run kills the broker in the middle of its workload.
FaultIsReal ==
  /\ drill \in {"duplicate_redelivery", "broker_slo"} => start = 0
  /\ drill = "broker_slo" /\ ~kafkaUp /\ ~released => toInsert > 0

\* The snapshots of a linkage contain every row of the offsets recorded with
\* them, though lag zero alone does not say so.
LinkageCoversOffsets ==
  \A i \in 1 .. link.offsets :
    topic[i] # Poison => link.table[topic[i].row] >= topic[i].version

\* However a drill ends, Kafka runs, the connector is not left paused, and no
\* job of the drill is left, with three exceptions: the pause whose answer was
\* lost in the poison drill, which sets its flag only then, a job whose start
\* was given up, and the jobs of the SLO run while it measures with them.
CleansUp ==
  cleaned =>
    /\ kafkaUp
    /\ connector \in {"PAUSING", "PAUSED"} =>
         drill = "poison_dlq" /\ reason = "answer_lost"
    /\ job \in {"STARTING", "RUNNING"} =>
         \/ Step.do = "await_job" /\ drill # "broker_parity"
         \/ drill = "broker_slo" /\ ~owned

\* What a script waits for in vain: a failed task that the restart drill does
\* not start again, and a number of rows, counted while the changelog
\* committer was behind, that the second delivery of the SLO run overshoots.
WaitsInVain ==
  \/ drill = "broker_restart" /\ connector = "FAILED"
  \/ At("await_replayed") /\ LogRows > Replayed

\* Every drill comes to an end and cleans up, unless it waits in vain or an error
\* ends it first.
Finishes == <>(cleaned \/ WaitsInVain)

\* The description the poison drill gives its wait: the checkpoint it waited
\* for was taken after the poison record was quarantined.
CheckpointAfterPoison ==
  \A i \in DOMAIN topic :
    topic[i] = Poison /\ seen.after.id > 0 => seen.after.pos >= i

\* The restart drill's artifact: the producer was active at the fault.
ProducerActiveAtFault == [][kafkaUp /\ ~kafkaUp' => toInsert > 0]_vars
=============================================================================
