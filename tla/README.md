# A TLA+ model of the reliability lab

The repository is a laboratory for change data capture: MySQL `orders` rows are
captured, carried by Flink and committed to two Iceberg tables, and Python
drills inject failures and then prove, by reading MySQL, Kafka, Flink and
Iceberg, that nothing was lost or doubled. Two paths do the same work:

```
Path A   MySQL binlog --(embedded CDC source)--> Flink --> Iceberg
Path B   MySQL --> Debezium/Connect --> Kafka topic --> Flink --> Iceberg
                                                         \--> dead-letter topic
```

Both write `orders_current` (keyed upserts, one row per order) and
`orders_changelog` (append-only, one row per change). This directory holds the
specifications of the parts whose correctness depends on the order of things,
the TLC runs that check them on small instances, and proofs, for every instance, of
each safety invariant these runs check: of both jobs, the coalescer, the launcher,
the publication, and of the drills of both paths, whose faults, clean-up and
verdicts are the subject. Paths below are relative to the
repository; line ranges of every definition are in `PROJECT.json` ("map").

## 1. Inventory

| component | code | state it keeps | operations | talks to | what is hard |
|---|---|---|---|---|---|
| Path B job | `KafkaToIcebergJob` and its schema, filter and mappers | source positions, writer buffers, committers' pending files, checkpoints, group offsets, tables, dead letters | poll, decode, quarantine, hold back, checkpoint, three completion callbacks, restart, cancel, rewind, rebuild | topic (reads), tables, dead-letter topic, group offsets (writes) | failures between the callbacks of one checkpoint, lost callbacks, dead letters in flight, changes held back over a checkpoint |
| Path A job, fault injectors | `CdcToIcebergJob`, `TaskCrashOnceMap`, `CheckpointCompleteFaultOnceMap` | the same, plus channels of the parallel projection, fault flag and marker files | emit, project, align barriers, strike once | MySQL, tables, marker files | merge of parallel channels, barrier alignment, a fault in the completion callback |
| replay coalescer | `LatestPerKeyReplayCoalescer` | pending change, timer time and timers per key | processElement, onTimer, snapshot, restore | Path B current-table stream | timers that fire late or after a restore |
| B3 failure drills | `broker_failure_common.py`, five drill scripts (the ordering probe below is one) | what a script has read, `active_jobs`, `connector_paused` | submit, insert, wait, read, inject, compare, clean up | everything, over the network, while it runs | reads at different moments, waits for what may never come, clean-up after any failure |
| remote launcher | `launch-broker-target.sh`, `run-broker-target.sh` | `.active` file, status file per run, tmux session | start, resume, poll, record exit code | drills on the remote host | repeated commands, a launcher that outlives its SSH connection, a session that vanishes |
| ordering probe | `ordering_miskey_drill.py`, `KafkaBinaryAdmin` | a topic of its own | produce keyed or mis-keyed records, read back | Kafka | what key routing does and does not order |
| path parity check | `broker_parity.py` | two jobs, tables read from both | run Path A and Path B over one history, compare | everything | one-time reads of what is still moving |
| broker SLO run | `broker_slo.py` | fault gate, `active_jobs`, `connector_paused`, samples | five measurements on one pipeline, task restarts, sampling | everything | counts of what is still moving, a job that is in no list while it is replaced |
| schema contract drill | `schema_contract_drill.py`, `avro_contract.py` | registry subjects, recordings | evolve, refuse, replay | registry, Path B | normalised offsets of two recordings |
| exactly-once scenarios | `eo_verify.py`, `cdc_correctness.py` | restore points | two faults, checkpoint, savepoint and JobManager restores | Path A | which restore point, what the canceled job still commits |
| checkpoint metrics | `checkpoint_metrics.py`, `SlowOrderChangeMap` | samples | measure | Flink REST | result written before it is judged |
| small-file rewrite | `small_file_rewrite.py`, `IcebergAdmin`, `iceberg_meta.py` | batches, snapshots, rewrites | insert a batch, await a checkpoint, rewrite | tables | a batch and a checkpoint that does not hold it |
| artifact publication | `provenance.py`, `broker-remote.sh`, `sync-results.mjs` | artifacts, published copies | write append-only, copy down, validate, publish | file system | commands that overlap, an interruption between two files |
| broker administration | `broker_admin.py`, `flink.py`, `sql.py`, `generator.py`, `config.py`, `doctor.py` | none | single requests | services | nothing of its own; used by the drills |
| wire format | `AvroWireCodec`, Avro contracts, JSON schema | none | encode, decode | schema registry | pure |
| table and job set-up | `IcebergTables`, `JobConfig`, `IcebergBatchSql` | none | create, drop, read | catalog | pure, used by rebuild |
| dashboard | `dashboard/` | none | render | published artifacts | static |

What makes the components correct:

* **both jobs**: the changelog is exactly-once, the current table is the keyed
  state of a prefix of the history (in a Path B job that replays: each row is the last
  change of its key up to some point), whatever failed; poison is never skipped
  silently; when everything stops, source and tables agree.
* **coalescer**: holding back loses nothing and never lets an older version win.
* **drills**: a pass is true although every read is of another moment; a
  failure is a failure of the system, not of the script; the script ends and
  leaves nothing behind.
* **launcher**: one run at a time, the exit code reported is that of the run.
* **publication**: what the dashboard lists of the remote results is a whole result
  of a run that passed, and every one of them gets there.

The places where this is hard to test are listed at their lines in
`PROJECT.json` ("hazards"), with the properties that cover them or the reason
why none does.

## 2. Modules

```
OrdersTopic ---------> CommittedCuts            abstract: two tables move along the topic
      \                     ^
       \                    | ImplementsCommittedCuts (INSTANCE, PROPERTY, theorem)
        `-> KafkaToIceberg -'  -> KafkaToIceberg_proofs
                 ^
                 | the job BrokerDrills assumes
            BrokerDrills        -> BrokerDrills_proofs

SourceCuts <-- ImplementsSourceCuts (INSTANCE, PROPERTY, theorem) -- CdcToIceberg -> CdcToIceberg_proofs
                                                                          ^
                                                 the job CdcDrills assumes |
                                                  CdcDrills -> CdcDrills_proofs -> CdcTruth_proofs

ReplayCoalescer (inside Path B)      -> ReplayCoalescer_proofs
RemoteLaunch (starts the drills)     -> RemoteLaunch_proofs
ResultArtifacts (what the drills of both paths leave, up to the dashboard)
                                     -> ResultArtifacts_proofs
```

Each detailed specification has an `MC` module with the sets and functions a
`.cfg` substitutes.

### OrdersTopic, CommittedCuts, KafkaToIceberg (Path B)

`OrdersTopic` says what a record is and what a range of the topic means:
`Slice` (the changelog records in it), `Says` (the last row of a key in it),
`QuarantinedUpTo`. A payload is a row version (its event id), no row (a delete),
malformed bytes, a torn update, or a tombstone. The two changelog rows of an update
leave the deserializer in one call and are kept as one. Of a torn update the before
image had been collected when the after image could not be read: it is a changelog
row and a dead letter. A record decodes the same way whenever it is tried: that a
registry which cannot be asked makes a dead letter of a good record is left out.

`CommittedCuts` is what the tables promise and nothing else. `AppendChanges` moves
the changelog to a later cut of the topic. `UpsertRows` moves rows of the current
table to later offsets of their keys: all to one cut in a plain job, each on its own in
one that replays with the coalescer, whose snapshots are not cuts. `StartOver` begins a
new submission, plain over the tables as they are or replaying over empty ones.

`KafkaToIceberg` is the job.

| model | code |
|---|---|
| `Poll` | what the deserializer collects (rows, a dead letter, both or nothing), the filter, both mappers and the routing by key, to the upsert writer or to the coalescer, `KafkaToIcebergJob` 39-139 |
| `held`, `through`, `OnTimer`, `HeldSaved` | the coalescer between filter and upsert writer, `KafkaToIcebergJob` 105-112: the change of a key it holds back, how far the key's changes are past it, a timer that lets one through, its part of a checkpoint |
| `SendDeadLetter`, `DeadLettersFlushed` | the at-least-once Kafka sink for dead letters |
| `Barrier`, `CompleteCheckpoint` | `enableCheckpointing`, EXACTLY_ONCE, aligned; writers flush to committers |
| `CommitOffsets`, `CommitChangelog`, `CommitCurrent` | the completion callbacks of source and Iceberg sinks, in any order; `LoseCallback`: they are best effort |
| `Crash`, `Restart`, `RecoverChangelog`, `RecoverCurrent` | fixed-delay strategy, restored source position, and restored committers that publish unless the table's summary has the checkpoint id |
| `Cancel`, `RewindAndResubmit` | what the duplicate drill does: a plain job again, over the same tables |
| `RebuildFromEarliest` | the rebuild from offset zero of the replay drill and of the SLO run (`offset_replay_drill` 135-149, `broker_slo` 1017-1028): tables created anew, a job with the coalescer. The rebuild from a timestamp is in `BrokerDrills` |

Flink, Kafka and Iceberg are not in the repository. What the job relies on
(barriers, completion callbacks, the committer's comparison of checkpoint ids,
the restored source position) is marked external in the map.

*Reductions.* Every channel of Path B from the source to a writer is FIFO per
key and barriers are aligned, so a record reaches its writer (or the coalescer) in the
step that polls it and a barrier is one atomic cut. Path A has no such channel, and
`CdcToIceberg` models the channels one by one. And no barrier overtakes a completion
callback of the checkpoint before it: the coordinator sends both to a task over one
channel, the callback first, and the minimum pause between checkpoints lies between
them. The other models of a job (`CdcToIceberg`, `BrokerDrills`, `CdcDrills`) share this one.
The coalescer has no clock here: a change held back may be let through at any moment,
which covers every quiet period.

### SourceCuts, CdcToIceberg (Path A)

`SourceCuts` is the promise of a Path A job over the binlog: each changelog
snapshot holds the changes that follow the ones already there, and the current
table is the source as of some change and only moves to later ones.

`CdcToIceberg` is the job. The projection for the current table runs at the
default parallelism: `Emit` deals records round-robin over channels, `WriteRow`
and `TakeBarrier` merge them, with alignment. The two one-shot faults are armed
in `Init` on any change and strike in `TaskCrash` and `CommitFault`; the marker
file outlives the task, `triggerObserved` does not. `Paced` is the discipline of
the drills: a row changes again only after the table shows its last version. All
keys share one writer: keys of different writers share nothing but the barrier.
Under `Paced` the job implements `SourceCuts`; without it, it does not
(section 4).

### CdcDrills

The five scenarios of `eo_verify`, the smoke test, the small-file rewrite and
the checkpoint metrics, as scripts over up to three jobs: `left`, which an
earlier run may have left behind, `first`, the one a drill submits, and
`restored`, the one it restores from the first one's checkpoint or savepoint.

| model | code |
|---|---|
| `Script`, `Reset`, `Reconcile`, ... | the calls of `run_smoke`, `_run_task_crash`, `_run_checkpoint_restore`, ..., one step each |
| `Trigger`, `CompleteCheckpoint`, `Commit`, `Recover` | a checkpoint of a job and what its two committers do when told or restored |
| `Strikes`, `ToldFault` | the two injected faults, on the third event |
| `CancelListed`, `CancelJob`, `JobEnds` | `flink cancel` returns at once; the job takes callbacks until it has ended |
| `points`, `aborted`, `FindRetained`, `SubmitRestored` | checkpoint directories, complete and unfinished, and the search for the one with the greatest number |
| `TakeSavepoint` | a savepoint flushes as a checkpoint does, and the sinks are not told |
| `ResetTables`, `tableId` | tables dropped and created anew refuse the commit of a job that opened the old ones |
| `Audit` | reconciliation, event-id audit and the report, read one after the other |
| `Rewrite`, `Sample` | `rewrite_data_files`; the loop of samples |

*Reduction.* A job reads the whole of what it will flush at the barrier: what is
read and not flushed has no effect here. The drills wait for a row version
before they write the next, so the job is the one of `SourceCuts`. A row is the
version it holds; event ids are those the drills write. A checkpoint that
changes nothing and that no drill could tell from the one before is left out.

### ReplayCoalescer

`processElement`, `onTimer`, their three pieces of state, time in ticks.
Checkpoint, completion and commit are one step, what can happen between them
being the matter of `KafkaToIceberg`, where the coalescer stands in the job. Time stops
when no timer is awaited, so that instances are finite. That a change held back is let
through in the end, which `Converges` of `KafkaToIceberg` takes from the fairness of
`OnTimer`, is `Drains` here.

### BrokerDrills

A drill is a sequence of steps (`Script`), each a call of a helper of
`broker_failure_common`, `broker_parity` or `broker_slo`: one that changes the
system, a wait (`Await`, enabled when the polled condition holds), a read
(`Read`, `ReadSnapshots`), a check that raises, or the verdict. The eight are the
parity check, the schema contract drill, the five B3 drills and the SLO run. Between
any two of their steps the pipeline takes any of its own: rows are inserted and
captured, a pause takes effect, a connector task fails while Kafka is down,
checkpoints complete with a barrier that passed at any earlier moment, callbacks
run in any order, a canceled job ends. The job is the abstract one of `CommittedCuts`,
which `KafkaToIceberg` is proved to implement: the tables move from cut to cut, but
for the rows a replaying job holds back (`held`). The
Path A job of the parity check does the same over the binlog. A malformed record is
a gap in `changelog` (a place without a row), so that its places are those of the
input; `Logged` are the places that have a row and `LogRows` counts them, which is what
the drills count.

`StepRaises` ends a drill at any step that calls a service, without an effect;
`AnswerLost` is the pause that takes effect although its answer is lost;
`Finally` is the clean-up, which goes by the flags and lists (`Flag`) the script
keeps.

*Reductions.* No job of an earlier run is left: `prepare_fresh_drill` and
`broker_parity` 166 cancel the ones they find without waiting; `CdcDrills` follows such
a job (`left`). A batch of the SLO producer is one row, the topic one partition;
the ordering probe has its three. Records are sent in the order of their
timestamps. The registry accepts a value schema that is the first of its subject
or one it has: of the schemas the drill uses that is what BACKWARD amounts to.
Task restarts are not counted against the limit of three, since a task fails
only while Kafka is down and the drill starts it after. The metrics sampler, the
freshness scan and the exporters read and change nothing.

### RemoteLaunch

Launchers are processes over shared files, with a step for each read or write of
`.active`, the status file or tmux. They may be killed anywhere, or live on
while the operator repeats the command. A run writes its exit code under
another name and moves it, then its session ends; a session may vanish before.
`Decide` may launch a run again although it completed: the code also looks for its log and
its result, which somebody may have removed. *Bound.* The id of a run that has ended is not
given again within its second.

### ResultArtifacts

Files are records of who wrote them, whether that run passed, and how much is
there: a write in place and a copy are two steps. Remote runs (`StartRemote` to
`EndRemote`, killed by `KillRemote`) leave an append-only result and a log of
their own; `sync_down` stages the logs, then the results, compares and copies
what is new; local runs rewrite log and result in the same tree; `sync-results`
clears the public directory, validates and copies file by file and writes
`index.json` last. Its validators ask for a pass of the results in `Judged`, the remote ones
among them; that of `eo_reconciliation.json` asks for numbers of differences only. All four run beside each other and `Interrupt` cuts any of
them off.

*Reductions.* rsync of one directory is one step, since the one remote run writes
one file in each; clearing and writing the index are one step each, what is left
when clearing is cut off is in `Interrupt`; validation and the opening of
the copy are one step. `checkpoint_metrics` and the smoke test have no validator
and are left out; sync-up mirrors the checkout and is left out.

## 3. Runs

Deadlock is not checked anywhere: all of these systems may come to rest (a topic
at its bound, a job that gave up, a finished drill). Resting too early is what
the liveness properties are for.

| run | instance | distinct states | question |
|---|---|---|---|
| `broker_job` | 1 partition, 2 keys, 2 events, 2 records of every kind, 2 restarts, callbacks of 1 checkpoint may be lost; symmetric events | 990k | exactly-once, cuts, no table ahead of its checkpoint, quarantine |
| `broker_replay` | the same with one event; one key is written and deleted, the other written or unreadable; 2 submissions, the second plain or with the coalescer, 1 restart; fairness | 704k | restore points, also while changes are held back; nothing moves back; refinement of `CommittedCuts`; `Converges` |
| `cdc_paced` | 2 keys, parallelism 2, 4 changes, 3 attempts, either fault on any change | 155k | refinement of `SourceCuts`, alignment, agreement with MySQL, the fault strikes, once |
| `cdc_unpaced` | 3 changes, without pacing | violated | section 4 |
| `cdc_drills` | all eight Path A drills, with or without a job left behind; two of them may raise at any step | 298k | a pass is true, nothing written twice, the rewrite is alone, known alarms only, termination |
| `coalescer` | 2 keys, quiet period 2, 3 records, 2 restarts | 80k | nothing forgotten, nothing older again, nothing held for good |
| `drills` | all eight broker drills, 2 events, kill after 1; five of them may raise at any step | 426k | a pass is true, known alarms only, real faults, linkage, clean-up, termination |
| `drills_poison`, `drills_restart` | one drill each | violated | section 4 |
| `remote_launch` | 2 launchers, 3 commands of 2 revisions, one also `--fresh`, 1 vanishing session | 276k | one run, true exit codes, termination |
| `remote_overlap` | a connection may drop before the session exists | violated | section 4 |
| `artifacts` | 2 runs of a remote drill, 1 local run whose validator does not judge, 2 cuts or fresh checkouts | 374k | what is listed of the remote drill is true; all of it is delivered |

*Why the bounds suffice.* Two keys and two records of a partition are what it
takes for one record of a key to be in the table, the next in a committer or
buffer, and a record of another kind between them. Two restarts with a lost
callback give a failure during recovery from a failure, and files of two
checkpoints published as one. Two submissions give a second lineage over the
tables of the first, and a rebuild in which a row is held back over a checkpoint, a
failure and the restart. There is no run with two partitions: cuts that are vectors
are covered by the proofs, for any number. In Path A, four changes on two
channels wrap the round-robin twice and let one row overtake another; three
attempts exceed the one a fault should use. In the coalescer, three records with
quiet period 2 give a timer replaced, one fired and one restored late. The broker
drills need as many rows as they distinguish: one before and one after the kill.
The Path A drills run with the rows and events their code has, batches being one
row; three jobs are all a drill can meet. A step that raises is the same in the
drills that share their clean-up, so `MayRaise` names one of each kind. Three
commands are a first one, its repetition, and one that meets the traces of both.
Two remote runs are one and another that meets its result; two cuts are one while
another is being made up for. A local result that is judged (the rewrite's) has no instance
of its own, it would be a third artifact: the theorem covers any `Judged`. What these bounds leave open for the safety of the two
jobs, the coalescer, the launcher and the publication is closed by the proofs, which
have none, and so is that of the two drill models, for any set of drills; for the broker
drills also for any number of events and any threshold. What stays bounded is liveness.

Every model bound is a constant or a definition and commented as such: `MaxRecords`, `Produced`,
`LossyCheckpoints`, `MaxRuns`, `MaxChanges`, `MaxCrashes`, `MaxCommands`, `MaxKills`, `Runs`,
`MaxFaults`, `LeftCheckpoints` (a job that could not be canceled takes one checkpoint).
Three guards keep checkpoint ids finite (`CheckpointDue`, the first conjunct under
`CompleteCheckpoint` in `BrokerDrills`, the last disjunction of `Trigger` in `CdcDrills`): the
code triggers on a timer, the model leaves out a checkpoint nobody could tell from
the one before. `Followed` ends the two drill models with the drill: what the jobs
do later is not its matter.

*Fairness.* Weak, and only of what is scheduled without a condition:
`WF(JobStep)` for the Flink jobs (task threads, checkpoint coordinator and restart
strategy run while they can; all of their steps together, since none can be
enabled for ever while the others go on for ever in a bounded instance; that timers of
the coalescer fire is checked in `ReplayCoalescer`),
`WF(Tick)` for time, `WF(Followed /\ PipelineStep)`, `WF(Followed /\ SystemStep)` and
`WF(DrillStep)` for services and scripts, `WF(LauncherStep(l))` for each launcher
process, `WF(RunStep)` for a target, whose commands have time limits, and
`WF(RemoteStep)`, `WF(LocalStep)` for the runs that write results. `WF(DownStep)` and
`WF(SyncStep)` include the start of the command: the operator repeats both, as
`docs/broker-remote-execution.md` asks after every run. Producers, failures, lost
callbacks, other acts of the operator, kills and dropped connections have none.
`LoseCallback` is bounded, so `Converges` says what happens after callbacks stop being
lost.

*What can break them.* For every property `PROJECT.json` ("mutants") names a
wrong variant of a definition, written next to it, under which TLC finds it
violated: a source restored at the group's offsets or at the end of the topic, a
coalescer without state, a barrier that overtakes dead letters, a committer that does not compare ids,
unaligned barriers, a timer not deleted, a wait left out, a count not compared, a
status not read again, an artifact written over.

## 4. Where code and documents disagree

* **Path A at parallelism 2** (`cdc_unpaced`, `CurrentMatchesSource`):
  `CdcToIcebergJob` 122 filters and maps at the default parallelism ahead of
  keyed routing, so two versions of a row can be written in the wrong order and
  stay so. `KafkaToIcebergJob` 57-59 describes and avoids the same thing. The
  drills do not see it, because they wait for a version before writing the next
  (`cdc_paced` passes).
* **Checkpoint after poison** (`drills_poison`, `CheckpointAfterPoison`): the id
  compared with is read before the poison record exists; a checkpoint whose barrier
  passed before it is recorded as the one after.
* **Producer active at the fault** (`drills_restart`, `ProducerActiveAtFault`):
  the artifact states it as a constant; it was checked several steps before.
* **Repeating the launch command** (`remote_overlap`, `OneRun`): the guide says a
  repeated command resumes; between the RUNNING mark and the session there is no
  session to find, and a second run starts. If drops happen only while streaming,
  `OneRun` holds (`remote_launch`).

What the properties that hold still had to name:

* `BrokerDrills.OnlyKnownAlarms`: four checks may raise although the pipeline is
  right, because each looks once at something still under way: `check_producer`,
  `offsets_advanced`, `check_changelog` (duplicate drill and both halves of the
  parity check) and `check_replayed` (SLO run).
* `WaitsInVain`: a connector task that failed while Kafka was down, which the
  restart drill does not start again (the SLO run does); and a changelog that
  overshoots a target counted too early (`broker_slo` 666).
* `CleansUp`: the poison drill sets `connector_paused` only after the answer to the
  pause (the SLO run sets it before); a job whose start was given up is in no
  list, but for the parity check's; the SLO run's job is in none while it is replaced.
* `CdcDrills`: a canceled job is not awaited, so a callback it still gets may
  publish files behind the restored job's back, which publishes them again
  (`late`); `PassIsTrue` and `WrittenOnce` hold when that did not happen. The
  restore point is found while the job may still be there or just be gone: it
  may be incomplete, or subsumed before it is used (`OnlyKnownAlarms`). The
  small-file and metrics drills ignore an error when they cancel old jobs, and a
  job left running writes into their tables (`Undisturbed`, `RewriteAlone`).
* `Delivers`: a sync-down while a run goes on, or one that is cut off, leaves a
  part of a file in the tree. The append-only rule then protects it: the command
  exits at this file every time, and no file behind it in the order comes through
  until somebody deletes it (`Spoilt`).

## 5. Proofs

A `_proofs` module beside a specification proves it for every value of its
constants. In each, the inductive invariant comes first, as named parts, then the
lemmas on operators, then one lemma per part with one step per action, then the
theorems. TLC checked every inductive invariant on the instance of the component's
run before it was proved (that of the broker drills' verdicts with the plan of each
script written out, since a plan is chosen among all functions).

| module | theorem | property |
|---|---|---|
| `KafkaToIceberg_proofs` | `TypeCorrect` | `TypeOK` |
| | `NothingUncommitted` | `ReadsOnlyCheckpointed` |
| | `NoPoisonSkipped` | `QuarantineBeforeCommit` |
| | `ExactlyOnce` | `ChangelogExactlyOnce` |
| | `CurrentIsAlwaysACut` | `CurrentIsACut` |
| | `RestoreIsComplete` | `RestorePointIsComplete` |
| | `NothingMovesBack` | `NeverBack` |
| | `Refinement` | `ImplementsCommittedCuts` |
| `CdcToIceberg_proofs` | `TypeCorrect` | `TypeOK` |
| | `FaultsStrikeOnce` | `StrikesOnce` |
| | `CutsAreAligned` (paced) | `AlignedCut` |
| | `QuietTableMatches` (paced) | `CurrentMatchesSource` |
| | `TablesFollowSource` (paced) | `ImplementsSourceCuts` |
| | `ChangelogIsGapFree` | `ChangelogGrows`, which is stated with it |
| `ReplayCoalescer_proofs` | `TypeCorrect` | `TypeOK` |
| | `NoneForgotten` | `NothingForgotten` |
| | `RestoresWhole` | `RestorePointIsWhole` |
| | `TableMovesOn` | `NeverBack` |
| `RemoteLaunch_proofs` | `TypeCorrect` | `TypeOK` |
| | `OneRunAtATime` (drops while streaming) | `OneRun` |
| | `ExitsAreTrue` (drops while streaming) | `TrueExit` |
| | `StatusIsKept` (drops while streaming) | `StatusIsOutcome` |
| `ResultArtifacts_proofs` | `FencedResultsAreTrue` (remote results) | `PublishedIsTrue` |
| `BrokerDrills_proofs` | `FaultsAreReal` | `FaultIsReal` |
| | `DrillsCleanUp` | `CleansUp` |
| | `TypeCorrect` | `TypeOK` |
| | `LinkagesCover` | `LinkageCoversOffsets` |
| | `PassesAreTrue` | `PassIsTrue` |
| | `AlarmsAreKnown` | `OnlyKnownAlarms` |
| `CdcDrills_proofs` | `PublishedOnce` | `WrittenOnce` |
| | `RewritesAlone` | `RewriteAlone` |
| | `TypeCorrect` | `TypeOK` |
| `CdcTruth_proofs` | `PassesAreTrue` | `PassIsTrue` |
| | `AlarmsAreKnown` | `OnlyKnownAlarms` |

*Assumptions.* Those on constants are named in the module that declares them: bounds
are naturals; markers (`Nothing`, `Untouched`, `Barrier`, `NoFile`, ...) are none of the
values they stand beside; a record's key decides its partition
(`PartitionAssumption`); a result is fenced or rewritten and not both
(`FencedAssumption`: two lists in the code), a fenced one is judged
(`JudgedAssumption`), and `Sorted` lists each once (`SortedAssumption`); some request exists (`RequestAssumption`). Two hypotheses are
about use and are written in the theorems: `Paced`, the drills' discipline, and
`~DropAnytime`, that a connection drops only while it streams. `cdc_unpaced` and
`remote_overlap` show that `QuietTableMatches` and `OneRunAtATime` fail without them; the
theorems that do without (`FaultsStrikeOnce`, `ChangelogIsGapFree`, each `TypeCorrect`) say so.
For Path A `PassesAreTrue` has the conditions of its property and no others: that no
canceled job published late and no job of an earlier run wrote the tables
(`Undisturbed`), which the verdict of a drill cannot see. For the broker drills it has none.

**Path B.** None of its properties is inductive. The argument has four layers.

1. `Control`. *Ordered*: the positions stand in the order shown <= checkpointed <= in
   progress <= source <= end of the topic. *Phases*: which of the writers, committers,
   callbacks and recoveries can be active in which status. *Ids*: no table knows
   an id greater than the last completed. `KeyControl` is the same key by key for the
   upsert path (*KeysOrdered*), where a key's changes past the coalescer end before the
   position they were polled up to, and says that a plain job holds nothing back
   (*NothingHeld*). `NothingUncommitted` is a part of both.
2. `LogInv`: cut the changelog records at the positions of `Ordered`; each piece has one
   place. Up to `shown` they are in the changelog, in disjoint snapshots; from there
   to the barrier in the committer (or, during recovery, in the checkpoint);
   from the barrier to the source position in the writer. Each action moves one piece
   over one cut; `SliceJoin` and `SliceNext` say how pieces meet. `ExactlyOnce`
   follows, and one half of `RestoreIsComplete`.
3. `CurInv`: the same for the upsert path, where a piece is what a range `Says` of a key
   (`SaysJoin`: the later piece overlays the earlier one). There is one piece more: what
   the coalescer holds is what the offsets from `through` to the position say of the key, in
   the running job, in the checkpoint in progress and in the restore point; a timer moves
   it over to the writer. It needs `Routed`: a key's records are all in its partition.
4. `DeadLetterInv`: a quarantined record below the source position is sent or in flight,
   and below the barrier it is sent.

`Refinement` uses them all: a commit publishes exactly the slice between the
position shown and the checkpoint's, so it is a step of `CommittedCuts`; all
others stutter. A commit of the current table moves each row to where its key had passed
the coalescer at the barrier: in a plain job that is the cut of the checkpoint, in a
replaying one it is not a cut, and nothing is claimed of two rows together until the
job settles. It is the fact `BrokerDrills` builds on.

**Path A**, for any parallelism and number of keys, where rows overtake each other in
their channels and barriers come one by one.

1. `Protocol` is the checkpoint protocol and needs no pacing. *Barriers*: exactly the
   channels that have not delivered theirs hold one each. *Phases*, *Positions*,
   *Ids* as for Path B; `CurPending`: what the committer holds between two barriers.
2. `LogPending` and `LogTable`: the pieces of the changelog, as ranges of binlog
   positions; the changelog shows `1 .. n`, and what is not yet committed continues it.
   `ChangelogIsGapFree` follows at any pace: the changelog's path has one channel.
3. `Chained`: a change carries the row it replaced, and is a change.
4. `CurrentInv`, under `Paced`. *OnePerKey* is what pacing comes to: after the last
   checkpoint a key has one change at most, and the table shows the row before it, so
   the order in which channels deliver makes no difference. `PacedWrite` derives it
   from what the drill sees: if the table shows the last version, no change of
   that key is after the checkpoint. *InChannels*: what is ahead of a barrier is
   of the ongoing checkpoint, and only that; *InWriter*, *NoneLost*, *InCommitter*:
   writer and committer say what changes of their own side of the barrier say, and
   nothing is lost between them; *CurTable*: the table, or the table with the files
   of the last checkpoint over it, is the source as of that checkpoint.

`CutsAreAligned` and `QuietTableMatches` are read off `CurrentInv`; for `TablesFollowSource`, a
commit and a recovery move each table between two cuts of the binlog, whose
`Source!Cut` is `RowAfter` (`CutIsRows`).

**Coalescer.** `Holds`, of the running operator and, the same statement, of the last
checkpoint: the newest change of a key up to the position is the pending one, else
the emitted one, else the one in the table; each later place has a later change;
a pending change has exactly its own timer. A restore makes the second the first.
`NewestStep` is the one fact on `Newest`: a record is the newest of its own key only.

**Launcher.** With drops while streaming only, `OneLaunching` (one command on its way to
a session, which the operator's patience gives), `NoneWorks` (once it has found
none, none is) and `NotBegun` (its run is fresh) keep a second session from being
made; `OnlyActiveWorks`, `Begun` and `ZeroIsTrue` say what status files can contain.

**Publication.** `Files` (each file is of a run there was; only copies can be cut off),
`Running` (a run's log exists before its result), `Copying` (sync-down works on a copy
of whole files), `Syncing` (while sync-results works there is no index, and what it
has listed of the fenced results is in the tree, whole, with its log). What makes
it inductive is `LocalKept`: no file leaves the tree and a whole fenced result in it stays
as it is, since sync-down stops at a file that differs and local runs write others.
The theorem is about fenced results only. A local result that is being rewritten may be
copied while it is torn, and one whose validator does not judge may be of a run that
failed: the code protects neither, and the model has both.

**Broker drills, faults and clean-up.** Only the order of a script's steps matters for
`FaultsAreReal` and `DrillsCleanUp`, so their proof has two
halves that meet in `Legal`. The first is static: `May` says which step may follow which
at once (a group is rewound only behind a wait for the job to be gone, a
job is waited for behind its submission), `Bad` which may not come anywhere behind
which (no pause behind the resume, no flag taken back before it), `Allowed`
which drill may take it. `Join` puts legal stretches together, and each of the eight
scripts is built from its own (`ParityIsLegal` ... `SloIsLegal`). The second is
dynamic: every action is a move of the system, a step forward, the end of the drill, or
the `finally` clause (`NextMoves`), and each keeps the invariant, whose parts say what
must hold at a step for the next ones to be safe: no job is there when the group
is rewound (`GroupInv`), a job is starting only while it is waited for (`JobInv`), a
paused connector has its resume still to come or its flag set (`PauseInv`), and behind its
gate the producer has at most `Threshold` rows in (`GateInv`). A change of a script
that breaks the discipline fails in the first half.

**Broker drills, verdicts.** What a drill knows is another matter: it reads source, topic,
group, checkpoints and tables one after the other, while the pipeline goes on. The
proof says of each step what has been learned by then and what makes it stay true. It
has two halves again.

The static one is the *plan* of a script (`Plan`), a phase before each step. A phase
says how many rows are due, in which version, how many records the probe has, and
which facts are known: the job is the drill's only one and started at zero, the producer
is idle, the table is full, a checkpoint was read and a later one, the linkage is taken, the
poison is quarantined, and so on. `Goes` says that a step may be taken in a phase
(`Ready`: it writes, starts a job, reads or checks only where enough is known) and that the
next phase claims no fact but those kept (`Lost` is what a step makes out of date) or
`Learned` there. `Leads` is the same of a stretch of steps, `LeadJoin` puts stretches
together, and each of the eight scripts is shown to have a plan up to its verdict.

The dynamic one says that what the phase claims is so. Every action is a step of the
script (`Moves`), a change of state of a service (`Idles`) or the pipeline writing
(`Flows`), as `NextCases` says, and each keeps `BInv`:

1. `SourceInv`: the binlog is `BinlogOf(R, ver)`, the rows inserted so far in order, and
   behind them their update if the drill made one. `TopicInv`: where nobody else writes to
   it, the topic is the binlog as far as it is captured; it has at most one malformed record.
2. `FlowInv`: start <= shown <= checkpointed <= read <= end of the input; the group is
   not beyond the end of the topic. `StateInv`: what is claimed of the job itself.
3. `TableInv`: the current table has rows of the source only, none newer, and how far its
   job got says which. A table that is claimed full is equal to the source, and stays
   so until a step writes: later commits of the same job upsert what is there already, and
   of a source that was updated a full table was shown all (`StaysFull`). Counting is
   enough to learn it: a table with as many rows as the source has all of them, and one
   with as many in the new version is up to date (`AllArrived`).
4. `ReadInv`, `SeenInv`, `LinkInv`, `NotesInv`: what was read of tables, checkpoints and
   offsets, and of which job. `LinkInv` holds because each script links only once its
   table is full. In the schema drill the
   checkpoint it waits for behind its full table covers the topic.
5. `LogInv`: the changelog of a drill that counts it is the workload as far as it is
   shown, after one whole earlier delivery in the duplicate drill (`Log(c)`); its length is
   the count (`LogIsFull`).
6. `ProbeInv`, `DlqInv`, `SchemaInv`, `ConnInv`: the probe is as it was sent, the
   dead letter was the poison read, the registry has refused the incompatible schema, and
   only a drill that stops its broker can lose a connector task.
7. `VerdictInv`: a verdict is given at the last step; a drill that fails does so by a step
   that raised or an assertion of `OnlyKnownAlarms`. For each of the other assertions there
   is a proof that it holds where it is made (`ChecksHold`, `LastAssertions`): these are what
   the drill has got to know by then.

`PassesAreTrue` reads `PassIsTrue` off the phase before the verdict.

**Path A drills.** `WrittenOnce` is about two jobs, and about what a drill has seen when it
stops the first and restores the second. `CdcDrills_proofs` also starts with the scripts:
each is put together from stretches (`OpeningIs`, `FillingIs`, `ReconcileIs`, ...), and
`ScriptsLegal` says where it waits for its rows, stops its job and restores it, and
that it writes nothing in between. The invariant, `Inv`, is about what the jobs hold:

1. `Sound`, of each job: its files are disjoint ranges of the binlog, those up to the
   last checkpoint below its position and the others above, and what recovers
   is what that checkpoint holds.
2. `FirstLogInv`: until the restored job has taken over, what the first one holds is not
   in the changelog, and what its checkpoint holds is there only if the summary has
   its id. This makes a restart of the same job safe.
3. `ShownInv`: a row in the current table is of a change below the checkpoint that
   is not pending any more. So once the drill has counted as many rows as it inserted,
   all is checkpointed and nothing pending: counting is what the restore relies on.
4. `GoodPoint`, `StopInv`, `DiskInv`: from then to the restoration nothing is written,
   and each point the drill may restore from, the savepoint or a directory on
   disk, covers the binlog and holds nothing of a checkpoint the first job did not
   complete.
5. `RestoredInv`: until it has the table, the restored job publishes nothing and holds
   that point; from then on what it holds is not in the changelog, unless the
   canceled job has published late (`late`).
6. `RewriteInv`: behind its wait the job of the small-file drill has nothing pending, so
   `RewritesAlone` holds although the job may not be gone.

`IInv` says so of all drills but the metrics run, which has no such property, and only
of the steps the model follows: what the jobs do after a failure or the cleanup
is not followed, and `OnceInv`, which gives `WrittenOnce`, is kept beyond. A
drill of `Careless` beside a job of an earlier run that still works (`LeftActive`) is
exempt, as in the properties. `PublishedOnce` is proved with `drill \notin Careless`
and `late = {}` as its only conditions, for any set of drills and of steps that raise.

*The ledger.* `TypeOK` of the drills is not a matter of types: that a job has not read
beyond the binlog, and that event ids stay within their set, is a fact about what each
drill writes. `TypedInv` has it as `Ledger`: at step n of drill d the source has
`RowsAt(d, n)` rows and `EventsAt(d, n)` ids, each given once, and only the updating
drills have updates and a deleted row, both from a known step on. `AllBooked` says of
every script that its steps write what the ledger books, and `InsertsBooked`,
`UpdateBooked` and `DeleteBooked` that inserting, updating and deleting write it.

*What a pass is worth.* `CdcTruth_proofs` relates three things that a drill reads one
after the other while a job, or two, move two of them. `TruthInv` says:

1. `CurrentAt(p)`: the current table is always the source as of some change p
   (`Cut(p)`); what the job holds beyond it, in files of the last checkpoint, of the
   ongoing one and in what it has read since, is exactly the changes behind p
   (`Holds`). A flush, a checkpoint and a crash move changes between those three, a
   commit and a recovery move p to the checkpoint's position (`FirstShows`,
   `RestoredShows`). Between the jobs p is the end of the binlog, since the drill has
   counted its rows, and each point it may restore from has nothing left to show
   (`ShownPoint`).
2. `AuditInv` and `SmokeInv`: behind its audit a drill writes no more, so p stays the
   end of the binlog: the table that was compared is the one reported
   (`MovesAudited`, `MovesSmoked`). Why counting is enough for the changelog:
   `WrittenOnce` gives one row per change at most, so as many rows as changes are one
   each (`CountTells`).
3. `FilesInv`: in the small-file drill every insert is of its own row and never
   changed, so in whatever order and however often files are published, a row that is
   there is right (`OneChange`, `SystemFiles`).
4. `MetricsInv`: the metrics run has no audit, only a lag that is zero three times.
   Its first job never restarts, so it publishes the changes in order and without a
   gap (`FirstWrote`), beside rows of a job of an earlier run if there is one; once the
   changelog is as long as the binlog and nobody else wrote it, it is complete.

`JudgedInv` ties a verdict to the step it is given at and to the checks that held there;
`PassesAreTrue` reads the property off both (`PassTells`). `AlarmsAreKnown` takes the two
assertions that can fail without an error: that the smoke finds its two tables equal
(`ChecksFail`: they are, by `SmokeInv`), and that the restore point is readable
(`PointMissing`: a savepoint always is; only a drill that looks for a directory can miss
it). The audits of the other drills are waits: over tables that differ they do not end.

The `CHOOSE` of a last write or a first file needs that finite sets of numbers have
extremes. The lemmas `Greatest` and `Least` derive that from the well-foundedness of `<`
(`WFMin`), in place of an induction, which the provers cannot instantiate. Lemmas on
one operator (`SliceJoin`, `SaysJoin`, `RowAfterLast`, `OverlayShows`, `NewestStep`,
`FirstIsOne`, `RowInMore`, `CutSame`, ...) are stated once and cited.

*Only model-checked*: liveness everywhere (`Converges`, `FaultFires`, `Finishes`,
`Drains`, `Ends`, `Delivers`), which with fairness and ENABLED is out of the prover's reach,
as is induction over data. No module declares a RECURSIVE operator.

## 6. Plan

Done, in this order: Path B job, its abstraction and its proofs; Path A; broker
drills; coalescer; launcher; the abstraction of Path A; the Path A drills with their
restores and the small-file rewrite; parity, schema contract, ordering probe and SLO
run in `BrokerDrills`; publication of the artifacts; the proofs about the coalescer, the
launcher, Path A, the publication, the order of the broker drills, what the jobs of
the Path A drills publish, and what the verdicts of the drills of both paths are worth.
Every safety invariant of every passing run is stated by a theorem.

Next theorems: that the jobs of `BrokerDrills` and `CdcDrills` implement `CommittedCuts` and
`SourceCuts`, so that the step from the jobs to the drills is a refinement as well.

Next models: the tuning runs of the checkpoint metrics with their sleeping
operators, if a property about them turns up.

## 7. Not modelled

Encoding of single records (Avro, JSON, registry ids), option parsing, SQL text,
statistics and plots, the dashboard's rendering, Docker and host preparation: pure
or plain I/O, with no order to get wrong. Contents of rows beyond the version they
carry. Flink's network stack and Iceberg's optimistic commit: one committer per
table and job; two jobs meet at a table in `CdcDrills`, where each commit is atomic.

Of components that are modelled in part: the sleeping operator of the metrics runs
(it delays and changes no result), the numbers in their summaries, manifests and
their rewrite (no property of the rows depends on them), the metrics sampler,
freshness scan and exporters of the SLO run (they read), the normalisation of
recorded payloads in the schema drill (a pure function), and what else the validators of
single artifacts ask for (a whole result that passed is taken to be accepted, and so is
any whole one that is not in `Judged`). A schema registry that cannot be asked. The time limits of the
waits: a limit that expires is a step that raises.
