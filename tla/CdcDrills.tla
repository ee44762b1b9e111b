------------------------------ MODULE CdcDrills ------------------------------
(***************************************************************************)
(* The Path A drills as programs over up to three Flink jobs: the one an   *)
(* earlier run left behind, the one a drill submits, and the one it        *)
(* restores from the first one's checkpoint or savepoint.                  *)
(*                                                                         *)
(* A job is CdcToIceberg seen from outside: it flushes at a barrier what   *)
(* it has read of the binlog, and each sink publishes what is flushed when *)
(* it is told that the checkpoint is complete.  What is added here are the *)
(* seams between jobs: a canceled job is not gone at once, and the         *)
(* directory of a checkpoint is there before the checkpoint is complete    *)
(* and until the next one has replaced it.                                 *)
(***************************************************************************)
EXTENDS Naturals, Sequences, FiniteSets, SequencesExt

CONSTANTS
  Drills,     \* the drills of an instance
  MayRaise    \* those of which a step may fail: a deadline, a command, ...

VARIABLES
  binlog,     \* changes committed to MySQL since the drill emptied the table
  job,        \* name -> one Flink job
  marker,     \* the marker file of the armed fault exists
  points,     \* completed checkpoints of the first job on disk
  aborted,    \* ids of its unfinished checkpoints on disk
  clusterUp,  \* the JobManager answers and a TaskManager is registered
  tableId,    \* the tables dropped and created again are other tables
  dataFiles,  \* data files of the current table
  maxId,      \* job -> sink -> greatest checkpoint id in the table's summary
  changelog, current,
  late,       \* sinks the first job published to behind the restored job's back
  drill, pc,
  ownId,      \* the small-file and metrics drills know their job
  seen,       \* what the drill has read
  verdict, reason, cleaned

disk == <<points, aborted>>
tables == <<tableId, dataFiles, maxId, changelog, current, late>>
script == <<drill, pc, ownId>>
ending == <<verdict, reason, cleaned>>
harness == <<script, seen, ending>>
system == <<binlog, job, marker, disk, clusterUp, tables>>
vars == <<system, harness>>

Name == {"left", "first", "restored"}
Own == {"first", "restored"}
Sink == {"changelog", "current"}
Row == 1 .. 5
Event == 0 .. 9     \* event ids, 0 being no row
Reason == {"none", "error", "restore_point", "checks"}

\* What a job flushed for a checkpoint: the changes behind lo up to hi.
Files == [id : Nat, lo : Nat, hi : Nat]
Point == [id : Nat, pos : Nat, pend : [Sink -> SUBSET Files]]
NoPoint == [id |-> 0, pos |-> 0, pend |-> [s \in Sink |-> {}]]
NoJob == [status |-> "absent", read |-> 0, epoch |-> 0, pend |-> NoPoint.pend,
          ongoing |-> NoPoint, done |-> NoPoint, notify |-> {}, recover |-> {}, table |-> 0]

RowAfter(n, r) ==
  LET of == {i \in 1 .. n : binlog[i].row = r} IN
  IF of = {} THEN 0 ELSE binlog[CHOOSE i \in of : \A j \in of : j <= i].after
SourceTable == [r \in Row |-> RowAfter(Len(binlog), r)]
Present(table) == {r \in Row : table[r] # 0}
Events == Cardinality({c.after : c \in ToSet(binlog)} \ {0})

\* Rows of the changelog table: an update is a before and an after image.  A
\* delete carries the event id of the row it deletes.
IsUpdate(c) == c.before # 0 /\ c.after # 0
RowsOf(changes) == Len(changes) + Cardinality({i \in DOMAIN changes : IsUpdate(changes[i])})
EventIds(changes) == UNION {{c.before, c.after} \ {0} : c \in ToSet(changes)}
Logged == [i \in DOMAIN changelog |-> binlog[changelog[i].change]]

-----------------------------------------------------------------------------
(* The scripts. *)

Do(op) == [do |-> op, n |-> 0]
DoN(op, n) == [do |-> op, n |-> n]

Reset == <<Do("cancel_listed"), Do("await_cluster"), Do("reset_tables")>>
Insert(n, total) == <<DoN("insert", n), DoN("await_rows", total)>>
Updates == <<Do("update"), Do("await_statuses")>>
Reconcile == <<Do("read_table"), Do("await_audit"), Do("read_table"),
               Do("report"), Do("verdict")>>

\* A task crashes on the third event, or a committer is told and throws.
FaultDrill ==
  Reset \o <<Do("submit"), Do("await_job")>> \o Insert(2, 2)
  \o <<Do("require_checkpoint"), DoN("insert", 2), Do("await_marker"),
       Do("await_job"), DoN("await_rows", 4)>>
  \o Updates \o <<Do("delete")>> \o Reconcile
TaskCrash == FaultDrill
SinkCommitFault == FaultDrill

\* A job is stopped, and restored from what it left.
RestoreDrill(stop) ==
  Reset \o <<Do("submit"), Do("await_job")>> \o Insert(3, 3)
  \o <<Do("require_checkpoint")>> \o stop \o <<Do("await_restored")>>
  \o Updates \o <<Do("delete"), DoN("insert", 1)>> \o Reconcile
CheckpointRestore ==
  RestoreDrill(<<Do("cancel"), Do("find_retained"), Do("submit_restored")>>)
JobManagerRestart ==
  RestoreDrill(<<Do("restart_jobmanager"), Do("await_cluster"),
                 Do("submit_restored")>>)
SavepointRestore ==
  RestoreDrill(<<Do("savepoint"), Do("cancel"), Do("submit_restored")>>)

UnawaitedSmoke ==
  Reset \o <<Do("submit"), Do("await_job")>> \o Insert(2, 2)
  \o <<Do("savepoint"), Do("cancel"), Do("submit_restored"), Do("await_restored")>>
  \o Updates \o <<Do("delete"), Do("read_source"), Do("read_table"), Do("verdict")>>
Smoke ==
  Reset \o <<Do("submit"), Do("await_job")>> \o Insert(2, 2)
  \o <<Do("savepoint"), Do("cancel"), Do("submit_restored"), Do("await_restored")>>
  \o Updates
  \o <<Do("delete"), Do("await_statuses"), Do("read_source"), Do("read_table"),
       Do("await_changelog"), Do("verdict")>>

\* Batches with a checkpoint after each, then the files are rewritten.
Batches ==
  Reset \o <<Do("submit"), Do("await_job"), Do("require_checkpoint"),
    DoN("insert", 1), Do("await_checkpoint_after"),
    DoN("insert", 1), Do("await_checkpoint_after")>>
Measured ==
  <<Do("cancel"), Do("measure_before"), Do("rewrite"), Do("measure_after"),
    Do("verdict")>>
RewriteUnawaited == Batches \o Measured
SmallFileRewrite ==
  Batches \o <<DoN("await_rows", 2), Do("await_checkpoint_after")>> \o Measured

CheckpointMetrics ==
  Reset \o <<Do("submit"), Do("await_job"), Do("require_checkpoint"),
    DoN("insert", 3), Do("sample"), Do("verdict")>>

Script ==
  [task_crash |-> TaskCrash, sink_commit_fault |-> SinkCommitFault,
   checkpoint_restore |-> CheckpointRestore,
   jobmanager_restart |-> JobManagerRestart,
   savepoint_restore |-> SavepointRestore, smoke |-> Smoke,
   small_file_rewrite |-> SmallFileRewrite,
   checkpoint_metrics |-> CheckpointMetrics]

ASSUME DrillsAssumption == MayRaise \subseteq Drills /\ Drills \subseteq DOMAIN Script

\* Drills that go on when the jobs they find cannot be canceled.
Careless == {"small_file_rewrite", "checkpoint_metrics"}

Step == Script[drill][pc]
At(op) == verdict = "none" /\ Step.do = op
Go == pc' = pc + 1 /\ UNCHANGED <<drill, ending>>
Raise(why) ==
  /\ verdict' = "failed" /\ reason' = why
  /\ UNCHANGED <<system, script, seen, cleaned>>

-----------------------------------------------------------------------------

Change == [row : Row, before : Event, after : Event]
Job == [status : {"absent", "STARTING", "RUNNING", "RESTARTING", "CANCELING"},
        read : Nat, epoch : Nat, pend : [Sink -> SUBSET Files],
        ongoing : Point, done : Point, notify : SUBSET (Sink \cup {"fault"}),
        recover : SUBSET Sink, table : Nat]
Seen == [checkpoint : Nat, point : Point, source : [Row -> Event],
         table : [Row -> Event], reported : BOOLEAN, lagged : BOOLEAN,
         zeros : 0 .. 3, before : Nat, after : Nat]

TypeOK ==
  /\ binlog \in Seq(Change)
  /\ job \in [Name -> Job]
  /\ \A j \in Name : job[j].read <= Len(binlog)
  /\ marker \in BOOLEAN /\ clusterUp \in BOOLEAN
  /\ points \subseteq Point /\ aborted \subseteq Nat
  /\ tableId \in 0 .. 1 /\ maxId \in [Name -> [Sink -> Nat]]
  /\ dataFiles \in Nat
  /\ changelog \in Seq([change : DOMAIN binlog, by : Name])
  /\ current \in [Row -> Event] /\ late \subseteq Sink
  /\ drill \in Drills /\ pc \in DOMAIN Script[drill] /\ ownId \in BOOLEAN
  /\ seen \in Seen
  /\ verdict \in {"none", "passed", "failed"} /\ reason \in Reason
  /\ cleaned \in BOOLEAN

\* TRUNCATE leaves an empty source table.  A job of an earlier run may be there.
Init ==
  /\ binlog = <<>> /\ marker = FALSE /\ points = {} /\ aborted = {}
  /\ \E status \in {"absent", "RUNNING"} :
       job = [j \in Name |-> IF j = "left" THEN [NoJob EXCEPT !.status = status]
                             ELSE NoJob]
  /\ clusterUp = TRUE /\ tableId = 0 /\ dataFiles = 0
  /\ maxId = [j \in Name |-> [s \in Sink |-> 0]]
  /\ changelog = <<>> /\ current = [r \in Row |-> 0] /\ late = {}
  /\ drill \in Drills /\ pc = 1 /\ ownId = FALSE
  /\ seen = [checkpoint |-> 0, point |-> NoPoint, source |-> [r \in Row |-> 0],
             table |-> [r \in Row |-> 0], reported |-> FALSE, lagged |-> FALSE,
             zeros |-> 0, before |-> 0, after |-> 0]
  /\ verdict = "none" /\ reason = "none" /\ cleaned = FALSE

-----------------------------------------------------------------------------
(* A job. *)

Update(j, record) == job' = [job EXCEPT ![j] = record]

JobStarts(j) ==
  /\ job[j].status = "STARTING" /\ clusterUp
  /\ Update(j, [job[j] EXCEPT !.status = "RUNNING", !.table = tableId,
                              !.recover = IF job[j].done.id > 0 THEN Sink ELSE {}])
  /\ UNCHANGED <<binlog, marker, disk, clusterUp, tables, harness>>

\* Memory is lost, and with it a checkpoint under way.
Failed(j) ==
  [job[j] EXCEPT !.status = "RESTARTING", !.ongoing = NoPoint, !.notify = {},
                 !.recover = {}, !.pend = NoPoint.pend]

Restart(j) ==
  LET from == job[j].done IN
  /\ job[j].status = "RESTARTING"
  /\ Update(j, [job[j] EXCEPT !.status = "RUNNING", !.table = tableId,
                              !.read = from.pos, !.pend = from.pend,
                              !.recover = IF from.id > 0 THEN Sink ELSE {}])
  /\ UNCHANGED <<binlog, marker, disk, clusterUp, tables, harness>>

\* The changes a set of files holds.
Held(files) == {i \in DOMAIN binlog : \E f \in files : f.lo < i /\ i <= f.hi}

\* The tables after job j published files to sink s, in one snapshot, whose rows
\* have no order.
Publish(j, s, files, id) ==
  LET changes == Held(files)
      last(r) == {i \in changes : binlog[i].row = r}
      rows == SetToSeq(changes)
  IN
  /\ changelog' = IF s = "changelog"
                  THEN changelog \o [i \in 1 .. Len(rows) |-> [change |-> rows[i], by |-> j]]
                  ELSE changelog
  /\ current' = IF s = "current"
                THEN [r \in Row |-> IF last(r) = {} THEN current[r]
                        ELSE binlog[CHOOSE i \in last(r) :
                                      \A k \in last(r) : k <= i].after]
                ELSE current
  /\ dataFiles' = IF s = "current" /\ changes # {} THEN dataFiles + 1 ELSE dataFiles
  /\ maxId' = IF files = {} THEN maxId ELSE [maxId EXCEPT ![j][s] = id]
  /\ UNCHANGED tableId

\* The id of the job whose checkpoint a restored committer has in its state.
Lineage(j) == IF j = "restored" THEN "first" ELSE j

\* A restored committer publishes what the table's summary does not have.
MissingAlways(j, s) == job[j].pend[s]
MissingNever(j, s) == {}
Missing(j, s) == {f \in job[j].pend[s] : f.id > maxId[Lineage(j)][s]}
Recover(j, s) ==
  /\ job[j].status = "RUNNING" /\ s \in job[j].recover
  /\ Publish(j, s, Missing(j, s), job[j].done.id)
  /\ Update(j, [job[j] EXCEPT !.recover = @ \ {s}, !.pend[s] = {}])
  /\ UNCHANGED <<binlog, marker, disk, clusterUp, late, harness>>

\* The fault drills arm the third event.
Armed(j, kind) == j = "first" /\ drill = kind /\ ~marker
TriggerEvent == 3

Strikes(j) ==
  /\ Armed(j, "task_crash") /\ job[j].status = "RUNNING"
  /\ \E i \in job[j].read + 1 .. Len(binlog) : binlog[i].after = TriggerEvent
  /\ marker' = TRUE /\ Update(j, Failed(j))
  /\ UNCHANGED <<binlog, disk, clusterUp, tables, harness>>

\* Where the reader can be when the barrier comes.
ReachedPast(j) == job[j].read .. Len(binlog) + 1
Reached(j) ==
  {n \in job[j].read .. Len(binlog) :
     Armed(j, "task_crash") =>
       \A i \in job[j].read + 1 .. n : binlog[i].after # TriggerEvent}

\* The state of job j behind a barrier: what was read, up to n, is flushed.
Flushed(j, n) ==
  LET id == job[j].epoch + 1
      files == IF n = job[j].read THEN {}
               ELSE {[id |-> id, lo |-> job[j].read, hi |-> n]}
  IN [job[j] EXCEPT !.epoch = id, !.read = n, !.pend = [s \in Sink |-> @[s] \cup files]]
PointOf(record) == [id |-> record.epoch, pos |-> record.read, pend |-> record.pend]

\* Checkpoints come with the timer; one that changes nothing is left out
\* unless the drill can tell it from the one it has seen.  As in CdcToIceberg,
\* no barrier overtakes a callback of the checkpoint before it.  Bound: a job
\* that could not be canceled takes one.
LeftCheckpoints == 1
Trigger(j) ==
  /\ job[j].status = "RUNNING" /\ job[j].recover = {}
  /\ job[j].ongoing = NoPoint /\ job[j].notify = {}
  /\ j = "left" => job[j].epoch < LeftCheckpoints
  /\ \E n \in Reached(j) :
       /\ \/ n > job[j].read \/ job[j].pend # NoPoint.pend
          \/ j = "first" /\ job[j].done.id \in {0, seen.checkpoint}
       /\ Update(j, [Flushed(j, n) EXCEPT !.ongoing = PointOf(Flushed(j, n))])
  /\ UNCHANGED <<binlog, marker, disk, clusterUp, tables, harness>>

\* Checkpoint directories are followed in the drills that restore from one.
LooksAtDisk == drill \in {"checkpoint_restore", "jobmanager_restart"}
CompleteCheckpoint(j) ==
  LET done == job[j].ongoing IN
  /\ job[j].status = "RUNNING" /\ done # NoPoint
  /\ Update(j, [job[j] EXCEPT !.done = done, !.ongoing = NoPoint,
                  !.notify = IF Armed(j, "sink_commit_fault")
                             THEN Sink \cup {"fault"} ELSE Sink])
  /\ points' = IF j = "first" /\ LooksAtDisk THEN points \cup {done} ELSE points
  /\ UNCHANGED <<binlog, marker, aborted, clusterUp, tables, harness>>

\* The completion callbacks, in any order, also while the job is canceling.
\* Tables that were dropped refuse the commit, and the job fails.
Told(j, l) == l \in job[j].notify /\ job[j].status \in {"RUNNING", "CANCELING"}
Opened(j) == job[j].table = tableId

Commit(j, s) ==
  LET files == {f \in job[j].pend[s] : f.id <= job[j].done.id}
      behind == j = "first" /\ files # {}
                /\ Opened("restored") /\ s \notin job["restored"].recover
  IN
  /\ Told(j, s)
  /\ IF Opened(j)
     THEN /\ Publish(j, s, files, job[j].done.id)
          /\ late' = IF behind THEN late \cup {s} ELSE late
          /\ Update(j, [job[j] EXCEPT !.notify = @ \ {s}, !.pend[s] = @ \ files])
     ELSE /\ Update(j, IF job[j].status = "RUNNING" THEN Failed(j)
                       ELSE [job[j] EXCEPT !.notify = @ \ {s}])
          /\ UNCHANGED tables
  /\ UNCHANGED <<binlog, marker, disk, clusterUp, harness>>

\* CheckpointCompleteFaultOnceMap: it throws once it has seen the armed event,
\* before or behind the barrier.
ToldFault(j) ==
  LET may == job[j].status = "RUNNING" /\ Len(binlog) >= TriggerEvent
      must == job[j].read >= TriggerEvent
  IN
  /\ Told(j, "fault")
  /\ \/ /\ may /\ marker' = TRUE /\ Update(j, Failed(j))
     \/ /\ ~(may /\ must) /\ UNCHANGED marker
        /\ Update(j, [job[j] EXCEPT !.notify = @ \ {"fault"}])
  /\ UNCHANGED <<binlog, disk, clusterUp, tables, harness>>

JobEnds(j) ==
  /\ job[j].status = "CANCELING"
  /\ Update(j, [NoJob EXCEPT !.done = job[j].done])
  /\ UNCHANGED <<binlog, marker, disk, clusterUp, tables, harness>>

\* One completed checkpoint is retained, and none that was not completed.
DeleteSubsumed ==
  /\ \E p \in points : p.id < job["first"].done.id /\ points' = points \ {p}
  /\ UNCHANGED <<binlog, job, marker, aborted, clusterUp, tables, harness>>

DiscardAborted ==
  /\ aborted # {} /\ aborted' = {}
  /\ UNCHANGED <<binlog, job, marker, points, clusterUp, tables, harness>>

ClusterStarts ==
  /\ ~clusterUp /\ clusterUp' = TRUE
  /\ UNCHANGED <<binlog, job, marker, disk, tables, harness>>

SystemStep ==
  \/ \E j \in Name :
       \/ JobStarts(j) \/ Restart(j) \/ Strikes(j) \/ Trigger(j)
       \/ CompleteCheckpoint(j) \/ ToldFault(j) \/ JobEnds(j)
       \/ \E s \in Sink : Recover(j, s) \/ Commit(j, s)
  \/ DeleteSubsumed \/ DiscardAborted \/ ClusterStarts

-----------------------------------------------------------------------------
(* Steps of a drill that change the system. *)

\* running_job_ids lists every job that is neither starting nor gone.
Listed(j) == job[j].status \in {"RUNNING", "RESTARTING", "CANCELING"}

Stopped(j) == [job[j] EXCEPT !.status = "CANCELING", !.ongoing = NoPoint]
CancelEach(js) == [j \in Name |-> IF j \in js /\ Listed(j) THEN Stopped(j) ELSE job[j]]

\* flink cancel returns when the cancellation is accepted; an error is raised,
\* or ignored.
IgnoresErrors == drill \in Careless
CancelListed ==
  /\ At("cancel_listed")
  /\ job' \in {CancelEach(Name)} \cup (IF IgnoresErrors THEN {job} ELSE {})
  /\ Go
  /\ UNCHANGED <<binlog, marker, disk, clusterUp, tables, ownId, seen>>

ResetTables ==
  /\ At("reset_tables")
  /\ tableId' = 1 /\ dataFiles' = 0 /\ maxId' = [j \in Name |-> [s \in Sink |-> 0]]
  /\ changelog' = <<>> /\ current' = [r \in Row |-> 0] /\ UNCHANGED late
  /\ Go /\ UNCHANGED <<binlog, job, marker, disk, clusterUp, ownId, seen>>

Submit ==
  /\ At("submit") /\ Update("first", [NoJob EXCEPT !.status = "STARTING"])
  /\ ownId' = TRUE
  /\ Go /\ UNCHANGED <<binlog, marker, disk, clusterUp, tables, seen>>

\* A savepoint is a checkpoint of which the sinks are not told.  It is not
\* subject to the pause between checkpoints.
TakeSavepoint ==
  /\ At("savepoint")
  /\ job["first"].status = "RUNNING" /\ job["first"].ongoing = NoPoint
  /\ \E n \in Reached("first") :
       /\ Update("first", Flushed("first", n))
       /\ seen' = [seen EXCEPT !.point = PointOf(Flushed("first", n))]
  /\ Go /\ UNCHANGED <<binlog, marker, disk, clusterUp, tables, ownId>>

CancelJob ==
  /\ At("cancel") /\ Update("first", Stopped("first"))
  /\ aborted' = IF job["first"].ongoing = NoPoint \/ ~LooksAtDisk THEN aborted
                ELSE aborted \cup {job["first"].ongoing.id}
  /\ ownId' = FALSE
  /\ Go /\ UNCHANGED <<binlog, marker, points, clusterUp, tables, seen>>

\* The session cluster keeps nothing of its jobs; what is left of their tasks
\* ends when the TaskManager finds out.
RestartJobManager ==
  /\ At("restart_jobmanager") /\ clusterUp' = FALSE
  /\ Update("first", Stopped("first"))
  /\ Go /\ UNCHANGED <<binlog, marker, disk, tables, ownId, seen>>

\* flink run -s: the point has to be there and complete.  From here on nobody
\* looks at the first job's directories.
Readable == drill \in {"savepoint_restore", "smoke"} \/ seen.point \in points
SubmitRestored ==
  LET from == seen.point IN
  /\ At("submit_restored")
  /\ IF Readable
     THEN /\ Update("restored", [NoJob EXCEPT !.status = "STARTING",
                       !.read = from.pos, !.epoch = from.id, !.pend = from.pend,
                       !.done = from])
          /\ points' = {} /\ aborted' = {}
          /\ seen' = [seen EXCEPT !.point = NoPoint, !.checkpoint = 0]
          /\ Go /\ UNCHANGED <<binlog, marker, clusterUp, tables, ownId>>
     ELSE Raise("restore_point")

\* Statements of one mysql script are committed one after the other; the
\* first and the second row are the ones a drill updates, the first the one
\* it deletes.
Inserts(n) ==
  LET rows == Cardinality({i \in DOMAIN binlog : binlog[i].before = 0}) IN
  [i \in 1 .. n |-> [row |-> rows + i, before |-> 0, after |-> Events + i]]
UpdateBoth ==
  [r \in 1 .. 2 |-> [row |-> r, before |-> SourceTable[r], after |-> Events + r]]
DeleteFirst == <<[row |-> 1, before |-> SourceTable[1], after |-> 0]>>

Write ==
  /\ \/ At("insert") /\ binlog' = binlog \o Inserts(Step.n)
     \/ At("update") /\ binlog' = binlog \o UpdateBoth
     \/ At("delete") /\ binlog' = binlog \o DeleteFirst
  /\ Go /\ UNCHANGED <<job, marker, disk, clusterUp, tables, ownId, seen>>

\* rewrite_data_files of the current table: the same rows in one file.
Rewrite ==
  /\ At("rewrite") /\ dataFiles' = IF dataFiles = 0 THEN 0 ELSE 1
  /\ Go
  /\ UNCHANGED <<binlog, job, marker, disk, clusterUp, tableId, maxId, changelog,
                 current, late, ownId, seen>>

-----------------------------------------------------------------------------
(* Steps of a drill that wait or read. *)

RowsArrived(n) == Cardinality(Present(current)) = n

Arrived ==
  \/ At("await_cluster") /\ clusterUp
  \/ At("await_job") /\ Listed("first")
  \/ At("await_restored") /\ Listed("restored")
  \/ At("await_marker") /\ marker
  \/ At("await_rows") /\ RowsArrived(Step.n)
  \/ At("await_statuses") /\ current = SourceTable
  \/ At("await_changelog") /\ RowsOf(Logged) >= RowsOf(binlog)

Await == Arrived /\ Go /\ UNCHANGED <<system, ownId, seen>>

\* The directory with the greatest number.
FindRetained ==
  LET found == {p.id : p \in points} \cup aborted
      latest == CHOOSE i \in found : \A k \in found : k <= i
  IN
  /\ found # {}
  /\ seen' = [seen EXCEPT !.point =
                IF latest \in {p.id : p \in points}
                THEN CHOOSE p \in points : p.id = latest
                ELSE [NoPoint EXCEPT !.id = latest]]

SawCheckpoint(done) == seen' = [seen EXCEPT !.checkpoint = done.id, !.point = done]

ReadSomething ==
  LET done == job["first"].done IN
  /\ \/ At("require_checkpoint") /\ done.id > 0 /\ SawCheckpoint(done)
     \/ At("await_checkpoint_after") /\ done.id > seen.checkpoint /\ SawCheckpoint(done)
     \/ At("find_retained") /\ FindRetained
     \/ At("read_source") /\ seen' = [seen EXCEPT !.source = SourceTable]
     \/ At("read_table") /\ seen' = [seen EXCEPT !.table = current]
     \/ At("measure_before") /\ seen' = [seen EXCEPT !.before = dataFiles]
     \/ At("measure_after") /\ seen' = [seen EXCEPT !.after = dataFiles]
  /\ Go /\ UNCHANGED <<system, ownId>>

\* The event-id audit: the ids of the current rows and of the changelog, and
\* the number of changelog rows.
CountIgnored == TRUE
CountMatches == RowsOf(Logged) = RowsOf(binlog)
Consistent ==
  /\ seen.table = SourceTable
  /\ EventIds(Logged) = EventIds(binlog) /\ CountMatches

\* _wait_for_reconciliation reads the table and then the changelog, again and
\* again, and reports what it reads once more when they agree.
Audit ==
  /\ \/ /\ At("await_audit") /\ Consistent /\ Go /\ UNCHANGED seen
     \/ /\ At("await_audit") /\ ~Consistent
        /\ pc' = pc - 1 /\ UNCHANGED <<drill, ending, seen>>
     \/ /\ At("report") /\ seen' = [seen EXCEPT !.reported = Consistent] /\ Go
  /\ UNCHANGED <<system, ownId>>

\* The samples after the spike: until three in a row have no lag, or there
\* were enough.
Lag == IF RowsOf(Logged) < Cardinality(Present(SourceTable)) THEN 1 ELSE 0
Sample ==
  LET zeros == IF Lag > 0 THEN 0 ELSE IF seen.zeros = 3 THEN 3 ELSE seen.zeros + 1 IN
  /\ At("sample")
  /\ seen' = [seen EXCEPT !.zeros = zeros, !.lagged = @ \/ Lag > 0]
  /\ Go \/ (zeros < 3 /\ UNCHANGED <<drill, pc, ending>>)
  /\ UNCHANGED <<system, ownId>>

-----------------------------------------------------------------------------
(* How a drill ends. *)

ChecksHold ==
  CASE drill = "smoke" -> seen.table = seen.source
    [] drill = "small_file_rewrite" -> seen.after < seen.before
    [] drill = "checkpoint_metrics" -> seen.lagged /\ seen.zeros > 0
    [] OTHER -> TRUE

Conclude ==
  /\ At("verdict")
  /\ IF ChecksHold
     THEN verdict' = "passed" /\ UNCHANGED <<system, script, seen, reason, cleaned>>
     ELSE Raise("checks")

\* A step raises before it has any effect.
StepRaises == drill \in MayRaise /\ verdict = "none" /\ Raise("error")

\* The finally clauses: the verifier cancels every job it finds listed, the
\* small-file and metrics drills the one whose id they hold, and an error is
\* ignored; the smoke leaves its job running.
Canceled ==
  CASE drill = "smoke" -> {}
    [] drill \in Careless -> IF ownId THEN {"first"} ELSE {}
    [] OTHER -> Name
Finally ==
  /\ verdict # "none" /\ ~cleaned /\ cleaned' = TRUE
  /\ job' \in {CancelEach(Canceled)} \cup {job}
  /\ UNCHANGED <<binlog, marker, disk, clusterUp, tables, script, seen, verdict,
                 reason>>

DrillStep ==
  \/ CancelListed \/ ResetTables \/ Submit \/ TakeSavepoint \/ CancelJob
  \/ RestartJobManager \/ SubmitRestored \/ Write \/ Rewrite
  \/ Await \/ ReadSomething \/ Audit \/ Sample \/ Conclude \/ Finally

\* Bound: what the jobs do after a drill has failed or cleaned up is not
\* followed.
Followed == verdict # "failed" /\ ~cleaned

Next == (Followed /\ SystemStep) \/ DrillStep \/ StepRaises

Spec == Init /\ [][Next]_vars

\* Flink and the drill keep running; no step has to fail.
FairSpec == Spec /\ WF_vars(Followed /\ SystemStep) /\ WF_vars(DrillStep)

-----------------------------------------------------------------------------

Copies(i) == Cardinality({n \in DOMAIN changelog : changelog[n].change = i})

\* No job but the ones of the drill, one after the other, wrote the tables.
Undisturbed == late = {} /\ \A i \in DOMAIN changelog : changelog[i].by \in Own

\* A drill that passes tells the truth, although it read source, table and
\* changelog one after the other around a failure or a change of jobs: every
\* change is in the changelog once and the current table is the source table,
\* and the snapshot the artifact reports, read after the one that was waited
\* for, agrees.  Not so if a canceled job published behind the back of the
\* restored one, whose drill did not wait for it to be gone, or if a job of an
\* earlier run made up for the lag of the one that is measured.
PassIsTrue ==
  verdict = "passed" /\ Undisturbed =>
    /\ drill # "checkpoint_metrics" => current = SourceTable
    /\ drill \notin Careless => \A i \in DOMAIN binlog : Copies(i) = 1
    /\ drill \notin Careless \cup {"smoke"} => seen.reported
    /\ drill = "checkpoint_metrics" => \A i \in DOMAIN binlog : Copies(i) > 0

\* What a restored job replays or finds in its state is what the tables lack:
\* no change is published twice by the jobs of a drill, with the same
\* exception.  And a drill that fails on an error a cancellation raises writes
\* its tables alone: a job left by an earlier run that goes on reading the
\* source does not get its rows into the tables created anew.
WrittenOnce ==
  drill \notin Careless =>
    /\ late = {} => \A i \in DOMAIN binlog : Copies(i) <= 1
    /\ \A i \in DOMAIN changelog : changelog[i].by \in Own

\* No assertion fails over a healthy pipeline but two kinds: the restore point
\* may be gone or incomplete when it was found before the job stopped, or by
\* the number of its directory; and the small-file and metrics drills need a
\* number of files and a lag that they do not wait for.
OnlyKnownAlarms ==
  verdict = "failed" =>
    \/ reason = "error"
    \/ reason = "restore_point" /\ drill \in {"checkpoint_restore", "jobmanager_restart"}
    \/ reason = "checks" /\ drill \in Careless

\* Nothing is written to the table while its files are measured, rewritten
\* and measured again, though the canceled job may not be gone: it has nothing
\* left to publish.
RewriteAlone ==
  [][drill = "small_file_rewrite" /\ Step.do \in {"rewrite", "measure_after", "verdict"}
       /\ job["left"].status \notin {"RUNNING", "RESTARTING"}
     => current' = current /\ (dataFiles' = dataFiles \/ At("rewrite"))]_vars

\* Every drill ends and cleans up unless an error ends it first, or a late
\* commit leaves it waiting for tables that will not be.
Finishes == <>(cleaned \/ late # {})
=============================================================================
