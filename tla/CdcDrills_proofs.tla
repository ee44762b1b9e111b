--------------------------- MODULE CdcDrills_proofs ---------------------------
(***************************************************************************)
(* Theorems about CdcDrills, for any set of its drills, whatever step may  *)
(* fail: the jobs of a drill publish every change at most once and alone,  *)
(* nothing is written while files are measured and rewritten, and what is  *)
(* kept has its type, down to the rows and events the steps have written.  *)
(***************************************************************************)
EXTENDS CdcDrills, WellFoundedInduction, FiniteSetTheorems, TLAPS

-----------------------------------------------------------------------------
(* The last of several changes. *)

\* A non-empty set of numbers up to n has a greatest element: the last of several
\* changes is one of them.  It is where the distance to n is least.
LEMMA Greatest ==
  ASSUME NEW n \in Nat, NEW T, T \subseteq 0 .. n, T # {}
  PROVE  \E x \in T : \A y \in T : y <= x
<1> DEFINE mirror == {m \in Nat : \E x \in T : m + x = n}
<1>1. mirror # {} /\ mirror \subseteq Nat
  <2>1. PICK x \in T : TRUE
    OBVIOUS
  <2>2. n - x \in mirror
    BY <2>1
  <2> QED BY <2>2
<1>2. PICK m \in mirror : \A l \in mirror : <<l, m>> \notin OpToRel(<, Nat)
  <2> HIDE DEF mirror
  <2> QED BY <1>1, NatLessThanWellFounded, WFMin
<1>3. \A l \in mirror : ~(l < m)
  BY <1>2 DEF OpToRel
<1>4. PICK x \in T : m + x = n
  OBVIOUS
<1>5. ASSUME NEW y \in T PROVE y <= x
  <2>1. n - y \in mirror
    OBVIOUS
  <2> QED BY <1>3, <1>4, <2>1
<1> QED BY <1>5

-----------------------------------------------------------------------------
(* The drills by what happens to their jobs, and the steps by number. *)

Fault == {"task_crash", "sink_commit_fault"}
Restoring == {"checkpoint_restore", "jobmanager_restart", "savepoint_restore", "smoke"}
Rewriting == "small_file_rewrite"
Judged == Fault \cup Restoring \cup {Rewriting}

\* The drill waits for the rows, stops its job, restores it.
FillsAt(d) == IF d = Rewriting THEN 11 ELSE 7
StopsAt(d) == IF d = Rewriting THEN 13 ELSE IF d = "savepoint_restore" THEN 10 ELSE 9
RestoresAt(d) == IF d = "smoke" THEN 10 ELSE 11

Writes == {"insert", "update", "delete"}

-----------------------------------------------------------------------------
(* The inductive invariant. *)

F == job["first"]
R == job["restored"]

ScriptInv ==
  /\ drill \in Drills /\ pc \in 1 .. Len(Script[drill])
  /\ verdict \in {"none", "passed", "failed"} /\ cleaned \in BOOLEAN
  /\ cleaned => verdict # "none"
  /\ tableId = IF pc <= 3 THEN 0 ELSE 1

Elements(s) == {s[i] : i \in 1 .. Len(s)}
TypeInv ==
  /\ binlog \in Seq(Elements(binlog)) /\ Len(binlog) \in Nat
  /\ job \in [Name -> Job]
  /\ changelog \in Seq([change : Nat, by : Name])
  /\ current = [r \in Row |-> current[r]]
  /\ maxId \in [Name -> [Sink -> Nat]]
  /\ points \subseteq Point /\ aborted \subseteq Nat
  /\ "point" \in DOMAIN seen /\ seen.point \in Point

\* A job of an earlier run that could not be canceled, whatever else it is.
LeftActive ==
  /\ drill \in Careless /\ pc > 1
  /\ "left" \in DOMAIN job /\ "status" \in DOMAIN job["left"]
  /\ job["left"].status \in {"RUNNING", "RESTARTING"}

\* Otherwise it has never read anything, and does not run once the tables are
\* created anew.
LeftInv ==
  LET l == job["left"] IN
  /\ l.pend = NoPoint.pend /\ l.ongoing = NoPoint /\ l.notify = {} /\ l.recover = {}
  /\ l.status \in {"absent", "RUNNING", "CANCELING"}
  /\ l.status = "RUNNING" => pc = 1

\* Before the drill's own job is submitted nothing happens.
StartInv ==
  pc <= 4 =>
    /\ binlog = <<>> /\ F = NoJob /\ R = NoJob
    /\ changelog = <<>> /\ \A r \in Row : current[r] = 0
    /\ points = {} /\ aborted = {} /\ \A s \in Sink : maxId["first"][s] = 0

\* Files of checkpoints up to id, of changes up to pos, none in two of them.
Intervals(files, id, pos) ==
  /\ \A f \in files : 1 <= f.id /\ f.id <= id /\ f.lo < f.hi /\ f.hi <= pos
  /\ \A f, g \in files : f = g \/ f.hi <= g.lo \/ g.hi <= f.lo

\* What job r holds back and what its last checkpoint says.
Sound(r) ==
  /\ r.status # "absent" =>
       r.read <= Len(binlog) /\ r.done.id <= r.epoch /\ r.done.pos <= r.read
  /\ r.done.id = 0 => r.done = NoPoint
  /\ \A s \in Sink :
       /\ Intervals(r.pend[s], r.epoch, r.read)
       /\ Intervals(r.done.pend[s], r.done.id, r.done.pos)
       /\ \A f \in r.pend[s] : IF f.id <= r.done.id THEN f.hi <= r.done.pos
                               ELSE r.done.pos <= f.lo
       /\ s \in r.recover => r.pend[s] = r.done.pend[s]
  /\ r.ongoing # NoPoint =>
       /\ r.status = "RUNNING" /\ r.notify = {} /\ r.recover = {}
       /\ r.ongoing = PointOf(r) /\ r.done.id < r.epoch
  /\ r.recover # {} => r.notify = {} /\ r.ongoing = NoPoint
  /\ r.status \in {"absent", "STARTING", "RESTARTING"} =>
       r.notify = {} /\ r.recover = {} /\ r.ongoing = NoPoint
  /\ r.status \in {"absent", "RESTARTING"} => r.pend = NoPoint.pend
  /\ r.status = "STARTING" => r.pend = r.done.pend
  /\ r.status = "RUNNING" \/ r.notify # {} => r.table = 1

FirstInv ==
  /\ F.status = "STARTING" => F = [NoJob EXCEPT !.status = "STARTING"]
  /\ drill \notin Fault =>
       F.status # "RESTARTING" /\ F.recover = {} /\ "fault" \notin F.notify
  /\ drill \notin Fault /\ pc > 4 =>
       F.status \in IF pc > StopsAt(drill) THEN {"absent", "CANCELING"}
                     ELSE {"STARTING", "RUNNING"}

Within(f, i) == f.lo < i /\ i <= f.hi
Published == {changelog[n].change : n \in DOMAIN changelog}
Unpublished(files) == \A f \in files, i \in Published : ~Within(f, i)
Beyond(files, id) == {f \in files : f.id > id}
Log == "changelog"

\* The restored job has taken the tables over.
HandedOver == R.status \notin {"absent", "STARTING"} /\ Log \notin R.recover

\* No change is in the changelog twice, and by whom.
OnceInv ==
  /\ \A n \in DOMAIN changelog : changelog[n].by \in Own /\ changelog[n].change <= Len(binlog)
  /\ Log \notin late =>
       \A m, n \in DOMAIN changelog : changelog[m].change = changelog[n].change => m = n

\* What the first job holds is not in the changelog, and of what its last
\* checkpoint holds only what the summary of the table has.
FirstLogInv ==
  ~HandedOver =>
    /\ \A i \in Published : i <= F.done.pos
    /\ Log \notin F.recover => Unpublished(F.pend[Log])
    /\ Unpublished(Beyond(F.done.pend[Log], maxId["first"][Log]))

\* A point the first job can be restored from without a loss or a repetition.
GoodPoint(q) ==
  /\ q.id >= 1 /\ q.pos = Len(binlog)
  /\ \A s \in Sink : Intervals(q.pend[s], q.id, q.pos)
  /\ \A f \in q.pend[Log] : f.id <= F.done.id
  /\ Unpublished(Beyond(q.pend[Log], maxId["first"][Log]))

\* What the drill has read to restore from is good, once it has read it.
RestorePoint ==
  CASE drill \in {"savepoint_restore", "smoke"} ->
         pc >= StopsAt(drill) => GoodPoint(seen.point)
    [] drill = "jobmanager_restart" -> pc >= 9 => GoodPoint(seen.point)
    [] OTHER -> pc = 11 /\ seen.point \in points => GoodPoint(seen.point)

\* From the moment all rows are there to the restoration nothing is written, and
\* the points the drill may restore from are good.
StopInv ==
  drill \in Restoring =>
    /\ pc < FillsAt(drill) => binlog = <<>>
    /\ pc = FillsAt(drill) => Len(binlog) = Step.n /\ Len(binlog) > 0
    /\ pc > FillsAt(drill) /\ pc <= RestoresAt(drill) =>
         F.done.pos = Len(binlog) /\ F.done.id >= 1
    /\ pc <= RestoresAt(drill) => R = NoJob
    /\ pc <= RestoresAt(drill) => RestorePoint

\* The checkpoints of the first job on disk.
DiskInv ==
  drill = "checkpoint_restore" /\ pc <= RestoresAt(drill) =>
    /\ \A p \in points : p = F.done \/ p.id < F.done.id
    /\ F.done.id > 0 => F.done \in points
    /\ pc <= StopsAt(drill) => aborted = {}
    /\ \A a, b \in aborted : a = b

\* What the restored job holds is not in the changelog, or the summary has it.
RestoredInv ==
  /\ drill \notin Restoring => R = NoJob
  /\ R.status \in {"absent", "STARTING", "RUNNING"}
  /\ "fault" \notin R.notify
  /\ drill \in Restoring /\ pc > RestoresAt(drill) /\ ~HandedOver =>
       /\ R.done.id >= 1 /\ R.pend[Log] = R.done.pend[Log]
       /\ F.done.pos <= R.done.pos
       /\ \A f \in R.pend[Log] : f.id <= F.done.id
       /\ Unpublished(Beyond(R.pend[Log], maxId["first"][Log]))
  /\ R.status \in {"absent", "STARTING"} => R.table = 0
  /\ HandedOver => R.table = 1
  /\ HandedOver /\ Log \notin late =>
       /\ \A i \in Published : i <= R.done.pos
       /\ Unpublished(R.pend[Log])

\* The rows of the current table come from what the first job has published.
ShownInv ==
  drill \notin Fault /\ pc <= FillsAt(drill) =>
    \A r \in Row : current[r] # 0 =>
      \E i \in 1 .. F.done.pos :
        binlog[i].row = r /\ \A f \in F.pend["current"] : ~Within(f, i)

\* Once all rows are there, the job of the small-file drill has nothing left.
RewriteInv ==
  drill = Rewriting =>
    /\ pc <= 7 => binlog = <<>>
    /\ pc \in 8 .. 9 => Len(binlog) = 1
    /\ pc > 9 => Len(binlog) = 2
    /\ pc > FillsAt(drill) => F.pend["current"] = {} /\ F.done.pos = Len(binlog)

Inv ==
  /\ TypeInv /\ LeftInv /\ StartInv /\ Sound(F) /\ Sound(R)
  /\ FirstInv /\ OnceInv /\ FirstLogInv /\ StopInv /\ DiskInv /\ RestoredInv
  /\ ShownInv /\ RewriteInv

\* Nothing else matters once the drill has failed or cleaned up.
IInv ==
  /\ drill \in Drills
  /\ drill \in Judged => ScriptInv /\ (~LeftActive => OnceInv /\ (Followed => Inv))

-----------------------------------------------------------------------------
(* The scripts, put together from stretches. *)

Op(d, i) == Script[d][i].do
InsertsRows(step) == step.do = "insert" => step.n \in Nat
Submission == {"cancel_listed", "reset_tables", "submit"}
Stops == {"cancel", "restart_jobmanager"}
Seams == Stops \cup {"savepoint", "find_retained", "submit_restored"}
AfterRestart ==
  Writes \cup {"await_restored", "await_statuses", "read_table", "read_source",
               "await_audit", "await_changelog", "report", "verdict"}

\* A drill starts from new tables and ends with its verdict.
Framed(d) ==
  LET last == Len(Script[d]) IN
  /\ last \in Nat /\ last > 4 /\ Op(d, last) = "verdict"
  /\ Op(d, 1) = "cancel_listed" /\ Op(d, 2) = "await_cluster"
  /\ Op(d, 3) = "reset_tables" /\ Op(d, 4) = "submit"
  /\ \A i \in 5 .. last : Op(d, i) \notin Submission
  /\ \A i \in 1 .. last : Op(d, i) = "await_audit" => i > 12

\* It inserts rows and waits for them, stops its job and restores it, and writes
\* again only then.
StopsAndRestores(d) ==
  /\ Len(Script[d]) > RestoresAt(d)
  /\ Op(d, 5) = "await_job" /\ Op(d, 6) = "insert" /\ Op(d, 7) = "await_rows"
  /\ Script[d][6].n = Script[d][7].n /\ Script[d][7].n \in Nat \ {0}
  /\ Op(d, RestoresAt(d)) = "submit_restored"
  /\ CASE d = "checkpoint_restore" -> /\ Op(d, 8) = "require_checkpoint"
                                      /\ Op(d, 9) = "cancel" /\ Op(d, 10) = "find_retained"
       [] d = "jobmanager_restart" -> /\ Op(d, 8) = "require_checkpoint"
                                      /\ Op(d, 9) = "restart_jobmanager"
                                      /\ Op(d, 10) = "await_cluster"
       [] d = "savepoint_restore" -> /\ Op(d, 8) = "require_checkpoint"
                                     /\ Op(d, 9) = "savepoint" /\ Op(d, 10) = "cancel"
       [] d = "smoke" -> Op(d, 8) = "savepoint" /\ Op(d, 9) = "cancel"
  /\ \A i \in RestoresAt(d) + 1 .. Len(Script[d]) :
       Op(d, i) \in AfterRestart /\ InsertsRows(Script[d][i])

Rewrites(d) ==
  LET is(i, op) == Op(d, i) = op IN
  /\ Len(Script[d]) = 17
  /\ is(5, "await_job") /\ is(6, "require_checkpoint")
  /\ is(7, "insert") /\ is(8, "await_checkpoint_after")
  /\ is(9, "insert") /\ is(10, "await_checkpoint_after")
  /\ is(11, "await_rows") /\ is(12, "await_checkpoint_after") /\ is(13, "cancel")
  /\ is(14, "measure_before") /\ is(15, "rewrite") /\ is(16, "measure_after")
  /\ is(17, "verdict")
  /\ Script[d][7].n = 1 /\ Script[d][9].n = 1 /\ Script[d][11].n = 2

Legal(d) ==
  /\ d \in Judged => Framed(d)
  /\ d \in Fault =>
       \A i \in 1 .. Len(Script[d]) : Op(d, i) \notin Seams /\ InsertsRows(Script[d][i])
  /\ d \in Restoring => StopsAndRestores(d)
  /\ d = Rewriting => Rewrites(d)

\* The value of a step.
LEMMA Steps ==
  /\ \A op : Do(op).do = op /\ Do(op).n = 0
  /\ \A op, n : DoN(op, n).do = op /\ DoN(op, n).n = n
BY DEF Do, DoN

Stretch(s) == s \in Seq(Elements(s)) /\ Len(s) \in Nat

\* Sequence u is s and then t.
IsJoin(u, s, t) ==
  /\ Stretch(u) /\ Len(u) = Len(s) + Len(t)
  /\ \A i \in 1 .. Len(s) : u[i] = s[i]
  /\ \A i \in 1 .. Len(t) : u[Len(s) + i] = t[i]

\* Sequences put together are a sequence, and where their elements are.
LEMMA Join ==
  ASSUME NEW s, NEW t, Stretch(s), Stretch(t)
  PROVE  IsJoin(s \o t, s, t) /\ Stretch(s \o t)
<1> DEFINE S == Elements(s) \cup Elements(t)
           u == s \o t
<1>1. s \in Seq(S) /\ t \in Seq(S) /\ Len(s) \in Nat /\ Len(t) \in Nat
  BY DEF Stretch
<1>2. u \in Seq(S) /\ Len(u) = Len(s) + Len(t)
  BY <1>1
<1>3. \A i \in 1 .. Len(s) : u[i] = s[i]
  BY <1>1
<1>4. ASSUME NEW i \in 1 .. Len(t) PROVE u[Len(s) + i] = t[i]
  BY <1>1, <1>2
<1> HIDE DEF u
<1>5. Len(u) \in Nat /\ u = [i \in 1 .. Len(u) |-> u[i]]
  BY <1>1, <1>2
<1>6. \A i \in 1 .. Len(u) : u[i] \in Elements(u)
  BY DEF Elements
<1>7. u \in Seq(Elements(u))
  BY <1>5, <1>6
<1> QED BY <1>2, <1>3, <1>4, <1>5, <1>7 DEF Stretch, u, IsJoin

\* Behind step k, sequence s only takes steps of ops, and inserts a number of rows.
Rest(s, k, ops) ==
  \A i \in 1 .. Len(s) : i > k => s[i].do \in ops /\ InsertsRows(s[i])

\* What holds of the steps of two stretches holds of both together.
LEMMA JoinRest ==
  ASSUME NEW u, NEW s, NEW t, IsJoin(u, s, t), Stretch(s), Stretch(t),
         NEW k \in Nat, NEW A, Rest(s, k, A), Rest(t, 0, A)
  PROVE  Rest(u, k, A)
<1>1. /\ Len(s) \in Nat /\ Len(t) \in Nat /\ Len(u) = Len(s) + Len(t)
      /\ \A i \in 1 .. Len(s) : u[i] = s[i]
      /\ \A i \in 1 .. Len(t) : u[Len(s) + i] = t[i]
  BY DEF Stretch, IsJoin
<1>2. ASSUME NEW i \in 1 .. Len(u), i > k PROVE u[i].do \in A /\ InsertsRows(u[i])
  <2>1. CASE i <= Len(s)
    BY <1>1, <1>2, <2>1 DEF Rest
  <2>2. CASE i > Len(s)
    <3>1. PICK j \in 1 .. Len(t) : i = Len(s) + j
      <4>1. i - Len(s) \in 1 .. Len(t) /\ i = Len(s) + (i - Len(s))
        BY <1>1, <2>2
      <4> QED BY <4>1
    <3>2. j > 0 /\ u[i] = t[j]
      BY <1>1, <3>1
    <3> QED BY <3>2 DEF Rest
  <2> QED BY <1>1, <2>1, <2>2
<1> QED BY <1>2 DEF Rest

\* The first steps of every drill.
Opening == Reset \o <<Do("submit"), Do("await_job")>>
IsOpening(s) ==
  /\ s[1].do = "cancel_listed" /\ s[2].do = "await_cluster" /\ s[3].do = "reset_tables"
  /\ s[4].do = "submit" /\ s[5].do = "await_job"

\* Every drill starts with five steps: it cancels the jobs it finds, waits for the
\* cluster, drops and creates the tables, submits its job and waits for it.
LEMMA OpeningIs == Stretch(Opening) /\ Len(Opening) = 5 /\ IsOpening(Opening)
<1> DEFINE t == <<Do("submit"), Do("await_job")>>
           u == Reset \o t
<1>1. /\ Stretch(Reset) /\ Len(Reset) = 3 /\ Reset[1].do = "cancel_listed"
      /\ Reset[2].do = "await_cluster" /\ Reset[3].do = "reset_tables"
  BY Steps DEF Reset, Stretch, Elements
<1>2. Stretch(t) /\ Len(t) = 2 /\ t[1].do = "submit" /\ t[2].do = "await_job"
  BY Steps DEF Stretch, Elements
<1> HIDE DEF t
<1>3. IsJoin(u, Reset, t)
  BY <1>1, <1>2, Join
<1> HIDE DEF u
<1>4. /\ Stretch(u) /\ Len(u) = 5
      /\ \A i \in 1 .. 3 : u[i] = Reset[i]
      /\ \A i \in 1 .. 2 : u[3 + i] = t[i]
  BY <1>1, <1>2, <1>3 DEF IsJoin
<1>5. /\ u[1] = Reset[1] /\ u[2] = Reset[2] /\ u[3] = Reset[3]
      /\ u[3 + 1] = t[1] /\ u[3 + 2] = t[2]
  BY <1>4
<1>6. u[4] = t[1] /\ u[5] = t[2]
  BY <1>5
<1> QED BY <1>1, <1>2, <1>4, <1>5, <1>6 DEF Opening, t, u, IsOpening

\* The first seven of those that insert rows at once.
IsFilling(s, n) ==
  /\ IsOpening(s) /\ s[6].do = "insert" /\ s[7].do = "await_rows" /\ s[6].n = n /\ s[7].n = n

\* Drills that restore a job insert n rows at once and wait for n.
LEMMA FillingIs ==
  ASSUME NEW n
  PROVE  /\ Stretch(Opening \o Insert(n, n)) /\ Len(Opening \o Insert(n, n)) = 7
         /\ IsFilling(Opening \o Insert(n, n), n)
<1> DEFINE t == Insert(n, n)
           u == Opening \o t
<1>1. /\ Stretch(t) /\ Len(t) = 2 /\ t[1].do = "insert" /\ t[2].do = "await_rows"
      /\ t[1].n = n /\ t[2].n = n
  BY Steps DEF Insert, Stretch, Elements
<1> HIDE DEF t
<1>2. IsJoin(u, Opening, t)
  BY <1>1, OpeningIs, Join
<1> HIDE DEF u
<1>3. /\ Stretch(u) /\ Len(u) = 7
      /\ \A i \in 1 .. 5 : u[i] = Opening[i]
      /\ \A i \in 1 .. 2 : u[5 + i] = t[i]
  BY <1>1, <1>2, OpeningIs DEF IsJoin
<1>4. /\ u[1] = Opening[1] /\ u[2] = Opening[2] /\ u[3] = Opening[3]
      /\ u[4] = Opening[4] /\ u[5] = Opening[5]
      /\ u[5 + 1] = t[1] /\ u[5 + 2] = t[2]
  BY <1>3
<1>5. u[6] = t[1] /\ u[7] = t[2]
  BY <1>4
<1> QED BY <1>1, <1>3, <1>4, <1>5, OpeningIs DEF t, u, IsOpening, IsFilling

\* How a whole script is framed.
IsFramed(s) ==
  /\ Stretch(s) /\ Len(s) > 4 /\ IsOpening(s) /\ s[Len(s)].do = "verdict"
  /\ \A i \in 5 .. Len(s) : s[i].do \notin Submission
  /\ \A i \in 1 .. Len(s) : s[i].do = "await_audit" => i > 12

\* The updates are written and waited for.
LEMMA UpdatesAre ==
  /\ Stretch(Updates) /\ Len(Updates) = 2
  /\ Updates[1].do = "update" /\ Updates[2].do = "await_statuses"
BY Steps DEF Updates, Stretch, Elements

\* A drill that reconciles ends by reading and reporting only.
LEMMA ReconcileIs ==
  /\ Stretch(Reconcile) /\ Len(Reconcile) = 5 /\ Reconcile[5].do = "verdict"
  /\ Rest(Reconcile, 0, {"read_table", "await_audit", "report", "verdict"})
BY Steps DEF Reconcile, Stretch, Elements, Rest, InsertsRows

FaultSteps ==
  Writes \cup {"await_job", "await_rows", "require_checkpoint", "await_marker",
               "await_statuses", "read_table", "await_audit", "report", "verdict"}

\* The fault drills never stop or restore a job themselves.
LEMMA FaultDrillIs == IsFramed(FaultDrill) /\ Rest(FaultDrill, 4, FaultSteps)
<1> DEFINE b == <<Do("require_checkpoint"), DoN("insert", 2), Do("await_marker"),
                  Do("await_job"), DoN("await_rows", 4)>>
           c == <<Do("delete")>>
           q2 == Opening \o Insert(2, 2)
           q3 == q2 \o b
           q4 == q3 \o Updates
           q5 == q4 \o c
           q6 == q5 \o Reconcile
           early == FaultSteps \ {"await_audit"}
<1>1. /\ Stretch(b) /\ Len(b) = 5
      /\ Rest(b, 0, early)
  BY Steps DEF Stretch, Elements, Rest, InsertsRows, FaultSteps, Writes
<1>2. Stretch(c) /\ Len(c) = 1 /\ Rest(c, 0, FaultSteps)
  BY Steps DEF Stretch, Elements, Rest, InsertsRows, FaultSteps, Writes
<1> HIDE DEF b, c
<1>3. Stretch(q2) /\ Len(q2) = 7 /\ IsFilling(q2, 2)
  BY FillingIs
<1> HIDE DEF q2
<1>4. Rest(q2, 4, early)
  BY <1>3 DEF Rest, InsertsRows, IsFilling, IsOpening, FaultSteps, Writes
<1>5. IsJoin(q3, q2, b) /\ Stretch(q3)
  BY <1>1, <1>3, Join
<1> HIDE DEF q3
<1>6. IsJoin(q4, q3, Updates) /\ Stretch(q4)
  BY <1>5, UpdatesAre, Join
<1> HIDE DEF q4
<1>7. IsJoin(q5, q4, c) /\ Stretch(q5)
  BY <1>6, <1>2, Join
<1> HIDE DEF q5
<1>8. IsJoin(q6, q5, Reconcile) /\ Stretch(q6)
  BY <1>7, ReconcileIs, Join
<1> HIDE DEF q6
<1>9. /\ Stretch(q3) /\ Stretch(q4) /\ Stretch(q5) /\ Stretch(q6)
      /\ Len(q3) = 12 /\ Len(q4) = 14 /\ Len(q5) = 15 /\ Len(q6) = 20
  BY <1>1, <1>2, <1>3, <1>5, <1>6, <1>7, <1>8, UpdatesAre, ReconcileIs DEF IsJoin
<1>10. Rest(q3, 4, early)
  BY <1>1, <1>3, <1>4, <1>5, JoinRest
<1>11. Rest(q3, 4, FaultSteps)
  BY <1>10 DEF Rest, InsertsRows
<1>12. Rest(Updates, 0, FaultSteps) /\ Rest(Reconcile, 0, FaultSteps)
  BY UpdatesAre, ReconcileIs DEF Rest, InsertsRows, FaultSteps, Writes
<1>13. Rest(q4, 4, FaultSteps)
  BY <1>6, <1>9, <1>11, <1>12, UpdatesAre, JoinRest
<1>14. Rest(q5, 4, FaultSteps)
  BY <1>2, <1>7, <1>9, <1>13, JoinRest
<1>15. Rest(q6, 4, FaultSteps)
  BY <1>8, <1>9, <1>12, <1>14, ReconcileIs, JoinRest
<1>16. \A i \in 1 .. 12 : q6[i] = q3[i]
  BY <1>6, <1>7, <1>8, <1>9 DEF IsJoin
<1>17. \A i \in 1 .. 7 : q6[i] = q2[i]
  BY <1>3, <1>5, <1>9, <1>16 DEF IsJoin
<1>18. IsOpening(q6)
  BY <1>3, <1>17 DEF IsFilling, IsOpening
<1>19. q6[15 + 5] = Reconcile[5]
  BY <1>8, <1>9, ReconcileIs DEF IsJoin
<1>20. q6[Len(q6)].do = "verdict"
  BY <1>9, <1>19, ReconcileIs
<1>21. \A i \in 1 .. 12 : q6[i].do # "await_audit"
  BY <1>9, <1>10, <1>16, <1>18 DEF Rest, InsertsRows, IsOpening
<1>22. \A i \in 5 .. Len(q6) : q6[i].do \notin Submission
  BY <1>9, <1>15 DEF Rest, InsertsRows, FaultSteps, Writes, Submission
<1>23. IsFramed(q6)
  BY <1>9, <1>18, <1>20, <1>21, <1>22 DEF IsFramed
<1>24. q6 = FaultDrill
  BY DEF FaultDrill, Opening, b, c, q2, q3, q4, q5, q6
<1> QED BY <1>15, <1>23, <1>24

\* The stretch in which a drill stops its job and restores it.
IsStop(s) ==
  /\ Stretch(s) /\ Len(s) = 3 /\ s[3].do = "submit_restored"
  /\ Rest(s, 0, Seams \cup {"await_cluster"})

IsRestore(s, stop) ==
  /\ IsFramed(s) /\ IsFilling(s, 3) /\ s[8].do = "require_checkpoint" /\ Len(s) > 11
  /\ s[9] = stop[1] /\ s[10] = stop[2] /\ s[11] = stop[3]
  /\ Rest(s, 11, AfterRestart)

\* The drills that restore a job stop it in between, whatever the stop is.
LEMMA RestoreDrillIs ==
  ASSUME NEW stop, IsStop(stop)
  PROVE  IsRestore(RestoreDrill(stop), stop)
<1> DEFINE b == <<Do("require_checkpoint")>>
           c == <<Do("await_restored")>>
           e == <<Do("delete"), DoN("insert", 1)>>
           q2 == Opening \o Insert(3, 3)
           q3 == q2 \o b
           q4 == q3 \o stop
           q5 == q4 \o c
           q6 == q5 \o Updates
           q7 == q6 \o e
           q8 == q7 \o Reconcile
<1>1. Stretch(b) /\ Len(b) = 1 /\ b[1].do = "require_checkpoint"
  BY Steps DEF Stretch, Elements
<1>2. Stretch(c) /\ Len(c) = 1 /\ c[1].do = "await_restored"
  BY Steps DEF Stretch, Elements
<1>3. Stretch(e) /\ Len(e) = 2 /\ Rest(e, 0, AfterRestart)
  BY Steps DEF Stretch, Elements, Rest, InsertsRows, AfterRestart, Writes
<1> HIDE DEF b, c, e
<1>4. Stretch(q2) /\ Len(q2) = 7 /\ IsFilling(q2, 3)
  BY FillingIs
<1> HIDE DEF q2
<1>5. Stretch(stop) /\ Len(stop) = 3
  BY DEF IsStop
<1>6. IsJoin(q3, q2, b) /\ Stretch(q3)
  BY <1>1, <1>4, Join
<1> HIDE DEF q3
<1>7. IsJoin(q4, q3, stop) /\ Stretch(q4)
  BY <1>5, <1>6, Join
<1> HIDE DEF q4
<1>8. IsJoin(q5, q4, c) /\ Stretch(q5)
  BY <1>2, <1>7, Join
<1> HIDE DEF q5
<1>9. IsJoin(q6, q5, Updates) /\ Stretch(q6)
  BY <1>8, UpdatesAre, Join
<1> HIDE DEF q6
<1>10. IsJoin(q7, q6, e) /\ Stretch(q7)
  BY <1>3, <1>9, Join
<1> HIDE DEF q7
<1>11. IsJoin(q8, q7, Reconcile) /\ Stretch(q8)
  BY <1>10, ReconcileIs, Join
<1> HIDE DEF q8
<1>12. /\ Stretch(q3) /\ Stretch(q4) /\ Stretch(q5) /\ Stretch(q6) /\ Stretch(q7) /\ Stretch(q8)
       /\ Len(q3) = 8 /\ Len(q4) = 11 /\ Len(q5) = 12 /\ Len(q6) = 14 /\ Len(q7) = 16
       /\ Len(q8) = 21
  BY <1>1, <1>2, <1>3, <1>4, <1>5, <1>6, <1>7, <1>8, <1>9, <1>10, <1>11, UpdatesAre,
     ReconcileIs DEF IsJoin
<1>13. /\ \A i \in 1 .. 7 : q8[i] = q2[i]
       /\ \A i \in 1 .. 8 : q8[i] = q3[i]
       /\ \A i \in 1 .. 12 : q8[i] = q5[i]
       /\ \A i \in 1 .. 11 : q8[i] = q4[i]
  <2>1. \A i \in 1 .. 12 : q8[i] = q5[i]
    BY <1>9, <1>10, <1>11, <1>12 DEF IsJoin
  <2>2. \A i \in 1 .. 11 : q8[i] = q4[i]
    BY <2>1, <1>8, <1>12 DEF IsJoin
  <2>3. \A i \in 1 .. 8 : q8[i] = q3[i]
    BY <2>2, <1>7, <1>12 DEF IsJoin
  <2>4. \A i \in 1 .. 7 : q8[i] = q2[i]
    BY <2>3, <1>6, <1>4, <1>12 DEF IsJoin
  <2> QED BY <2>1, <2>2, <2>3, <2>4
<1>14. q3[7 + 1] = b[1] /\ q4[8 + 1] = stop[1] /\ q4[8 + 2] = stop[2] /\ q4[8 + 3] = stop[3]
  <2>1. q3[7 + 1] = b[1]
    BY <1>1, <1>4, <1>6 DEF IsJoin
  <2>2. q4[8 + 1] = stop[1] /\ q4[8 + 2] = stop[2] /\ q4[8 + 3] = stop[3]
    BY <1>5, <1>7, <1>12 DEF IsJoin
  <2> QED BY <2>1, <2>2
<1>15. IsFilling(q8, 3)
  BY <1>4, <1>13 DEF IsFilling, IsOpening
<1>16. /\ q8[8].do = "require_checkpoint" /\ q8[9] = stop[1] /\ q8[10] = stop[2]
       /\ q8[11] = stop[3]
  BY <1>1, <1>13, <1>14
<1>17. Rest(q8, 11, AfterRestart)
  <2>1. Rest(q4, 11, AfterRestart)
    BY <1>12 DEF Rest, InsertsRows
  <2>2. Rest(c, 0, AfterRestart) /\ Rest(Updates, 0, AfterRestart)
    BY <1>2, UpdatesAre DEF Rest, InsertsRows, AfterRestart, Writes
  <2>3. Rest(Reconcile, 0, AfterRestart)
    BY ReconcileIs DEF Rest, InsertsRows, AfterRestart
  <2>4. Rest(q5, 11, AfterRestart)
    BY <1>2, <1>8, <1>12, <2>1, <2>2, JoinRest
  <2>5. Rest(q6, 11, AfterRestart)
    BY <1>9, <1>12, <2>2, <2>4, UpdatesAre, JoinRest
  <2>6. Rest(q7, 11, AfterRestart)
    BY <1>3, <1>10, <1>12, <2>5, JoinRest
  <2> QED BY <1>11, <1>12, <2>3, <2>6, ReconcileIs, JoinRest
<1>18. q8[16 + 5] = Reconcile[5]
  BY <1>11, <1>12, ReconcileIs DEF IsJoin
<1>19. q8[Len(q8)].do = "verdict"
  BY <1>12, <1>18, ReconcileIs
<1>20. q5[11 + 1] = c[1]
  BY <1>2, <1>8, <1>12 DEF IsJoin
<1>21. q8[12].do = "await_restored"
  BY <1>2, <1>13, <1>20
<1>22. /\ \A i \in 9 .. 11 : q8[i].do \in Seams \cup {"await_cluster"}
  BY <1>16 DEF IsStop, Rest, InsertsRows
<1>23. \A i \in 5 .. Len(q8) : q8[i].do \notin Submission
  <2>1. ASSUME NEW i \in 5 .. Len(q8) PROVE q8[i].do \notin Submission
    <3>1. CASE i \in 5 .. 8
      BY <3>1, <1>15, <1>16 DEF IsFilling, IsOpening, Submission
    <3>2. CASE i \in 9 .. 11
      BY <3>2, <1>22 DEF Seams, Stops, Submission
    <3>3. CASE i > 11
      BY <3>3, <1>12, <1>17 DEF Rest, InsertsRows, AfterRestart, Writes, Submission
    <3> QED BY <1>12, <3>1, <3>2, <3>3
  <2> QED BY <2>1
<1>24. \A i \in 1 .. Len(q8) : q8[i].do = "await_audit" => i > 12
  <2>1. ASSUME NEW i \in 1 .. Len(q8), q8[i].do = "await_audit", i <= 12 PROVE FALSE
    <3>1. CASE i \in 1 .. 8
      BY <2>1, <3>1, <1>15, <1>16 DEF IsFilling, IsOpening
    <3>2. CASE i \in 9 .. 11
      BY <2>1, <3>2, <1>22 DEF Seams, Stops
    <3>3. CASE i = 12
      BY <2>1, <3>3, <1>21
    <3> QED BY <1>12, <2>1, <3>1, <3>2, <3>3
  <2> QED BY <1>12, <2>1
<1>25. IsFramed(q8)
  BY <1>12, <1>15, <1>19, <1>23, <1>24 DEF IsFramed, IsFilling
<1>26. q8 = RestoreDrill(stop)
  BY DEF RestoreDrill, Opening, b, c, e, q2, q3, q4, q5, q6, q7, q8
<1>27. IsRestore(q8, stop)
  BY <1>12, <1>15, <1>16, <1>17, <1>25 DEF IsRestore
<1> QED BY <1>26, <1>27

IsSmoke(s) ==
  /\ IsFramed(s) /\ IsFilling(s, 2) /\ Len(s) > 10
  /\ s[8].do = "savepoint" /\ s[9].do = "cancel" /\ s[10].do = "submit_restored"
  /\ Rest(s, 10, AfterRestart)

\* The smoke restores a job from a savepoint like the others, without an audit.
LEMMA SmokeIs == IsSmoke(Smoke)
<1> DEFINE b == <<Do("savepoint"), Do("cancel"), Do("submit_restored"), Do("await_restored")>>
           c == <<Do("delete"), Do("await_statuses"), Do("read_source"), Do("read_table"),
                  Do("await_changelog"), Do("verdict")>>
           q2 == Opening \o Insert(2, 2)
           q3 == q2 \o b
           q4 == q3 \o Updates
           q5 == q4 \o c
           later == AfterRestart \ {"await_audit"}
<1>1. /\ Stretch(b) /\ Len(b) = 4
      /\ b[1].do = "savepoint" /\ b[2].do = "cancel" /\ b[3].do = "submit_restored"
      /\ b[4].do = "await_restored"
  BY Steps DEF Stretch, Elements
<1>2. Stretch(c) /\ Len(c) = 6 /\ c[6].do = "verdict" /\ Rest(c, 0, later)
  BY Steps DEF Stretch, Elements, Rest, InsertsRows, AfterRestart, Writes
<1> HIDE DEF b, c
<1>3. Stretch(q2) /\ Len(q2) = 7 /\ IsFilling(q2, 2)
  BY FillingIs
<1> HIDE DEF q2
<1>4. IsJoin(q3, q2, b) /\ Stretch(q3)
  BY <1>1, <1>3, Join
<1> HIDE DEF q3
<1>5. IsJoin(q4, q3, Updates) /\ Stretch(q4)
  BY <1>4, UpdatesAre, Join
<1> HIDE DEF q4
<1>6. IsJoin(q5, q4, c) /\ Stretch(q5)
  BY <1>2, <1>5, Join
<1> HIDE DEF q5
<1>7. Len(q3) = 11 /\ Len(q4) = 13 /\ Len(q5) = 19
  BY <1>1, <1>2, <1>3, <1>4, <1>5, <1>6, UpdatesAre DEF IsJoin
<1>8. /\ \A i \in 1 .. 7 : q5[i] = q2[i]
      /\ \A i \in 1 .. 11 : q5[i] = q3[i]
  <2>1. \A i \in 1 .. 11 : q5[i] = q3[i]
    BY <1>5, <1>6, <1>7 DEF IsJoin
  <2> QED BY <2>1, <1>3, <1>4 DEF IsJoin
<1>9. q3[7 + 1] = b[1] /\ q3[7 + 2] = b[2] /\ q3[7 + 3] = b[3] /\ q3[7 + 4] = b[4]
  BY <1>1, <1>3, <1>4 DEF IsJoin
<1>10. IsFilling(q5, 2)
  BY <1>3, <1>8 DEF IsFilling, IsOpening
<1>11. /\ q5[8].do = "savepoint" /\ q5[9].do = "cancel" /\ q5[10].do = "submit_restored"
       /\ q5[11].do = "await_restored"
  BY <1>1, <1>8, <1>9
<1>12. Rest(q5, 10, later)
  <2>1. Rest(q3, 10, later)
    <3>1. ASSUME NEW i \in 1 .. Len(q3), i > 10 PROVE q3[i].do \in later /\ InsertsRows(q3[i])
      <4>1. i = 11
        BY <1>7, <3>1
      <4> QED BY <4>1, <1>1, <1>9 DEF AfterRestart, InsertsRows
    <3> QED BY <3>1 DEF Rest, InsertsRows
  <2>2. Rest(Updates, 0, later)
    BY UpdatesAre DEF Rest, InsertsRows, AfterRestart, Writes
  <2>3. Rest(q4, 10, later)
    BY <1>4, <1>5, <2>1, <2>2, UpdatesAre, JoinRest
  <2> QED BY <1>2, <1>5, <1>6, <2>3, JoinRest
<1>13. q5[13 + 6] = c[6]
  BY <1>2, <1>6, <1>7 DEF IsJoin
<1>14. q5[Len(q5)].do = "verdict"
  BY <1>2, <1>7, <1>13
<1>15. \A i \in 5 .. Len(q5) : q5[i].do \notin Submission /\ q5[i].do # "await_audit"
  <2>1. ASSUME NEW i \in 5 .. Len(q5)
        PROVE  q5[i].do \notin Submission /\ q5[i].do # "await_audit"
    <3>1. CASE i \in 5 .. 10
      BY <3>1, <1>10, <1>11 DEF IsFilling, IsOpening, Submission
    <3>2. CASE i > 10
      BY <3>2, <1>7, <1>12 DEF Rest, InsertsRows, AfterRestart, Writes, Submission
    <3> QED BY <1>7, <3>1, <3>2
  <2> QED BY <2>1
<1>16. \A i \in 1 .. 4 : q5[i].do # "await_audit"
  BY <1>10 DEF IsFilling, IsOpening
<1>17. IsFramed(q5)
  BY <1>6, <1>7, <1>10, <1>14, <1>15, <1>16 DEF IsFramed, IsFilling
<1>18. Rest(q5, 10, AfterRestart)
  BY <1>12 DEF Rest, InsertsRows
<1>19. q5 = Smoke
  BY DEF Smoke, Opening, b, c, q2, q3, q4, q5
<1>20. IsSmoke(q5)
  BY <1>7, <1>10, <1>11, <1>17, <1>18 DEF IsSmoke
<1> QED BY <1>19, <1>20

IsRewrite(s) ==
  LET is(i, op) == s[i].do = op IN
  /\ Len(s) = 17
  /\ is(5, "await_job") /\ is(6, "require_checkpoint")
  /\ is(7, "insert") /\ is(8, "await_checkpoint_after")
  /\ is(9, "insert") /\ is(10, "await_checkpoint_after")
  /\ is(11, "await_rows") /\ is(12, "await_checkpoint_after") /\ is(13, "cancel")
  /\ is(14, "measure_before") /\ is(15, "rewrite") /\ is(16, "measure_after")
  /\ is(17, "verdict")
  /\ s[7].n = 1 /\ s[9].n = 1 /\ s[11].n = 2

\* The small-file drill step by step.
LEMMA RewriteIs == IsFramed(SmallFileRewrite) /\ IsRewrite(SmallFileRewrite)
<1> DEFINE b == <<Do("submit"), Do("await_job"), Do("require_checkpoint"),
                  DoN("insert", 1), Do("await_checkpoint_after"),
                  DoN("insert", 1), Do("await_checkpoint_after")>>
           c == <<DoN("await_rows", 2), Do("await_checkpoint_after")>>
           q1 == Reset \o b
           q2 == q1 \o c
           q3 == q2 \o Measured
<1>1. /\ Stretch(Reset) /\ Len(Reset) = 3 /\ Reset[1].do = "cancel_listed"
      /\ Reset[2].do = "await_cluster" /\ Reset[3].do = "reset_tables"
  BY Steps DEF Reset, Stretch, Elements
<1>2. /\ Stretch(b) /\ Len(b) = 7 /\ b[1].do = "submit" /\ b[2].do = "await_job"
      /\ b[3].do = "require_checkpoint" /\ b[4].do = "insert" /\ b[4].n = 1
      /\ b[5].do = "await_checkpoint_after" /\ b[6].do = "insert" /\ b[6].n = 1
      /\ b[7].do = "await_checkpoint_after"
  BY Steps DEF Stretch, Elements
<1>3. /\ Stretch(c) /\ Len(c) = 2 /\ c[1].do = "await_rows" /\ c[1].n = 2
      /\ c[2].do = "await_checkpoint_after"
  BY Steps DEF Stretch, Elements
<1>4. /\ Stretch(Measured) /\ Len(Measured) = 5 /\ Measured[1].do = "cancel"
      /\ Measured[2].do = "measure_before" /\ Measured[3].do = "rewrite"
      /\ Measured[4].do = "measure_after" /\ Measured[5].do = "verdict"
  BY Steps DEF Measured, Stretch, Elements
<1> HIDE DEF b, c
<1>5. IsJoin(q1, Reset, b) /\ Stretch(q1)
  BY <1>1, <1>2, Join
<1> HIDE DEF q1
<1>6. IsJoin(q2, q1, c) /\ Stretch(q2)
  BY <1>3, <1>5, Join
<1> HIDE DEF q2
<1>7. IsJoin(q3, q2, Measured) /\ Stretch(q3)
  BY <1>4, <1>6, Join
<1> HIDE DEF q3
<1>8. Len(q1) = 10 /\ Len(q2) = 12 /\ Len(q3) = 17
  BY <1>1, <1>2, <1>3, <1>4, <1>5, <1>6, <1>7 DEF IsJoin
<1>9. /\ \A i \in 1 .. 3 : q3[i] = Reset[i]
      /\ \A i \in 1 .. 10 : q3[i] = q1[i]
      /\ \A i \in 1 .. 12 : q3[i] = q2[i]
  <2>1. \A i \in 1 .. 12 : q3[i] = q2[i]
    BY <1>7, <1>8 DEF IsJoin
  <2>2. \A i \in 1 .. 10 : q3[i] = q1[i]
    BY <2>1, <1>6, <1>8 DEF IsJoin
  <2> QED BY <2>1, <2>2, <1>1, <1>5 DEF IsJoin
<1>10. /\ q1[3 + 1] = b[1] /\ q1[3 + 2] = b[2] /\ q1[3 + 3] = b[3] /\ q1[3 + 4] = b[4]
       /\ q1[3 + 5] = b[5] /\ q1[3 + 6] = b[6] /\ q1[3 + 7] = b[7]
  BY <1>1, <1>2, <1>5 DEF IsJoin
<1>11. q2[10 + 1] = c[1] /\ q2[10 + 2] = c[2]
  BY <1>3, <1>6, <1>8 DEF IsJoin
<1>12. /\ q3[12 + 1] = Measured[1] /\ q3[12 + 2] = Measured[2] /\ q3[12 + 3] = Measured[3]
       /\ q3[12 + 4] = Measured[4] /\ q3[12 + 5] = Measured[5]
  BY <1>4, <1>7, <1>8 DEF IsJoin
<1>13. /\ q3[4] = b[1] /\ q3[5] = b[2] /\ q3[6] = b[3] /\ q3[7] = b[4] /\ q3[8] = b[5]
       /\ q3[9] = b[6] /\ q3[10] = b[7]
  BY <1>9, <1>10
<1>14. q3[11] = c[1] /\ q3[12] = c[2]
  BY <1>9, <1>11
<1>15. IsOpening(q3)
  BY <1>1, <1>2, <1>9, <1>13 DEF IsOpening
<1>16. IsRewrite(q3)
  BY <1>2, <1>3, <1>4, <1>8, <1>12, <1>13, <1>14 DEF IsRewrite
<1>17. \A i \in 5 .. 17 : q3[i].do \notin Submission /\ q3[i].do # "await_audit"
  BY <1>16 DEF IsRewrite, Submission
<1>18. \A i \in 1 .. 4 : q3[i].do # "await_audit"
  BY <1>15 DEF IsOpening
<1>19. IsFramed(q3)
  BY <1>7, <1>8, <1>15, <1>16, <1>17, <1>18 DEF IsFramed, IsRewrite
<1>20. q3 = SmallFileRewrite
  BY DEF SmallFileRewrite, Batches, b, c, q1, q2, q3
<1> QED BY <1>16, <1>19, <1>20

\* So every script is as it should be.
LEMMA FramedIs ==
  ASSUME NEW d, IsFramed(Script[d]) PROVE Framed(d)
BY DEF IsFramed, IsOpening, Framed, Op, Stretch

\* The drills that restore a job write nothing while it is stopped.
LEMMA RestoreIs ==
  ASSUME NEW d \in {"checkpoint_restore", "jobmanager_restart", "savepoint_restore"},
         NEW stop, IsStop(stop), Script[d] = RestoreDrill(stop),
         d = "checkpoint_restore" => stop[1].do = "cancel" /\ stop[2].do = "find_retained",
         d = "jobmanager_restart" =>
           stop[1].do = "restart_jobmanager" /\ stop[2].do = "await_cluster",
         d = "savepoint_restore" => stop[1].do = "savepoint" /\ stop[2].do = "cancel"
  PROVE  Framed(d) /\ StopsAndRestores(d)
<1>1. IsRestore(Script[d], stop) /\ RestoresAt(d) = 11
  BY RestoreDrillIs DEF RestoresAt
<1>2. Framed(d)
  BY <1>1, FramedIs DEF IsRestore
<1>3. Len(Script[d]) \in Nat /\ stop[3].do = "submit_restored"
  BY <1>1 DEF IsRestore, IsFramed, Stretch, IsStop
<1>4. \A i \in 12 .. Len(Script[d]) : Op(d, i) \in AfterRestart /\ InsertsRows(Script[d][i])
  BY <1>1, <1>3 DEF IsRestore, Op, Rest, InsertsRows
<1>5. /\ Len(Script[d]) > 11 /\ Op(d, 5) = "await_job" /\ Op(d, 6) = "insert"
      /\ Op(d, 7) = "await_rows" /\ Script[d][6].n = 3 /\ Script[d][7].n = 3
      /\ Op(d, 8) = "require_checkpoint" /\ Op(d, 9) = stop[1].do
      /\ Op(d, 10) = stop[2].do /\ Op(d, 11) = "submit_restored"
  BY <1>1, <1>3 DEF IsRestore, IsFilling, IsOpening, Op
<1>6. StopsAndRestores(d)
  <2>1. CASE d = "checkpoint_restore"
    BY <1>1, <1>4, <1>5, <2>1 DEF StopsAndRestores
  <2>2. CASE d = "jobmanager_restart"
    BY <1>1, <1>4, <1>5, <2>2 DEF StopsAndRestores
  <2>3. CASE d = "savepoint_restore"
    BY <1>1, <1>4, <1>5, <2>3 DEF StopsAndRestores
  <2> QED BY <2>1, <2>2, <2>3
<1> QED BY <1>2, <1>6

\* Every script has the shape that the invariant relies on.
LEMMA ScriptsLegal == \A d \in Drills : Legal(d)
<1> USE DEF Judged, Fault, Restoring, Rewriting
<1>1. ASSUME NEW d \in Fault PROVE Legal(d)
  <2>1. Script[d] = FaultDrill
    BY DEF Script, TaskCrash, SinkCommitFault
  <2>2. Framed(d) /\ Rest(Script[d], 4, FaultSteps)
    BY <2>1, FaultDrillIs, FramedIs
  <2>3. ASSUME NEW i \in 1 .. Len(Script[d]) 
        PROVE  Op(d, i) \notin Seams /\ InsertsRows(Script[d][i])
    <3>1. CASE i <= 4
      <4>1. i \in {1, 2, 3, 4}
        BY <2>2, <3>1 DEF Framed
      <4>2. /\ Op(d, 1) = "cancel_listed" /\ Op(d, 2) = "await_cluster"
            /\ Op(d, 3) = "reset_tables" /\ Op(d, 4) = "submit"
        BY <2>2 DEF Framed
      <4> QED BY <4>1, <4>2 DEF Seams, Stops, InsertsRows, Op
    <3>2. CASE i > 4
      BY <2>2, <3>2 DEF Rest, InsertsRows, FaultSteps, Writes, Op, Seams, Stops
    <3> QED BY <2>2, <3>1, <3>2 DEF Framed
  <2> QED BY <2>2, <2>3 DEF Legal
<1>2. Legal("checkpoint_restore")
  <2> DEFINE s == <<Do("cancel"), Do("find_retained"), Do("submit_restored")>>
  <2>1. IsStop(s) /\ s[1].do = "cancel" /\ s[2].do = "find_retained"
    BY Steps DEF IsStop, Stretch, Elements, Rest, InsertsRows, Seams, Stops
  <2>2. Script["checkpoint_restore"] = RestoreDrill(s)
    BY DEF Script, CheckpointRestore
  <2> HIDE DEF s
  <2> QED BY <2>1, <2>2, RestoreIs DEF Legal
<1>3. Legal("jobmanager_restart")
  <2> DEFINE s == <<Do("restart_jobmanager"), Do("await_cluster"), Do("submit_restored")>>
  <2>1. IsStop(s) /\ s[1].do = "restart_jobmanager" /\ s[2].do = "await_cluster"
    BY Steps DEF IsStop, Stretch, Elements, Rest, InsertsRows, Seams, Stops
  <2>2. Script["jobmanager_restart"] = RestoreDrill(s)
    BY DEF Script, JobManagerRestart
  <2> HIDE DEF s
  <2> QED BY <2>1, <2>2, RestoreIs DEF Legal
<1>4. Legal("savepoint_restore")
  <2> DEFINE s == <<Do("savepoint"), Do("cancel"), Do("submit_restored")>>
  <2>1. IsStop(s) /\ s[1].do = "savepoint" /\ s[2].do = "cancel"
    BY Steps DEF IsStop, Stretch, Elements, Rest, InsertsRows, Seams, Stops
  <2>2. Script["savepoint_restore"] = RestoreDrill(s)
    BY DEF Script, SavepointRestore
  <2> HIDE DEF s
  <2> QED BY <2>1, <2>2, RestoreIs DEF Legal
<1>5. Legal("smoke")
  <2>1. Script["smoke"] = Smoke /\ RestoresAt("smoke") = 10
    BY DEF Script, RestoresAt
  <2>2. Framed("smoke") /\ Len(Script["smoke"]) \in Nat
    BY <2>1, SmokeIs, FramedIs DEF IsSmoke, IsFramed, Stretch
  <2>3. StopsAndRestores("smoke")
    <3>1. \A i \in 11 .. Len(Script["smoke"]) :
            Op("smoke", i) \in AfterRestart /\ InsertsRows(Script["smoke"][i])
      BY <2>1, <2>2, SmokeIs DEF IsSmoke, Rest, Op
    <3>2. /\ Len(Script["smoke"]) > 10
          /\ Op("smoke", 5) = "await_job" /\ Op("smoke", 6) = "insert"
          /\ Op("smoke", 7) = "await_rows" /\ Op("smoke", 8) = "savepoint"
          /\ Op("smoke", 9) = "cancel" /\ Op("smoke", 10) = "submit_restored"
          /\ Script["smoke"][6].n = 2 /\ Script["smoke"][7].n = 2
      BY <2>1, SmokeIs DEF IsSmoke, IsFilling, IsOpening, Op
    <3> QED BY <2>1, <3>1, <3>2 DEF StopsAndRestores
  <2> QED BY <2>2, <2>3 DEF Legal
<1>6. Legal(Rewriting)
  <2>1. Script[Rewriting] = SmallFileRewrite
    BY DEF Script
  <2>2. Framed(Rewriting) /\ Rewrites(Rewriting)
    BY <2>1, RewriteIs, FramedIs DEF IsRewrite, Rewrites, Op
  <2> QED BY <2>2 DEF Legal
<1>7. ASSUME NEW d, d \notin Judged PROVE Legal(d)
  BY <1>7 DEF Legal
<1> QED BY <1>1, <1>2, <1>3, <1>4, <1>5, <1>6, <1>7

-----------------------------------------------------------------------------
(* What a publication adds to the tables. *)

\* A finite set as a sequence has each of its elements at one place.
LEMMA SetToSeqIs ==
  ASSUME NEW S, IsFiniteSet(S)
  PROVE  /\ SetToSeq(S) \in Seq(S)
         /\ \A m, n \in DOMAIN SetToSeq(S) : SetToSeq(S)[m] = SetToSeq(S)[n] => m = n
<1> DEFINE n == Cardinality(S)
           good(f) == f \in [1 .. n -> S] /\ IsInjective(f)
           q == SetToSeq(S)
<1>1. n \in Nat /\ ExistsBijection(1 .. n, S)
  BY FS_CardinalityType
<1>2. \E f : good(f)
  BY <1>1 DEF ExistsBijection, Bijection, Injection
<1>3. q \in [1 .. n -> S] /\ IsInjective(q)
  <2>1. q = CHOOSE f \in [1 .. n -> S] : IsInjective(f)
    BY DEF SetToSeq
  <2> QED BY <1>2, <2>1
<1> HIDE DEF q, n
<1>4. q \in Seq(S)
  BY <1>1, <1>3
<1>5. \A k, m \in DOMAIN q : q[k] = q[m] => k = m
  BY <1>3 DEF IsInjective
<1> QED BY <1>4, <1>5 DEF q

\* The changes that files hold are changes of the binlog.
LEMMA HeldAre ==
  ASSUME TypeInv, NEW files
  PROVE  Held(files) \subseteq 1 .. Len(binlog) /\ IsFiniteSet(Held(files))
<1>1. DOMAIN binlog = 1 .. Len(binlog) /\ Len(binlog) \in Nat
  BY DEF TypeInv
<1>2. Held(files) \subseteq 1 .. Len(binlog)
  BY <1>1 DEF Held
<1>3. IsFiniteSet(1 .. Len(binlog))
  BY <1>1, FS_Interval
<1> QED BY <1>2, <1>3, FS_Subset

\* A change that files hold lies within one of them.
LEMMA HeldWithin ==
  ASSUME NEW files, NEW i \in Held(files)
  PROVE  \E f \in files : Within(f, i)
BY DEF Held, Within

\* The changelog with the changes of files, if job j publishes them there.
LEMMA PublishLog ==
  ASSUME TypeInv, NEW j \in Name, NEW files, NEW id, Publish(j, Log, files, id)
  PROVE  /\ changelog' \in Seq([change : Nat, by : Name])
         /\ \A n \in DOMAIN changelog' :
              \/ n \in DOMAIN changelog /\ changelog'[n] = changelog[n]
              \/ changelog'[n].by = j /\ changelog'[n].change \in Held(files)
         /\ Published' \subseteq Published \cup Held(files)
         /\ (/\ \A m, n \in DOMAIN changelog : changelog[m].change = changelog[n].change => m = n
             /\ \A n \in DOMAIN changelog : changelog[n].change \notin Held(files)) =>
              \A m, n \in DOMAIN changelog' : changelog'[m].change = changelog'[n].change => m = n
         /\ current' = current /\ tableId' = tableId
<1> DEFINE rows == SetToSeq(Held(files))
           new == [i \in 1 .. Len(rows) |-> [change |-> rows[i], by |-> j]]
           u == changelog \o new
<1>1. /\ rows \in Seq(Held(files)) /\ Held(files) \subseteq 1 .. Len(binlog)
      /\ \A m, n \in DOMAIN rows : rows[m] = rows[n] => m = n
  BY HeldAre, SetToSeqIs
<1>2. changelog' = u /\ current' = current /\ tableId' = tableId
  BY DEF Publish, Log
<1> HIDE DEF rows
<1>3. Len(rows) \in Nat /\ DOMAIN rows = 1 .. Len(rows) /\ Len(binlog) \in Nat
  BY <1>1 DEF TypeInv
<1>4. \A i \in 1 .. Len(rows) : rows[i] \in Held(files) /\ rows[i] \in Nat
  BY <1>1, <1>3
<1>5. new \in Seq([change : Nat, by : Name]) /\ Len(new) = Len(rows)
  BY <1>3, <1>4
<1>6. /\ u \in Seq([change : Nat, by : Name]) /\ Len(u) = Len(changelog) + Len(rows)
      /\ Len(changelog) \in Nat
      /\ \A n \in 1 .. Len(changelog) : u[n] = changelog[n]
      /\ \A n \in 1 .. Len(u) : n > Len(changelog) => u[n] = new[n - Len(changelog)]
  BY <1>5 DEF TypeInv
<1>7. \A i \in 1 .. Len(rows) : new[i].change = rows[i] /\ new[i].by = j
  OBVIOUS
<1> HIDE DEF u, new
<1>8. DOMAIN u = 1 .. Len(u) /\ DOMAIN changelog = 1 .. Len(changelog)
  BY <1>6 DEF TypeInv
<1>9. ASSUME NEW n \in DOMAIN u
      PROVE  \/ n \in 1 .. Len(changelog) /\ u[n] = changelog[n]
             \/ /\ n > Len(changelog) /\ n - Len(changelog) \in 1 .. Len(rows)
                /\ u[n].by = j /\ u[n].change = rows[n - Len(changelog)]
  <2>1. CASE n <= Len(changelog)
    BY <1>3, <1>6, <1>8, <2>1
  <2>2. CASE n > Len(changelog)
    <3>1. n - Len(changelog) \in 1 .. Len(rows)
      BY <1>3, <1>6, <1>8, <2>2
    <3> QED BY <1>6, <1>7, <1>8, <2>2, <3>1
  <2> QED BY <1>6, <1>8, <2>1, <2>2
<1>10. \A n \in DOMAIN u :
         \/ n \in DOMAIN changelog /\ u[n] = changelog[n]
         \/ u[n].by = j /\ u[n].change \in Held(files)
  BY <1>4, <1>8, <1>9
<1>11. {u[n].change : n \in DOMAIN u} \subseteq Published \cup Held(files)
  BY <1>10 DEF Published
<1>12. ASSUME \A m, n \in DOMAIN changelog : changelog[m].change = changelog[n].change => m = n,
              \A n \in DOMAIN changelog : changelog[n].change \notin Held(files),
              NEW m \in DOMAIN u, NEW n \in DOMAIN u, u[m].change = u[n].change
       PROVE  m = n
  <2>1. CASE m \in 1 .. Len(changelog) /\ u[m] = changelog[m]
    <3>1. CASE n \in 1 .. Len(changelog) /\ u[n] = changelog[n]
      BY <1>8, <1>12, <2>1, <3>1
    <3>2. CASE n - Len(changelog) \in 1 .. Len(rows) /\ u[n].change = rows[n - Len(changelog)]
      BY <1>4, <1>8, <1>12, <2>1, <3>2
    <3> QED BY <1>9, <3>1, <3>2
  <2>2. CASE /\ m > Len(changelog) /\ m - Len(changelog) \in 1 .. Len(rows)
             /\ u[m].change = rows[m - Len(changelog)]
    <3>1. CASE n \in 1 .. Len(changelog) /\ u[n] = changelog[n]
      BY <1>4, <1>8, <1>12, <2>2, <3>1
    <3>2. CASE /\ n > Len(changelog) /\ n - Len(changelog) \in 1 .. Len(rows)
               /\ u[n].change = rows[n - Len(changelog)]
      <4>1. m - Len(changelog) = n - Len(changelog)
        BY <1>1, <1>3, <1>12, <2>2, <3>2
      <4>2. m \in Int /\ n \in Int
        BY <1>6, <1>8
      <4> QED BY <1>6, <4>1, <4>2
    <3> QED BY <1>9, <3>1, <3>2
  <2> QED BY <1>9, <2>1, <2>2
<1>13. Published' = {u[n].change : n \in DOMAIN u}
  BY <1>2 DEF Published
<1> QED BY <1>2, <1>6, <1>10, <1>11, <1>12, <1>13

\* A publication to the current table changes only the rows of the changes in the
\* files, and nothing if they hold none.
LEMMA PublishCurrent ==
  ASSUME TypeInv, NEW j, NEW files, NEW id, Publish(j, "current", files, id)
  PROVE  /\ changelog' = changelog /\ tableId' = tableId
         /\ current' = [r \in Row |-> current'[r]]
         /\ \A r \in Row : current'[r] # current[r] => \E i \in Held(files) : binlog[i].row = r
         /\ Held(files) = {} => current' = current /\ dataFiles' = dataFiles
<1> DEFINE of(r) == {i \in Held(files) : binlog[i].row = r}
<1>1. changelog' = changelog /\ tableId' = tableId
  BY DEF Publish
<1>2. current' = [r \in Row |->
        IF of(r) = {} THEN current[r]
        ELSE binlog[CHOOSE i \in of(r) : \A k \in of(r) : k <= i].after]
  BY DEF Publish
<1>3. current' = [r \in Row |-> current'[r]]
  BY <1>2
<1>4. \A r \in Row : current'[r] # current[r] => of(r) # {}
  BY <1>2
<1>5. ASSUME Held(files) = {} PROVE current' = current /\ dataFiles' = dataFiles
  <2>1. dataFiles' = dataFiles
    BY <1>5 DEF Publish
  <2>2. current' = [r \in Row |-> current[r]]
    BY <1>2, <1>5
  <2> QED BY <2>1, <2>2 DEF TypeInv
<1> QED BY <1>1, <1>3, <1>4, <1>5

\* A publication with files leaves the id of its checkpoint in the summary.
LEMMA PublishSummary ==
  ASSUME TypeInv, NEW j \in Name, NEW s \in Sink, NEW files, NEW id \in Nat,
         Publish(j, s, files, id)
  PROVE  /\ maxId' \in [Name -> [Sink -> Nat]]
         /\ \A k \in Name, t \in Sink :
              maxId'[k][t] = IF k = j /\ t = s /\ files # {} THEN id ELSE maxId[k][t]
BY DEF Publish, TypeInv

\* A change nobody published can be counted: if every row of the current table
\* comes from a change in I, there are no more rows than changes.
LEMMA RowsCounted ==
  ASSUME NEW I, IsFiniteSet(I),
         \A r \in Present(current) : \E i \in I : binlog[i].row = r
  PROVE  Cardinality(Present(current)) <= Cardinality(I)
<1> DEFINE f == [r \in Present(current) |-> CHOOSE i \in I : binlog[i].row = r]
<1>1. \A r \in Present(current) : f[r] \in I /\ binlog[f[r]].row = r
  OBVIOUS
<1>2. f \in [Present(current) -> I]
  BY <1>1
<1> HIDE DEF f
<1>3. IsInjective(f)
  BY <1>1, <1>2 DEF IsInjective
<1>4. f \in Injection(Present(current), I)
  BY <1>2, <1>3 DEF Injection
<1> QED BY <1>4, FS_Injection

-----------------------------------------------------------------------------
(* A job stays sound, whatever it does. *)

\* The fields of no point and of no job.
LEMMA EmptyIsSound ==
  /\ NoPoint \in Point /\ NoJob \in Job
  /\ NoPoint.id = 0 /\ NoPoint.pos = 0 /\ \A s \in Sink : NoPoint.pend[s] = {}
  /\ NoJob.status = "absent" /\ NoJob.read = 0 /\ NoJob.epoch = 0 /\ NoJob.pend = NoPoint.pend
  /\ NoJob.ongoing = NoPoint /\ NoJob.done = NoPoint /\ NoJob.notify = {}
  /\ NoJob.recover = {} /\ NoJob.table = 0
BY DEF NoPoint, NoJob, Point, Job

\* A job that is submitted is sound.
LEMMA SubmittedSound ==
  ASSUME Len(binlog) \in Nat
  PROVE  /\ Sound(NoJob)
         /\ Sound([NoJob EXCEPT !.status = "STARTING"])
         /\ [NoJob EXCEPT !.status = "STARTING"] \in Job
BY EmptyIsSound DEF Sound, Intervals, Job

\* A job that is gone is sound, and so for the steps below.
LEMMA GoneSound ==
  ASSUME NEW r \in Job, Sound(r)
  PROVE  LET q == [NoJob EXCEPT !.done = r.done] IN Sound(q) /\ q \in Job
<1>1. PICK q : q = [NoJob EXCEPT !.done = r.done]
  OBVIOUS
<1>2. r.done \in Point /\ (r.done.id = 0 => r.done = NoPoint)
  BY DEF Job, Sound
<1>3. /\ q \in Job /\ q.status = "absent" /\ q.done = r.done /\ q.pend = NoPoint.pend
      /\ q.ongoing = NoPoint /\ q.notify = {} /\ q.recover = {}
  BY <1>1, <1>2, EmptyIsSound DEF Job
<1>4. \A s \in Sink : Intervals(r.done.pend[s], r.done.id, r.done.pos)
  BY DEF Sound
<1>5. Sound(q)
  BY <1>2, <1>3, <1>4, EmptyIsSound DEF Sound, Intervals
<1> QED BY <1>1, <1>3, <1>5

\* It starts.
LEMMA StartedSound ==
  ASSUME NEW r \in Job, Sound(r), r.status = "STARTING", NEW started,
         started = [r EXCEPT !.status = "RUNNING", !.table = 1,
                             !.recover = IF r.done.id > 0 THEN Sink ELSE {}]
  PROVE  Sound(started) /\ started \in Job
BY DEF Sound, Job, Point

\* It restarts from its last checkpoint.
LEMMA RestartedSound ==
  ASSUME NEW r \in Job, Sound(r), r.status = "RESTARTING", NEW started,
         started = [r EXCEPT !.status = "RUNNING", !.table = 1, !.read = r.done.pos,
                             !.pend = r.done.pend,
                             !.recover = IF r.done.id > 0 THEN Sink ELSE {}]
  PROVE  Sound(started) /\ started \in Job
<1>1. started \in Job
  BY DEF Job, Point
<1>2. /\ started.status = "RUNNING" /\ started.table = 1 /\ started.read = r.done.pos
      /\ started.pend = r.done.pend /\ started.epoch = r.epoch /\ started.done = r.done
      /\ started.ongoing = r.ongoing /\ started.notify = r.notify
      /\ started.recover = IF r.done.id > 0 THEN Sink ELSE {}
  BY DEF Job
<1>3. \A s \in Sink : Intervals(started.pend[s], started.epoch, started.read)
  BY <1>2 DEF Sound, Intervals, Job, Point, Files
<1>4. Sound(started)
  BY <1>2, <1>3 DEF Sound, Intervals, Job, Point
<1> QED BY <1>1, <1>4

\* It fails.
LEMMA FailedSound ==
  ASSUME NEW r \in Job, Sound(r), NEW failed,
         failed = [r EXCEPT !.status = "RESTARTING", !.ongoing = NoPoint, !.notify = {},
                            !.recover = {}, !.pend = NoPoint.pend],
         r.status # "absent"
  PROVE  Sound(failed) /\ failed \in Job
<1>1. /\ failed.status = "RESTARTING" /\ failed.read = r.read /\ failed.epoch = r.epoch
      /\ failed.done = r.done /\ failed.pend = NoPoint.pend /\ failed.ongoing = NoPoint
      /\ failed.notify = {} /\ failed.recover = {}
  BY DEF Job
<1>2. failed \in Job
  BY EmptyIsSound DEF Job, Point
<1>3. Sound(failed)
  BY <1>1, EmptyIsSound DEF Sound, Intervals
<1> QED BY <1>2, <1>3

\* It is canceled, or loses its JobManager.
LEMMA StoppedSound ==
  ASSUME NEW r \in Job, Sound(r), NEW stopped,
         stopped = [r EXCEPT !.status = "CANCELING", !.ongoing = NoPoint],
         r.status # "absent"
  PROVE  Sound(stopped) /\ stopped \in Job
BY EmptyIsSound DEF Sound, Job, Point

\* It completes the checkpoint under way.
LEMMA CompletedSound ==
  ASSUME NEW r \in Job, Sound(r), r.status = "RUNNING", r.ongoing # NoPoint, NEW told,
         told \subseteq Sink \cup {"fault"}, NEW completed,
         completed = [r EXCEPT !.done = r.ongoing, !.ongoing = NoPoint, !.notify = told]
  PROVE  Sound(completed) /\ completed \in Job
<1>1. completed \in Job
  BY EmptyIsSound DEF Job, Point
<1>2. /\ completed.status = "RUNNING" /\ completed.table = r.table /\ completed.read = r.read
      /\ completed.pend = r.pend /\ completed.epoch = r.epoch /\ completed.done = r.ongoing
      /\ completed.ongoing = NoPoint /\ completed.notify = told /\ completed.recover = r.recover
  BY DEF Job
<1>3. /\ r.ongoing.id = r.epoch /\ r.ongoing.pos = r.read /\ r.ongoing.pend = r.pend
      /\ r.recover = {} /\ r.done.id < r.epoch /\ r.table = 1 /\ r.read <= Len(binlog)
  BY DEF Sound, PointOf
<1>4. /\ r.epoch \in Nat /\ r.read \in Nat /\ r.done.id \in Nat
      /\ \A s \in Sink : r.pend[s] \subseteq Files
  BY DEF Job, Point
<1>5. r.epoch # 0
  BY <1>3, <1>4
<1>6. \A s \in Sink : Intervals(r.pend[s], r.epoch, r.read)
  BY DEF Sound
<1>7. \A s \in Sink : \A f \in r.pend[s] : f.id <= r.epoch /\ f.hi <= r.read
  BY <1>6 DEF Intervals
<1> QED BY <1>1, <1>2, <1>3, <1>4, <1>5, <1>6, <1>7 DEF Sound

\* It is told that the checkpoint is complete.
LEMMA ToldSound ==
  ASSUME NEW r \in Job, Sound(r), NEW l, NEW told, told = [r EXCEPT !.notify = @ \ {l}]
  PROVE  Sound(told) /\ told \in Job
BY DEF Sound, Job, PointOf

\* Its pending files become fewer.
LEMMA FewerSound ==
  ASSUME NEW r \in Job, Sound(r), NEW s \in Sink, NEW files, files \subseteq r.pend[s],
         NEW less, less \in Job, r.ongoing = NoPoint,
         less.status = r.status, less.read = r.read, less.epoch = r.epoch,
         less.done = r.done, less.ongoing = r.ongoing, less.table = r.table,
         less.notify \subseteq r.notify, less.recover \subseteq r.recover,
         less.pend = [r.pend EXCEPT ![s] = files],
         r.status \in {"RUNNING", "CANCELING"},
         s \notin less.recover
  PROVE  Sound(less)
<1>1. less.pend[s] = files /\ \A t \in Sink \ {s} : less.pend[t] = r.pend[t]
  BY DEF Job
<1>2. \A t \in Sink : less.pend[t] \subseteq r.pend[t]
  BY <1>1
<1>3. \A t \in Sink : Intervals(less.pend[t], less.epoch, less.read)
  BY <1>2 DEF Sound, Intervals
<1>4. \A t \in Sink : \A f \in less.pend[t] : IF f.id <= less.done.id THEN f.hi <= less.done.pos
                                              ELSE less.done.pos <= f.lo
  BY <1>2 DEF Sound
<1>5. \A t \in Sink : t \in less.recover => less.pend[t] = less.done.pend[t]
  BY <1>1 DEF Sound
<1> QED BY <1>3, <1>4, <1>5 DEF Sound

\* Behind a barrier there is one more file, of what was read since the last one.
LEMMA FlushedIs ==
  ASSUME TypeInv, NEW j \in Own, Sound(job[j]), NEW n \in Nat, job[j].read <= n
  PROVE  LET q == Flushed(j, n)
             r == job[j]
             new == [id |-> r.epoch + 1, lo |-> r.read, hi |-> n]
         IN /\ q \in Job /\ PointOf(q) \in Point
            /\ q.status = r.status /\ q.epoch = r.epoch + 1 /\ q.read = n /\ q.done = r.done
            /\ q.ongoing = r.ongoing /\ q.notify = r.notify /\ q.recover = r.recover
            /\ q.table = r.table
            /\ PointOf(q).id = r.epoch + 1 /\ PointOf(q).pos = n /\ PointOf(q).pend = q.pend
            /\ \A s \in Sink : /\ r.pend[s] \subseteq q.pend[s]
                               /\ q.pend[s] \subseteq r.pend[s] \cup {new}
                               /\ n = r.read => q.pend[s] = r.pend[s]
<1> DEFINE r == job[j]
           new == [id |-> r.epoch + 1, lo |-> r.read, hi |-> n]
           files == IF n = r.read THEN {} ELSE {new}
           q == Flushed(j, n)
<1>1. r \in Job
  BY DEF TypeInv, Own, Name
<1>2. q = [r EXCEPT !.epoch = r.epoch + 1, !.read = n,
                    !.pend = [s \in Sink |-> r.pend[s] \cup files]]
  BY DEF Flushed
<1>3. new \in Files
  BY <1>1 DEF Job, Files
<1> HIDE DEF r, q
<1>4. q \in Job
  <2>1. /\ r.epoch + 1 \in Nat
        /\ [s \in Sink |-> r.pend[s] \cup files] \in [Sink -> SUBSET Files]
    BY <1>1, <1>3 DEF Job
  <2> QED BY <1>1, <1>2, <2>1 DEF Job
<1>5. /\ q.status = r.status /\ q.epoch = r.epoch + 1 /\ q.read = n /\ q.done = r.done
      /\ q.ongoing = r.ongoing /\ q.notify = r.notify /\ q.recover = r.recover
      /\ q.table = r.table /\ q.pend = [s \in Sink |-> r.pend[s] \cup files]
  BY <1>1, <1>2 DEF Job
<1>6. \A s \in Sink : /\ r.pend[s] \subseteq q.pend[s]
                      /\ q.pend[s] \subseteq r.pend[s] \cup {new}
                      /\ n = r.read => q.pend[s] = r.pend[s]
  BY <1>5
<1>7. PointOf(q) \in Point
  BY <1>4 DEF PointOf, Point, Job
<1>8. PointOf(q).id = r.epoch + 1 /\ PointOf(q).pos = n /\ PointOf(q).pend = q.pend
  BY <1>5 DEF PointOf
<1> QED BY <1>4, <1>5, <1>6, <1>7, <1>8 DEF r, q

\* It flushes what it has read, up to n, at a barrier.
LEMMA FlushedSound ==
  ASSUME TypeInv, NEW j \in Own, Sound(job[j]), NEW n \in Nat,
         job[j].read <= n, n <= Len(binlog), job[j].status = "RUNNING",
         job[j].ongoing = NoPoint, job[j].recover = {}
  PROVE  LET q == Flushed(j, n) IN
         /\ Sound(q)
         /\ job[j].notify = {} => Sound([q EXCEPT !.ongoing = PointOf(q)])
         /\ [q EXCEPT !.ongoing = PointOf(q)] \in Job
<1> DEFINE r == job[j]
           new == [id |-> r.epoch + 1, lo |-> r.read, hi |-> n]
           q == Flushed(j, n)
<1>1. r \in Job
  BY DEF TypeInv, Own, Name
<1>2. /\ q \in Job /\ PointOf(q) \in Point
      /\ q.status = r.status /\ q.epoch = r.epoch + 1 /\ q.read = n /\ q.done = r.done
      /\ q.ongoing = r.ongoing /\ q.notify = r.notify /\ q.recover = r.recover
      /\ q.table = r.table
      /\ PointOf(q).id = r.epoch + 1 /\ PointOf(q).pos = n /\ PointOf(q).pend = q.pend
      /\ \A s \in Sink : /\ r.pend[s] \subseteq q.pend[s]
                         /\ q.pend[s] \subseteq r.pend[s] \cup {new}
                         /\ n = r.read => q.pend[s] = r.pend[s]
  BY FlushedIs
<1>3. /\ Sound(r) /\ r.status = "RUNNING" /\ r.ongoing = NoPoint /\ r.recover = {}
      /\ r.read <= n /\ n <= Len(binlog)
  OBVIOUS
<1> HIDE DEF r, q
<1>4. /\ r.epoch \in Nat /\ r.read \in Nat /\ r.done.id \in Nat /\ r.done.pos \in Nat
      /\ \A s \in Sink : r.pend[s] \subseteq Files
      /\ r.done.id <= r.epoch /\ r.done.pos <= r.read /\ r.table = 1
      /\ \A s \in Sink : Intervals(r.pend[s], r.epoch, r.read)
      /\ \A s \in Sink : \A f \in r.pend[s] : IF f.id <= r.done.id THEN f.hi <= r.done.pos
                                              ELSE r.done.pos <= f.lo
  BY <1>1, <1>3 DEF Job, Point, Sound
<1>5. ASSUME NEW s \in Sink, NEW f \in q.pend[s]
      PROVE  f \in r.pend[s] \/ (f = new /\ r.read < n)
  <2>1. CASE f \in r.pend[s]
    BY <2>1
  <2>2. CASE f \notin r.pend[s]
    BY <1>2, <1>3, <1>4, <1>5, <2>2
  <2> QED BY <2>1, <2>2
<1>6. \A s \in Sink : Intervals(q.pend[s], q.epoch, q.read)
  <2>1. ASSUME NEW s \in Sink, NEW f \in q.pend[s]
        PROVE  1 <= f.id /\ f.id <= q.epoch /\ f.lo < f.hi /\ f.hi <= q.read
    <3>1. CASE f \in r.pend[s]
      <4>1. /\ f \in Files /\ 1 <= f.id /\ f.id <= r.epoch /\ f.lo < f.hi /\ f.hi <= r.read
        BY <1>4, <3>1 DEF Intervals
      <4> QED BY <1>2, <1>3, <1>4, <4>1 DEF Files
    <3>2. CASE f = new /\ r.read < n
      BY <1>2, <1>4, <3>2
    <3> QED BY <1>5, <2>1, <3>1, <3>2
  <2>2. ASSUME NEW s \in Sink, NEW f \in q.pend[s], NEW g \in q.pend[s]
        PROVE  f = g \/ f.hi <= g.lo \/ g.hi <= f.lo
    <3>1. CASE f \in r.pend[s] /\ g \in r.pend[s]
      BY <1>4, <3>1 DEF Intervals
    <3>2. CASE f \in r.pend[s] /\ g = new
      BY <1>4, <3>2 DEF Intervals
    <3>3. CASE f = new /\ g \in r.pend[s]
      BY <1>4, <3>3 DEF Intervals
    <3> QED BY <1>5, <2>2, <3>1, <3>2, <3>3
  <2> QED BY <2>1, <2>2 DEF Intervals
<1>7. \A s \in Sink : \A f \in q.pend[s] : IF f.id <= q.done.id THEN f.hi <= q.done.pos
                                           ELSE q.done.pos <= f.lo
  <2>1. ASSUME NEW s \in Sink, NEW f \in q.pend[s]
        PROVE  IF f.id <= q.done.id THEN f.hi <= q.done.pos ELSE q.done.pos <= f.lo
    <3>1. CASE f \in r.pend[s]
      BY <1>2, <1>4, <3>1
    <3>2. CASE f = new
      BY <1>2, <1>4, <3>2
    <3> QED BY <1>5, <2>1, <3>1, <3>2
  <2> QED BY <2>1
<1>8. q.read <= Len(binlog) /\ q.done.id <= q.epoch /\ q.done.pos <= q.read /\ q.done.id < q.epoch
  BY <1>2, <1>3, <1>4
<1>9. Sound(q)
  BY <1>2, <1>3, <1>4, <1>6, <1>7, <1>8 DEF Sound
<1> DEFINE t == [q EXCEPT !.ongoing = PointOf(q)]
<1>10. t \in Job
  BY <1>2 DEF Job
<1>11. /\ t.status = q.status /\ t.epoch = q.epoch /\ t.read = q.read /\ t.done = q.done
       /\ t.notify = q.notify /\ t.recover = q.recover /\ t.table = q.table /\ t.pend = q.pend
       /\ t.ongoing = PointOf(q) /\ PointOf(t) = PointOf(q)
  BY <1>2 DEF Job, PointOf
<1> HIDE DEF t
<1>12. r.notify = {} => Sound(t)
  BY <1>2, <1>3, <1>8, <1>9, <1>11 DEF Sound
<1> QED BY <1>9, <1>10, <1>12 DEF r, q, t

\* A job restored from a point.
LEMMA RestoredSound ==
  ASSUME Len(binlog) \in Nat, NEW q \in Point, q.id >= 1, q.pos <= Len(binlog),
         \A s \in Sink : Intervals(q.pend[s], q.id, q.pos), NEW r,
         r = [NoJob EXCEPT !.status = "STARTING", !.read = q.pos, !.epoch = q.id,
                           !.pend = q.pend, !.done = q]
  PROVE  Sound(r) /\ r \in Job
<1>1. r \in Job
  BY EmptyIsSound DEF Job, Point
<1>2. /\ r.status = "STARTING" /\ r.read = q.pos /\ r.epoch = q.id /\ r.pend = q.pend
      /\ r.done = q /\ r.ongoing = NoPoint /\ r.notify = {} /\ r.recover = {} /\ r.table = 0
  BY EmptyIsSound DEF Job
<1>3. /\ q.id \in Nat /\ q.pos \in Nat /\ \A s \in Sink : q.pend[s] \subseteq Files
  BY DEF Point
<1>4. \A s \in Sink : \A f \in q.pend[s] : f.id <= q.id /\ f.hi <= q.pos
  BY DEF Intervals
<1> QED BY <1>1, <1>2, <1>3, <1>4 DEF Sound

-----------------------------------------------------------------------------
(* Where a drill is when it takes a step. *)

\* The waiting, the stop and the restoration, in this order.
LEMMA Positions ==
  /\ FillsAt(drill) \in {7, 11} /\ StopsAt(drill) \in {9, 10, 13} /\ RestoresAt(drill) \in {10, 11}
  /\ drill \in Restoring =>
       /\ FillsAt(drill) = 7 /\ StopsAt(drill) < RestoresAt(drill)
       /\ StopsAt(drill) = IF drill = "savepoint_restore" THEN 10 ELSE 9
       /\ RestoresAt(drill) = IF drill = "smoke" THEN 10 ELSE 11
  /\ drill = Rewriting => FillsAt(drill) = 11 /\ StopsAt(drill) = 13
BY DEF FillsAt, StopsAt, RestoresAt, Restoring, Rewriting

\* The steps that every drill has, by number.
LEMMA Place ==
  ASSUME ScriptInv, drill \in Judged
  PROVE  /\ pc \in Nat /\ Len(Script[drill]) \in Nat
         /\ Step.do = "cancel_listed" <=> pc = 1
         /\ Step.do = "reset_tables" <=> pc = 3
         /\ Step.do = "submit" <=> pc = 4
         /\ pc = 2 => Step.do = "await_cluster"
         /\ Step.do # "verdict" => pc + 1 \in 1 .. Len(Script[drill])
         /\ Step.do = "await_audit" => pc > 12
<1>1. Framed(drill) /\ pc \in 1 .. Len(Script[drill])
  BY ScriptsLegal DEF ScriptInv, Legal
<1>2. Step.do = Op(drill, pc)
  BY DEF Step, Op
<1>3. pc \in Nat /\ Len(Script[drill]) \in Nat
  BY <1>1 DEF Framed
<1>4. pc = Len(Script[drill]) => Step.do = "verdict"
  BY <1>1, <1>2 DEF Framed
<1>5. /\ pc = 1 => Step.do = "cancel_listed"
      /\ pc = 2 => Step.do = "await_cluster"
      /\ pc = 3 => Step.do = "reset_tables"
      /\ pc = 4 => Step.do = "submit"
  BY <1>1, <1>2 DEF Framed
<1>6. pc > 4 => Step.do \notin Submission
  BY <1>1, <1>2 DEF Framed
<1>7. Step.do = "await_audit" => pc > 12
  BY <1>1, <1>2 DEF Framed
<1> QED BY <1>1, <1>3, <1>4, <1>5, <1>6, <1>7 DEF Submission

\* The drills that restore a job, up to the restoration and behind it.
LEMMA RestorePlace ==
  ASSUME ScriptInv, drill \in Restoring
  PROVE  /\ pc = 5 => Step.do = "await_job"
         /\ pc = 6 => Step.do = "insert" /\ Step.n = Script[drill][7].n /\ Step.n \in Nat \ {0}
         /\ pc = 7 => Step.do = "await_rows"
         /\ pc = 8 => Step.do = IF drill = "smoke" THEN "savepoint" ELSE "require_checkpoint"
         /\ pc = 9 => Step.do = CASE drill = "jobmanager_restart" -> "restart_jobmanager"
                                  [] drill = "savepoint_restore" -> "savepoint"
                                  [] OTHER -> "cancel"
         /\ pc = 10 => Step.do = CASE drill = "checkpoint_restore" -> "find_retained"
                                   [] drill = "jobmanager_restart" -> "await_cluster"
                                   [] drill = "savepoint_restore" -> "cancel"
                                   [] OTHER -> "submit_restored"
         /\ drill # "smoke" /\ pc = 11 => Step.do = "submit_restored"
         /\ pc > RestoresAt(drill) => Step.do \in AfterRestart /\ InsertsRows(Step)
<1>1. StopsAndRestores(drill) /\ Framed(drill) /\ pc \in 1 .. Len(Script[drill])
  BY ScriptsLegal DEF ScriptInv, Legal, Judged
<1>2. Step.do = Op(drill, pc) /\ Step = Script[drill][pc]
  BY DEF Step, Op
<1>3. pc \in Nat /\ Len(Script[drill]) \in Nat
  BY <1>1 DEF Framed
<1>4. RestoresAt(drill) = IF drill = "smoke" THEN 10 ELSE 11
  BY DEF RestoresAt
<1>5. /\ pc = 5 => Step.do = "await_job"
      /\ pc = 6 => Step.do = "insert" /\ Step.n = Script[drill][7].n /\ Step.n \in Nat \ {0}
      /\ pc = 7 => Step.do = "await_rows"
  BY <1>1, <1>2 DEF StopsAndRestores
<1>6. pc > RestoresAt(drill) => Step.do \in AfterRestart /\ InsertsRows(Step)
  BY <1>1, <1>2, <1>3, <1>4 DEF StopsAndRestores
<1>7. CASE drill = "checkpoint_restore"
  BY <1>1, <1>2, <1>4, <1>5, <1>6, <1>7 DEF StopsAndRestores
<1>8. CASE drill = "jobmanager_restart"
  BY <1>1, <1>2, <1>4, <1>5, <1>6, <1>8 DEF StopsAndRestores
<1>9. CASE drill = "savepoint_restore"
  BY <1>1, <1>2, <1>4, <1>5, <1>6, <1>9 DEF StopsAndRestores
<1>10. CASE drill = "smoke"
  BY <1>1, <1>2, <1>4, <1>5, <1>6, <1>10 DEF StopsAndRestores
<1> QED BY <1>7, <1>8, <1>9, <1>10 DEF Restoring

\* The small-file drill writes before it waits, and rewrites behind the cancellation.
LEMMA RewritePlace ==
  ASSUME ScriptInv, drill = Rewriting
  PROVE  /\ pc \in 1 .. 17
         /\ Step.do \in Writes <=> pc \in {7, 9}
         /\ pc \in {7, 9} => Step.do = "insert" /\ Step.n = 1
         /\ pc = 11 => Step.do = "await_rows" /\ Step.n = 2
         /\ Step.do = "cancel" <=> pc = 13
         /\ Step.do \in {"rewrite", "measure_after", "verdict"} => pc > 14
         /\ Step.do \notin (Seams \ {"cancel"}) \cup {"await_audit"}
<1>1. Rewrites(drill) /\ Framed(drill) /\ pc \in 1 .. 17
  <2>1. Legal(drill) /\ pc \in 1 .. Len(Script[drill])
    BY ScriptsLegal DEF ScriptInv
  <2>2. Rewrites(drill) /\ Framed(drill)
    BY <2>1 DEF Legal, Judged
  <2> QED BY <2>1, <2>2 DEF Rewrites
<1>2. Step.do = Op(drill, pc) /\ Step.n = Script[drill][pc].n
  BY DEF Step, Op
<1>3. /\ pc = 1 => Step.do = "cancel_listed"
      /\ pc = 2 => Step.do = "await_cluster"
      /\ pc = 3 => Step.do = "reset_tables"
      /\ pc = 4 => Step.do = "submit"
  BY <1>1, <1>2 DEF Framed
<1>4. /\ pc = 5 => Step.do = "await_job"
      /\ pc \in {7, 9} => Step.do = "insert" /\ Step.n = 1
      /\ pc = 6 => Step.do = "require_checkpoint"
      /\ pc \in {8, 10, 12} => Step.do = "await_checkpoint_after"
      /\ pc = 11 => Step.do = "await_rows" /\ Step.n = 2
      /\ pc = 13 => Step.do = "cancel"
      /\ pc = 14 => Step.do = "measure_before"
      /\ pc = 15 => Step.do = "rewrite"
      /\ pc = 16 => Step.do = "measure_after"
      /\ pc = 17 => Step.do = "verdict"
  BY <1>1, <1>2 DEF Rewrites
<1>5. pc \in {1,2,3,4,5,6,7,8,9,10,11,12,13,14,15,16,17}
  BY <1>1
<1>6. pc \in Nat
  BY <1>1
<1> QED BY <1>1, <1>3, <1>4, <1>5, <1>6 DEF Writes, Seams, Stops

\* The fault drills do not touch their job.
LEMMA FaultPlace ==
  ASSUME ScriptInv, drill \in Fault
  PROVE  Step.do \notin Seams /\ InsertsRows(Step)
BY ScriptsLegal DEF ScriptInv, Legal, Step, Op

\* What the other drills need not know: a job is stopped at one step.
LEMMA StopPlace ==
  ASSUME ScriptInv, drill \in Judged
  PROVE  /\ Step.do \in Stops => drill \notin Fault /\ pc = StopsAt(drill)
         /\ Step.do = "cancel" => drill # "jobmanager_restart"
         /\ Step.do = "restart_jobmanager" => drill = "jobmanager_restart"
         /\ Step.do = "savepoint" =>
              drill \in {"savepoint_restore", "smoke"} /\ pc = StopsAt(drill) - 1
         /\ Step.do = "find_retained" => drill = "checkpoint_restore" /\ pc = 10
         /\ Step.do = "submit_restored" => drill \in Restoring /\ pc = RestoresAt(drill)
         /\ Step.do \in Writes =>
              /\ pc > 4
              /\ drill \in Restoring => pc = 6 \/ pc > RestoresAt(drill)
         /\ InsertsRows(Step)
         /\ Step.do \in Stops \cup {"savepoint", "submit_restored"} => pc > 4
<1>1. CASE drill \in Fault
  BY <1>1, FaultPlace, Place DEF Seams, Stops, Fault, Restoring, Writes, ScriptInv, InsertsRows
<1>2. CASE drill = Rewriting
  BY <1>2, RewritePlace DEF Seams, Stops, Fault, Restoring, Rewriting, StopsAt, Writes, InsertsRows
<1>3. CASE drill \in Restoring
  <2>1. pc \in Nat
    BY Place
  <2>2. pc <= 4 => Step.do \in Submission \cup {"await_cluster"}
    <3>1. pc <= 4 => pc \in {1, 2, 3, 4}
      BY <2>1 DEF ScriptInv
    <3> QED BY <3>1, Place DEF Submission
  <2>3. pc <= RestoresAt(drill) => pc <= 4 \/ pc \in 5 .. 11
    BY <2>1 DEF RestoresAt
  <2>4. drill \notin Fault /\ drill # Rewriting
    BY <1>3 DEF Fault, Restoring, Rewriting
  <2>5. /\ RestoresAt(drill) = IF drill = "smoke" THEN 10 ELSE 11
        /\ StopsAt(drill) = IF drill = "savepoint_restore" THEN 10 ELSE 9
    BY <2>4 DEF RestoresAt, StopsAt
  <2>6. CASE pc > RestoresAt(drill)
    BY <1>3, <2>1, <2>5, <2>6, RestorePlace DEF AfterRestart, Writes, Stops
  <2>7. CASE pc <= 4
    BY <2>1, <2>2, <2>7 DEF Submission, Writes, Stops, InsertsRows
  <2>8. CASE pc \in 5 .. 11 /\ pc <= RestoresAt(drill)
    <3>1. pc \in {5, 6, 7, 8, 9, 10, 11}
      BY <2>8
    <3>2. drill = "smoke" => pc # 11
      BY <2>5, <2>8
    <3> QED BY <1>3, <2>4, <2>5, <3>1, <3>2, RestorePlace DEF Writes, Stops, Restoring, InsertsRows
  <2> QED BY <2>1, <2>3, <2>6, <2>7, <2>8, <2>5
<1> QED BY <1>1, <1>2, <1>3 DEF Judged

-----------------------------------------------------------------------------
(* The first job goes on: it publishes nothing. *)

\* An element of a sequence over S is in S.
LEMMA ElementsAre ==
  ASSUME NEW S, NEW s \in Seq(S), NEW n \in DOMAIN s
  PROVE  s[n] \in S
OBVIOUS

\* What the type invariant says of the two jobs and of the changelog.
LEMMA Kinds ==
  ASSUME TypeInv
  PROVE  /\ F \in Job /\ R \in Job /\ Len(binlog) \in Nat
         /\ \A i \in Published : i \in Nat
         /\ maxId["first"][Log] \in Nat /\ seen.point \in Point
<1>1. F \in Job /\ R \in Job
  BY DEF TypeInv, Name, F, R
<1>2. \A i \in Published : i \in Nat
  <2>1. changelog \in Seq([change : Nat, by : Name])
    BY DEF TypeInv
  <2>2. \A n \in DOMAIN changelog : changelog[n] \in [change : Nat, by : Name]
    BY <2>1, ElementsAre
  <2> QED BY <2>2 DEF Published
<1>3. maxId["first"][Log] \in Nat /\ Len(binlog) \in Nat /\ seen.point \in Point
  <2>1. "first" \in Name /\ Log \in Sink
    BY DEF Name, Log, Sink
  <2> QED BY <2>1 DEF TypeInv
<1> QED BY <1>1, <1>2, <1>3

\* What it is to be a job.
LEMMA JobKinds ==
  ASSUME NEW r \in Job
  PROVE  /\ r.read \in Nat /\ r.epoch \in Nat /\ r.done.id \in Nat /\ r.done.pos \in Nat
         /\ r.done \in Point /\ r.ongoing \in Point
         /\ \A s \in Sink : r.pend[s] \subseteq Files /\ r.done.pend[s] \subseteq Files
BY DEF Job, Point

\* The two sinks.
LEMMA LogIsASink == Log \in Sink /\ "current" \in Sink /\ Log # "current"
BY DEF Log, Sink

\* A checkpoint under way is what the job holds.
LEMMA OngoingIs ==
  ASSUME NEW r \in Job, Sound(r), r.ongoing # NoPoint
  PROVE  /\ r.ongoing.id = r.epoch /\ r.ongoing.pos = r.read /\ r.ongoing.pend = r.pend
         /\ r.recover = {} /\ r.notify = {} /\ r.status = "RUNNING" /\ r.done.id < r.epoch
         /\ r.table = 1 /\ r.done.pos <= r.read /\ r.read <= Len(binlog)
BY DEF Sound, PointOf

\* A job that is there is ahead of its last checkpoint, and behind the source.
LEMMA AliveIs ==
  ASSUME NEW r \in Job, Sound(r), r.status # "absent"
  PROVE  /\ r.read <= Len(binlog) /\ r.done.id <= r.epoch /\ r.done.pos <= r.read
         /\ r.read \in Nat /\ r.epoch \in Nat /\ r.done.id \in Nat /\ r.done.pos \in Nat
BY JobKinds DEF Sound

\* The job becomes q: it holds files it held before and files of what it reads
\* next, and its last checkpoint is the one before or the one that was under way.
GoesOn(q) ==
  /\ \/ q.done = F.done
     \/ F.ongoing # NoPoint /\ q.done = F.ongoing
  /\ \/ q.recover = F.recover
        /\ \A s \in Sink : \A f \in q.pend[s] : f \in F.pend[s] \/ F.read <= f.lo
     \/ q.pend = NoPoint.pend
     \/ drill \in Fault /\ Log \in q.recover

\* A job that publishes nothing goes on holding what is not in the changelog.
LEMMA FirstLogGoesOn ==
  ASSUME TypeInv, Sound(F), FirstLogInv, F.status # "absent", NEW q \in Job, F' = q, GoesOn(q),
         R' = R, changelog' = changelog, maxId' = maxId
  PROVE  FirstLogInv'
<1>1. SUFFICES ASSUME ~HandedOver
               PROVE  /\ \A i \in Published : i <= q.done.pos
                      /\ Log \notin q.recover => Unpublished(q.pend[Log])
                      /\ Unpublished(Beyond(q.done.pend[Log], maxId["first"][Log]))
  <2>1. HandedOver' = HandedOver /\ Published' = Published
    BY DEF HandedOver, Published
  <2>2. \A files : Unpublished(files)' = Unpublished(files)
    BY <2>1 DEF Unpublished
  <2> QED BY <2>1, <2>2 DEF FirstLogInv
<1>2. /\ \A i \in Published : i <= F.done.pos
      /\ Log \notin F.recover => Unpublished(F.pend[Log])
      /\ Unpublished(Beyond(F.done.pend[Log], maxId["first"][Log]))
  BY <1>1 DEF FirstLogInv
<1>3. /\ F \in Job /\ F.read \in Nat /\ F.done.pos \in Nat /\ F.done.pos <= F.read
      /\ \A i \in Published : i \in Nat
  BY Kinds, AliveIs
<1>4. CASE q.done = F.done
  <2>1. Log \notin q.recover => Unpublished(q.pend[Log])
    <3>1. CASE q.recover = F.recover
                 /\ \A s \in Sink : \A f \in q.pend[s] : f \in F.pend[s] \/ F.read <= f.lo
      <4>1. \A f \in q.pend[Log] : f \in Files
        BY JobKinds, LogIsASink
      <4> QED BY <1>2, <1>3, <3>1, <4>1, LogIsASink DEF Unpublished, Within, Files
    <3>2. CASE q.pend = NoPoint.pend
      BY <3>2, LogIsASink, EmptyIsSound DEF Unpublished
    <3> QED BY <3>1, <3>2 DEF GoesOn
  <2> QED BY <1>2, <1>4, <2>1
<1>5. CASE F.ongoing # NoPoint /\ q.done = F.ongoing
  <2>1. q.done.pos = F.read /\ q.done.pend = F.pend /\ F.recover = {}
    BY <1>3, <1>5, OngoingIs
  <2>2. Unpublished(F.pend[Log])
    BY <1>2, <2>1
  <2>3. Unpublished(Beyond(q.done.pend[Log], maxId["first"][Log]))
    BY <2>1, <2>2 DEF Unpublished, Beyond
  <2>4. \A i \in Published : i <= q.done.pos
    BY <1>2, <1>3, <2>1
  <2>5. Log \notin q.recover => Unpublished(q.pend[Log])
    <3>1. CASE q.recover = F.recover
                 /\ \A s \in Sink : \A f \in q.pend[s] : f \in F.pend[s] \/ F.read <= f.lo
      <4>1. \A f \in q.pend[Log] : f \in Files
        BY JobKinds, LogIsASink
      <4> QED BY <1>2, <1>3, <2>2, <3>1, <4>1, LogIsASink DEF Unpublished, Within, Files
    <3>2. CASE q.pend = NoPoint.pend
      BY <3>2, LogIsASink, EmptyIsSound DEF Unpublished
    <3> QED BY <3>1, <3>2 DEF GoesOn
  <2> QED BY <2>3, <2>4, <2>5
<1> QED BY <1>4, <1>5 DEF GoesOn

\* Its last checkpoint is not an earlier one.
LEMMA DoneGrows ==
  ASSUME TypeInv, Sound(F), F.status # "absent", NEW q \in Job, GoesOn(q)
  PROVE  /\ F.done.id <= q.done.id /\ F.done.pos <= q.done.pos
         /\ F.done.id \in Nat /\ F.done.pos \in Nat /\ q.done.id \in Nat /\ q.done.pos \in Nat
         /\ q.done.pos <= F.read \/ q.done = F.done
BY Kinds, JobKinds, AliveIs, OngoingIs DEF GoesOn

\* A good point stays good, as long as nothing is published or written.
LEMMA GoodStays ==
  ASSUME TypeInv, Sound(F), F.status # "absent", NEW q \in Job, F' = q, GoesOn(q),
         changelog' = changelog, maxId' = maxId, binlog' = binlog,
         NEW p \in Point, GoodPoint(p)
  PROVE  GoodPoint(p)'
<1>1. F.done.id <= q.done.id /\ F.done.id \in Nat /\ q.done.id \in Nat
  BY DoneGrows
<1>2. \A f \in p.pend[Log] : f.id \in Nat
  BY LogIsASink DEF Point, Files
<1>3. \A f \in p.pend[Log] : f.id <= q.done.id
  BY <1>1, <1>2 DEF GoodPoint
<1>4. Published' = Published
  BY DEF Published
<1>5. \A s \in Sink : Intervals(p.pend[s], p.id, p.pos)
  BY DEF GoodPoint
<1> QED BY <1>3, <1>4, <1>5 DEF GoodPoint, Unpublished

\* Such a job also keeps the other parts of the invariant that it could disturb:
\* what is unpublished, the good point and what the drill relies on behind the wait.
LEMMA FirstGoesOn ==
  ASSUME ScriptInv, Inv, drill \in Judged, pc > 4, F.status # "absent",
         NEW q \in Job, F' = q, Sound(q), GoesOn(q), R' = R,
         UNCHANGED <<binlog, harness, changelog, current, maxId, late>>,
         points' \subseteq points \/ drill # "checkpoint_restore" \/ pc <= StopsAt(drill)
  PROVE  /\ StartInv' /\ OnceInv' /\ FirstLogInv' /\ StopInv' /\ RestoredInv'
         /\ ShownInv' /\ RewriteInv'
<1>1. /\ UNCHANGED <<binlog, drill, pc, seen, changelog, current, maxId, late>>
  BY DEF harness, script
<1>2. /\ TypeInv /\ Sound(F) /\ StartInv /\ OnceInv /\ FirstLogInv /\ StopInv /\ RestoredInv
      /\ ShownInv /\ RewriteInv
  BY DEF Inv
<1>3. /\ F.done.id <= q.done.id /\ F.done.pos <= q.done.pos
      /\ F.done.id \in Nat /\ F.done.pos \in Nat /\ q.done.id \in Nat /\ q.done.pos \in Nat
      /\ q.done.pos <= F.read \/ q.done = F.done
  BY <1>2, DoneGrows
<1>4. F.read <= Len(binlog) /\ F.read \in Nat /\ Len(binlog) \in Nat /\ F.done.pos <= F.read
  BY <1>2, Kinds, AliveIs
<1>5. /\ Published' = Published /\ HandedOver' = HandedOver
  BY <1>1 DEF Published, HandedOver
<1>6. \A files : Unpublished(files)' = Unpublished(files)
  BY <1>5 DEF Unpublished
<1>7. StartInv'
  BY <1>1, Place DEF StartInv
<1>8. OnceInv'
  BY <1>1, <1>2 DEF OnceInv
<1>9. FirstLogInv'
  BY <1>1, <1>2, FirstLogGoesOn
<1>10. StopInv'
  <2>1. \A p \in Point : GoodPoint(p) => GoodPoint(p)'
    BY <1>1, <1>2, GoodStays
  <2>2. seen.point \in Point /\ seen' = seen
    BY <1>1, <1>2 DEF TypeInv
  <2>3. SUFFICES ASSUME drill \in Restoring PROVE StopInv'
    BY <1>1 DEF StopInv
  <2>4. pc > FillsAt(drill) /\ pc <= RestoresAt(drill) =>
          q.done.pos = Len(binlog) /\ q.done.id >= 1
    BY <1>2, <1>3, <1>4, <2>3 DEF StopInv
  <2>5. pc <= RestoresAt(drill) =>
          CASE drill \in {"savepoint_restore", "smoke"} ->
                 pc >= StopsAt(drill) => GoodPoint(seen.point)'
            [] drill = "jobmanager_restart" -> pc >= 9 => GoodPoint(seen.point)'
            [] OTHER -> pc = 11 /\ seen.point \in points' => GoodPoint(seen.point)'
    <3>1. pc = 11 /\ drill = "checkpoint_restore" => points' \subseteq points
      BY DEF StopsAt, Rewriting
    <3>2. drill \notin {"savepoint_restore", "smoke", "jobmanager_restart"} =>
            drill = "checkpoint_restore"
      BY <2>3 DEF Restoring
    <3> QED BY <1>2, <2>1, <2>2, <2>3, <3>1, <3>2 DEF StopInv, RestorePoint
  <2>6. /\ pc < FillsAt(drill) => binlog = <<>>
        /\ pc = FillsAt(drill) => Len(binlog) = Step.n /\ Len(binlog) > 0
        /\ pc <= RestoresAt(drill) => R = NoJob
    BY <1>2, <2>3 DEF StopInv
  <2>7. Step' = Step
    BY <1>1 DEF Step
  <2> QED BY <1>1, <2>2, <2>4, <2>5, <2>6, <2>7 DEF StopInv, RestorePoint
<1>11. RestoredInv'
  <2>1. ASSUME drill \in Restoring, pc > RestoresAt(drill), ~HandedOver
        PROVE  q.done = F.done
    <3>1. pc > StopsAt(drill) /\ drill \notin Fault
      BY <2>1, Place DEF StopsAt, RestoresAt, Restoring, Rewriting, Fault
    <3>2. F.status = "CANCELING"
      BY <3>1 DEF Inv, FirstInv
    <3>3. F.ongoing = NoPoint
      BY <1>2, <3>2, Kinds, OngoingIs
    <3> QED BY <3>3 DEF GoesOn
  <2> QED BY <1>1, <1>2, <1>5, <1>6, <2>1 DEF RestoredInv
<1>12. ShownInv'
  <2>1. SUFFICES ASSUME drill \notin Fault, pc <= FillsAt(drill), NEW r \in Row, current[r] # 0
                 PROVE  \E i \in 1 .. q.done.pos :
                          binlog[i].row = r /\ \A f \in q.pend["current"] : ~Within(f, i)
    BY <1>1 DEF ShownInv
  <2>2. PICK i \in 1 .. F.done.pos :
          binlog[i].row = r /\ \A f \in F.pend["current"] : ~Within(f, i)
    BY <1>2, <2>1 DEF ShownInv
  <2>3. \A f \in q.pend["current"] : f \in Files
    BY JobKinds, LogIsASink
  <2>4. \A f \in q.pend["current"] : f \in F.pend["current"] \/ F.read <= f.lo
    BY <2>1, LogIsASink, EmptyIsSound DEF GoesOn
  <2>5. \A f \in q.pend["current"] : ~Within(f, i)
    BY <1>3, <1>4, <2>2, <2>3, <2>4 DEF Within, Files
  <2>6. i \in 1 .. q.done.pos
    BY <1>3
  <2> QED BY <2>2, <2>5, <2>6
<1>13. RewriteInv'
  <2>1. SUFFICES ASSUME drill = Rewriting, pc > FillsAt(drill)
                 PROVE  q.pend["current"] = {} /\ q.done.pos = Len(binlog)
    BY <1>1, <1>2 DEF RewriteInv
  <2>2. F.pend["current"] = {} /\ F.done.pos = Len(binlog)
    BY <1>2, <2>1 DEF RewriteInv
  <2>3. q.done.pos = Len(binlog)
    BY <1>3, <1>4, <2>2
  <2>4. \A f \in q.pend["current"] : f \in F.pend["current"] \/ F.read <= f.lo
    BY <2>1, LogIsASink, EmptyIsSound DEF GoesOn, Fault, Rewriting
  <2>5. ASSUME NEW f \in q.pend["current"] PROVE FALSE
    <3>1. f \in Files /\ F.read <= f.lo
      BY <2>2, <2>4, <2>5, JobKinds, LogIsASink
    <3>2. f.lo < f.hi /\ f.hi <= q.read
      BY LogIsASink DEF Sound, Intervals
    <3>3. q.status # "absent"
      BY <2>5, LogIsASink, EmptyIsSound DEF Sound
    <3>4. q.read <= Len(binlog)
      BY <3>3 DEF Sound
    <3> QED BY <1>3, <1>4, <2>2, <3>1, <3>2, <3>4, JobKinds DEF Files
  <2> QED BY <2>3, <2>5
<1> QED BY <1>7, <1>8, <1>9, <1>10, <1>11, <1>12, <1>13

\* A step of one job leaves the others alone.
LEMMA JobUpdated ==
  ASSUME TypeInv, NEW j \in Name, NEW q \in Job, Update(j, q)
  PROVE  /\ job' \in [Name -> Job]
         /\ job'[j] = q /\ \A k \in Name : k # j => job'[k] = job[k]
BY DEF TypeInv, Update

\* A step of the first job.
LEMMA FirstUpdated ==
  ASSUME TypeInv, NEW q \in Job, Update("first", q)
  PROVE  /\ job' \in [Name -> Job]
         /\ F' = q /\ R' = R /\ job'["left"] = job["left"]
BY JobUpdated DEF Name, F, R

\* What the first job can be when it is q.
FirstMay(q) ==
  /\ q.status # "STARTING"
  /\ drill \notin Fault => q.status # "RESTARTING" /\ q.recover = {} /\ "fault" \notin q.notify
  /\ drill \notin Fault =>
       q.status \in IF pc > StopsAt(drill) THEN {"absent", "CANCELING"} ELSE {"RUNNING"}

\* A step of the first job that publishes nothing keeps the invariant.
LEMMA FirstMoves ==
  ASSUME ScriptInv, Inv, drill \in Judged, pc > 4, F.status # "absent",
         NEW q \in Job, Update("first", q), Sound(q), GoesOn(q), FirstMay(q),
         UNCHANGED <<binlog, aborted, tables, harness>>,
         \/ points' = points /\ (q.done = F.done \/ drill # "checkpoint_restore")
         \/ points' = points \cup {q.done} /\ F.ongoing # NoPoint /\ q.done = F.ongoing
  PROVE  Inv'
<1>1. /\ UNCHANGED <<binlog, aborted, drill, pc, seen, changelog, current, maxId, late, tableId>>
  BY DEF harness, script, tables
<1>2. TypeInv /\ LeftInv /\ Sound(F) /\ Sound(R) /\ FirstInv /\ DiskInv
  BY DEF Inv
<1>3. /\ job' \in [Name -> Job] /\ F' = q /\ R' = R /\ job'["left"] = job["left"]
  BY <1>2, FirstUpdated
<1>4. F.ongoing # NoPoint => drill \in Fault \/ pc <= StopsAt(drill)
  <2>1. F.ongoing # NoPoint => F.status = "RUNNING"
    BY <1>2, Kinds, OngoingIs
  <2>2. pc \in Nat
    BY Place
  <2> QED BY <1>2, <2>1, <2>2 DEF FirstInv, StopsAt
<1>5. TypeInv'
  <2>1. points' \subseteq Point
    BY <1>2, JobKinds DEF TypeInv
  <2> QED BY <1>1, <1>2, <1>3, <2>1 DEF TypeInv
<1>6. LeftInv'
  BY <1>1, <1>2, <1>3 DEF LeftInv
<1>7. Sound(F)' /\ Sound(R)'
  <2>1. \A r : Sound(r)' <=> Sound(r)
    BY <1>1 DEF Sound, Intervals, PointOf
  <2> QED BY <1>2, <1>3, <2>1
<1>8. FirstInv'
  BY <1>1, <1>3 DEF FirstInv, FirstMay
<1>9. DiskInv'
  <2>1. SUFFICES ASSUME drill = "checkpoint_restore", pc <= RestoresAt(drill)
                 PROVE  /\ \A p \in points' : p = q.done \/ p.id < q.done.id
                        /\ q.done.id > 0 => q.done \in points'
    BY <1>1, <1>2, <1>3 DEF DiskInv
  <2>2. /\ \A p \in points : p = F.done \/ p.id < F.done.id
        /\ F.done.id > 0 => F.done \in points
    BY <1>2, <2>1 DEF DiskInv
  <2>3. CASE points' = points /\ q.done = F.done
    BY <2>2, <2>3
  <2>4. CASE points' = points \cup {q.done} /\ F.ongoing # NoPoint /\ q.done = F.ongoing
    <3>1. F.done.id < q.done.id
      BY <1>2, <2>4, Kinds, OngoingIs
    <3>2. F.done.id \in Nat /\ q.done.id \in Nat /\ \A p \in points : p.id \in Nat
      BY <1>2, Kinds, JobKinds DEF TypeInv, Point
    <3> QED BY <2>2, <2>4, <3>1, <3>2
  <2> QED BY <2>1, <2>3, <2>4
<1>10. points' \subseteq points \/ drill # "checkpoint_restore" \/ pc <= StopsAt(drill)
  BY <1>4 DEF Fault
<1>11. UNCHANGED <<binlog, harness, changelog, current, maxId, late>>
  BY <1>1
<1>12. /\ StartInv' /\ OnceInv' /\ FirstLogInv' /\ StopInv' /\ RestoredInv'
       /\ ShownInv' /\ RewriteInv'
  BY <1>3, <1>10, <1>11, FirstGoesOn
<1> QED BY <1>5, <1>6, <1>7, <1>8, <1>9, <1>12 DEF Inv

\* Up to the submission there is no job but one that was left behind.
LEMMA FirstThere ==
  ASSUME ScriptInv, Inv, drill \in Judged, F.status # "absent" \/ R.status # "absent"
  PROVE  pc > 4 /\ tableId = 1
<1>1. pc > 4
  BY Place, EmptyIsSound DEF Inv, StartInv
<1> QED BY <1>1, Place DEF ScriptInv

\* The first job starts.
LEMMA FirstStarts ==
  ASSUME ScriptInv, Inv, drill \in Judged, JobStarts("first")
  PROVE  Inv'
<1>1. F.status = "STARTING" /\ F \in Job /\ TypeInv /\ Sound(F) /\ FirstInv
  BY Kinds DEF JobStarts, F, Inv
<1>2. pc > 4 /\ tableId = 1
  BY <1>1, FirstThere
<1>3. F.done.id = 0 /\ F.recover = {} /\ F.notify = {}
  BY <1>1, EmptyIsSound DEF FirstInv, Job
<1>4. PICK q : q = [F EXCEPT !.status = "RUNNING", !.table = 1,
                             !.recover = IF F.done.id > 0 THEN Sink ELSE {}]
  OBVIOUS
<1>5. q \in Job /\ Sound(q)
  BY <1>1, <1>4, StartedSound
<1>6. /\ q.status = "RUNNING" /\ q.done = F.done /\ q.recover = F.recover /\ q.pend = F.pend
      /\ q.notify = F.notify
  BY <1>1, <1>3, <1>4 DEF Job
<1>7. Update("first", q)
  BY <1>2, <1>4 DEF JobStarts, F
<1>8. GoesOn(q)
  BY <1>6 DEF GoesOn
<1>9. FirstMay(q)
  BY <1>1, <1>2, <1>3, <1>6 DEF FirstMay, FirstInv
<1> QED BY <1>1, <1>2, <1>5, <1>6, <1>7, <1>8, <1>9, FirstMoves DEF JobStarts, disk

\* The first job restarts, in a drill that makes it fail.
LEMMA FirstRestarts ==
  ASSUME ScriptInv, Inv, drill \in Judged, Restart("first")
  PROVE  Inv'
<1>1. F.status = "RESTARTING" /\ F \in Job /\ TypeInv /\ Sound(F) /\ FirstInv
  BY Kinds DEF Restart, F, Inv
<1>2. pc > 4 /\ tableId = 1
  BY <1>1, FirstThere
<1>3. drill \in Fault
  BY <1>1 DEF FirstInv
<1>4. PICK q : q = [F EXCEPT !.status = "RUNNING", !.table = 1, !.read = F.done.pos,
                             !.pend = F.done.pend,
                             !.recover = IF F.done.id > 0 THEN Sink ELSE {}]
  OBVIOUS
<1>5. q \in Job /\ Sound(q)
  BY <1>1, <1>4, RestartedSound
<1>6. /\ q.status = "RUNNING" /\ q.done = F.done /\ q.pend = F.done.pend
      /\ q.recover = IF F.done.id > 0 THEN Sink ELSE {}
  BY <1>1, <1>4 DEF Job
<1>7. Update("first", q)
  <2>1. Update("first", [job["first"] EXCEPT !.status = "RUNNING", !.table = tableId,
                              !.read = job["first"].done.pos, !.pend = job["first"].done.pend,
                              !.recover = IF job["first"].done.id > 0 THEN Sink ELSE {}])
    BY DEF Restart
  <2> QED BY <1>2, <1>4, <2>1 DEF F
<1>8. GoesOn(q)
  <2>1. CASE F.done.id > 0
    BY <1>3, <1>6, <2>1, LogIsASink DEF GoesOn
  <2>2. CASE F.done.id = 0
    BY <1>1, <1>6, <2>2 DEF GoesOn, Sound
  <2> QED BY <1>1, <2>1, <2>2, JobKinds
<1>9. FirstMay(q)
  BY <1>3, <1>6 DEF FirstMay
<1> QED BY <1>1, <1>2, <1>5, <1>6, <1>7, <1>8, <1>9, FirstMoves DEF Restart, disk

\* The job fails, in a drill that means it to.
LEMMA FirstFails ==
  ASSUME ScriptInv, Inv, drill \in Fault, F.status = "RUNNING", Update("first", Failed("first")),
         UNCHANGED <<binlog, disk, tables, harness>>
  PROVE  Inv'
<1>1. F \in Job /\ TypeInv /\ Sound(F) /\ drill \in Judged
  BY Kinds DEF Inv, Judged
<1>2. pc > 4
  BY <1>1, FirstThere
<1>3. PICK q : q = [F EXCEPT !.status = "RESTARTING", !.ongoing = NoPoint, !.notify = {},
                             !.recover = {}, !.pend = NoPoint.pend]
  OBVIOUS
<1>4. q \in Job /\ Sound(q)
  BY <1>1, <1>3, FailedSound
<1>5. q.status = "RESTARTING" /\ q.done = F.done /\ q.pend = NoPoint.pend
  BY <1>1, <1>3 DEF Job
<1>6. Update("first", q)
  BY <1>3 DEF Failed, F
<1>7. GoesOn(q)
  BY <1>5 DEF GoesOn
<1>8. FirstMay(q)
  BY <1>5 DEF FirstMay
<1> QED BY <1>1, <1>2, <1>4, <1>5, <1>6, <1>7, <1>8, FirstMoves DEF disk

\* Behind a barrier the job holds what it has read.
LEMMA FirstFlushes ==
  ASSUME TypeInv, Sound(F), F.status = "RUNNING", F.recover = {}, F.ongoing = NoPoint,
         NEW n \in Reached("first"), NEW q, q = Flushed("first", n)
  PROVE  /\ n \in Nat /\ F.read <= n /\ n <= Len(binlog)
         /\ q \in Job /\ Sound(q) /\ PointOf(q) \in Point
         /\ F.notify = {} => Sound([q EXCEPT !.ongoing = PointOf(q)])
         /\ [q EXCEPT !.ongoing = PointOf(q)] \in Job
         /\ q.status = F.status /\ q.done = F.done /\ q.recover = F.recover
         /\ q.notify = F.notify /\ q.epoch = F.epoch + 1 /\ q.read = n
         /\ PointOf(q).id = q.epoch /\ PointOf(q).pos = n /\ PointOf(q).pend = q.pend
         /\ \A s \in Sink : \A f \in q.pend[s] : f \in F.pend[s] \/ (F.read <= f.lo /\ F.read < n)
<1>1. F \in Job /\ F.read \in Nat /\ Len(binlog) \in Nat
  BY Kinds, JobKinds
<1>2. n \in Nat /\ F.read <= n /\ n <= Len(binlog)
  BY <1>1 DEF Reached, F
<1> DEFINE new == [id |-> F.epoch + 1, lo |-> F.read, hi |-> n]
<1>3. /\ q \in Job /\ PointOf(q) \in Point
      /\ q.status = F.status /\ q.epoch = F.epoch + 1 /\ q.read = n /\ q.done = F.done
      /\ q.notify = F.notify /\ q.recover = F.recover
      /\ PointOf(q).id = F.epoch + 1 /\ PointOf(q).pos = n /\ PointOf(q).pend = q.pend
      /\ \A s \in Sink : /\ q.pend[s] \subseteq F.pend[s] \cup {new}
                         /\ n = F.read => q.pend[s] = F.pend[s]
  BY <1>2, FlushedIs DEF F, Own
<1>4. /\ Sound(q)
      /\ F.notify = {} => Sound([q EXCEPT !.ongoing = PointOf(q)])
      /\ [q EXCEPT !.ongoing = PointOf(q)] \in Job
  BY <1>2, FlushedSound DEF F, Own
<1>5. \A s \in Sink : \A f \in q.pend[s] : f \in F.pend[s] \/ (F.read <= f.lo /\ F.read < n)
  BY <1>1, <1>2, <1>3
<1> QED BY <1>2, <1>3, <1>4, <1>5

\* The first job starts a checkpoint.
LEMMA FirstTriggers ==
  ASSUME ScriptInv, Inv, drill \in Judged, Trigger("first")
  PROVE  Inv'
<1>1. /\ F.status = "RUNNING" /\ F \in Job /\ TypeInv /\ Sound(F) /\ FirstInv
      /\ F.recover = {} /\ F.ongoing = NoPoint /\ F.notify = {}
  BY Kinds DEF Trigger, F, Inv
<1>2. pc > 4
  BY <1>1, FirstThere
<1>3. PICK n \in Reached("first") :
        Update("first", [Flushed("first", n) EXCEPT !.ongoing = PointOf(Flushed("first", n))])
  BY DEF Trigger
<1>4. PICK p : p = Flushed("first", n)
  OBVIOUS
<1>5. PICK q : q = [p EXCEPT !.ongoing = PointOf(p)]
  OBVIOUS
<1>6. /\ p \in Job /\ q \in Job /\ Sound(q)
      /\ p.status = F.status /\ p.done = F.done /\ p.recover = F.recover /\ p.notify = F.notify
      /\ \A s \in Sink : \A f \in p.pend[s] : f \in F.pend[s] \/ F.read <= f.lo
  BY <1>1, <1>4, <1>5, FirstFlushes
<1>7. /\ q.status = F.status /\ q.done = F.done /\ q.recover = F.recover /\ q.notify = F.notify
      /\ q.pend = p.pend
  BY <1>5, <1>6 DEF Job
<1>8. Update("first", q)
  BY <1>3, <1>4, <1>5
<1>9. GoesOn(q)
  BY <1>6, <1>7 DEF GoesOn
<1>10. FirstMay(q)
  BY <1>1, <1>2, <1>7 DEF FirstMay, FirstInv
<1> QED BY <1>1, <1>2, <1>6, <1>7, <1>8, <1>9, <1>10, FirstMoves DEF Trigger, disk

\* The first job completes a checkpoint, whose directory is on disk.
LEMMA FirstCompletes ==
  ASSUME ScriptInv, Inv, drill \in Judged, CompleteCheckpoint("first")
  PROVE  Inv'
<1>1. /\ F.status = "RUNNING" /\ F \in Job /\ TypeInv /\ Sound(F) /\ FirstInv
      /\ F.ongoing # NoPoint
  BY Kinds DEF CompleteCheckpoint, F, Inv
<1>2. pc > 4
  BY <1>1, FirstThere
<1>3. PICK told : told = IF Armed("first", "sink_commit_fault") THEN Sink \cup {"fault"} ELSE Sink
  OBVIOUS
<1>4. PICK q : q = [F EXCEPT !.done = F.ongoing, !.ongoing = NoPoint, !.notify = told]
  OBVIOUS
<1>5. q \in Job /\ Sound(q)
  BY <1>1, <1>3, <1>4, CompletedSound
<1>6. /\ q.status = F.status /\ q.done = F.ongoing /\ q.recover = F.recover
      /\ q.notify = told /\ q.pend = F.pend
  BY <1>1, <1>4 DEF Job
<1>7. Update("first", q)
  BY <1>3, <1>4 DEF CompleteCheckpoint, F
<1>8. GoesOn(q)
  BY <1>1, <1>6 DEF GoesOn
<1>9. drill \notin Fault => "fault" \notin told
  BY <1>3 DEF Armed, Fault, Sink
<1>10. FirstMay(q)
  BY <1>1, <1>2, <1>6, <1>9 DEF FirstMay, FirstInv
<1>11. \/ points' = points /\ drill # "checkpoint_restore"
       \/ points' = points \cup {q.done}
  BY <1>6 DEF CompleteCheckpoint, F, LooksAtDisk
<1>12. UNCHANGED <<binlog, aborted, tables, harness>>
  BY DEF CompleteCheckpoint
<1> QED BY <1>1, <1>2, <1>5, <1>6, <1>7, <1>8, <1>10, <1>11, <1>12, FirstMoves

\* It has been told, and has nothing to publish.
LEMMA FirstListens ==
  ASSUME ScriptInv, Inv, drill \in Judged, NEW l, F.status \in {"RUNNING", "CANCELING"},
         Update("first", [F EXCEPT !.notify = @ \ {l}]),
         UNCHANGED <<binlog, disk, tables, harness>>
  PROVE  Inv'
<1>1. F \in Job /\ TypeInv /\ Sound(F) /\ FirstInv
  BY Kinds DEF Inv
<1>2. pc > 4
  BY <1>1, FirstThere
<1>3. PICK q : q = [F EXCEPT !.notify = @ \ {l}]
  OBVIOUS
<1>4. q \in Job /\ Sound(q)
  BY <1>1, <1>3, ToldSound
<1>5. /\ q.status = F.status /\ q.done = F.done /\ q.recover = F.recover
      /\ q.notify = F.notify \ {l} /\ q.pend = F.pend
  BY <1>1, <1>3 DEF Job
<1>6. Update("first", q)
  BY <1>3
<1>7. GoesOn(q)
  BY <1>5 DEF GoesOn
<1>8. FirstMay(q)
  BY <1>1, <1>2, <1>5 DEF FirstMay, FirstInv
<1> QED BY <1>1, <1>2, <1>4, <1>5, <1>6, <1>7, <1>8, FirstMoves DEF disk

\* The operator of the commit fault is told, and throws or does not.
LEMMA FirstToldFault ==
  ASSUME ScriptInv, Inv, drill \in Judged, ToldFault("first")
  PROVE  Inv'
<1>1. "fault" \in F.notify /\ F.status \in {"RUNNING", "CANCELING"} /\ FirstInv
  BY DEF ToldFault, Told, F, Inv
<1>2. drill \in Fault
  BY <1>1 DEF FirstInv
<1>3. UNCHANGED <<binlog, disk, tables, harness>>
  BY DEF ToldFault
<1>4. CASE F.status = "RUNNING" /\ Update("first", Failed("first"))
  BY <1>2, <1>3, <1>4, FirstFails
<1>5. CASE Update("first", [F EXCEPT !.notify = @ \ {"fault"}])
  BY <1>1, <1>3, <1>5, FirstListens
<1> QED BY <1>4, <1>5 DEF ToldFault, F

\* The canceled job is gone.
LEMMA FirstEnds ==
  ASSUME ScriptInv, Inv, drill \in Judged, JobEnds("first")
  PROVE  Inv'
<1>1. F.status = "CANCELING" /\ F \in Job /\ TypeInv /\ Sound(F) /\ FirstInv
  BY Kinds DEF JobEnds, F, Inv
<1>2. pc > 4
  BY <1>1, FirstThere
<1>3. PICK q : q = [NoJob EXCEPT !.done = F.done]
  OBVIOUS
<1>4. q \in Job /\ Sound(q)
  BY <1>1, <1>3, GoneSound
<1>5. /\ q.status = "absent" /\ q.done = F.done /\ q.pend = NoPoint.pend
      /\ q.recover = {} /\ q.notify = {}
  BY <1>3, EmptyIsSound DEF Job
<1>6. Update("first", q)
  BY <1>3 DEF JobEnds, F
<1>7. GoesOn(q)
  BY <1>5 DEF GoesOn
<1>8. FirstMay(q)
  BY <1>1, <1>2, <1>5 DEF FirstMay, FirstInv
<1> QED BY <1>1, <1>2, <1>4, <1>5, <1>6, <1>7, <1>8, FirstMoves DEF JobEnds, disk

-----------------------------------------------------------------------------
(* The first job publishes. *)

\* A change is in one of a job's files at most.
LEMMA Apart ==
  ASSUME NEW files, files \subseteq Files, NEW id, NEW pos, Intervals(files, id, pos),
         NEW f \in files, NEW g \in files, f # g, NEW i \in Nat, Within(g, i)
  PROVE  ~Within(f, i)
<1>1. f.hi <= g.lo \/ g.hi <= f.lo
  BY DEF Intervals
<1>2. f.hi \in Nat /\ f.lo \in Nat /\ g.hi \in Nat /\ g.lo \in Nat
  BY DEF Files
<1> QED BY <1>1, <1>2 DEF Within

\* No files hold no changes.
LEMMA NothingHeld == Held({}) = {}
BY DEF Held

\* Sink s of the first job publishes files of its last checkpoint and keeps
\* others; if the restored job has the table, that is late.
Publishing(s, files, q) ==
  /\ Publish("first", s, files, F.done.id)
  /\ files \subseteq F.pend[s]
  /\ \A f \in files : f.id <= F.done.id /\ f.hi <= F.done.pos
  /\ s = Log /\ ~HandedOver => Unpublished(files)
  /\ q.done = F.done /\ \A t \in Sink : q.pend[t] \subseteq F.pend[t]
  /\ q.pend[s] \cap files = {}
  /\ Log \notin q.recover => Log \notin F.recover \/ q.pend[Log] = {}
  /\ late \subseteq late'
  /\ s = Log /\ HandedOver /\ files # {} => Log \in late'

\* What a publication of the first job does to the changelog.
LEMMA FirstAdds ==
  ASSUME TypeInv, NEW s \in Sink, NEW files, NEW q, Publishing(s, files, q)
  PROVE  /\ changelog' \in Seq([change : Nat, by : Name])
         /\ \A n \in DOMAIN changelog' :
              \/ n \in DOMAIN changelog /\ changelog'[n] = changelog[n]
              \/ /\ changelog'[n].by = "first" /\ s = Log /\ changelog'[n].change \in Held(files)
         /\ \A i \in Published' : i \in Published \/ (s = Log /\ i \in Held(files))
         /\ maxId' \in [Name -> [Sink -> Nat]]
         /\ maxId'["first"][Log] = IF s = Log /\ files # {} THEN F.done.id
                                   ELSE maxId["first"][Log]
         /\ current' = [r \in Row |-> current'[r]]
<1>1. "first" \in Name /\ F.done.id \in Nat /\ Log \in Sink
  BY Kinds, JobKinds, LogIsASink DEF Name
<1>2. /\ maxId' \in [Name -> [Sink -> Nat]]
      /\ maxId'["first"][Log] = IF s = Log /\ files # {} THEN F.done.id
                                ELSE maxId["first"][Log]
  BY <1>1, PublishSummary DEF Publishing
<1>3. CASE s = Log
  <2>1. Publish("first", Log, files, F.done.id)
    BY <1>3 DEF Publishing
  <2>2. /\ changelog' \in Seq([change : Nat, by : Name])
        /\ \A n \in DOMAIN changelog' :
             \/ n \in DOMAIN changelog /\ changelog'[n] = changelog[n]
             \/ changelog'[n].by = "first" /\ changelog'[n].change \in Held(files)
        /\ Published' \subseteq Published \cup Held(files)
        /\ current' = current
    BY <1>1, <2>1, PublishLog
  <2> QED BY <1>2, <1>3, <2>2 DEF TypeInv
<1>4. CASE s # Log
  <2>1. s = "current"
    BY <1>4 DEF Sink, Log
  <2>2. changelog' = changelog /\ current' = [r \in Row |-> current'[r]]
    BY <2>1, PublishCurrent DEF Publishing
  <2>3. Published' = Published
    BY <2>2 DEF Published
  <2> QED BY <1>2, <1>4, <2>2, <2>3 DEF TypeInv
<1> QED BY <1>3, <1>4

\* What the last checkpoint has is not published again behind the summary.
LEMMA BeyondStays ==
  ASSUME TypeInv, NEW s \in Sink, NEW files, NEW q, Publishing(s, files, q),
         NEW X, X \subseteq Files, \A f \in X : f.id <= F.done.id,
         Unpublished(Beyond(X, maxId["first"][Log]))
  PROVE  Unpublished(Beyond(X, maxId["first"][Log]))'
<1>1. /\ \A i \in Published' : i \in Published \/ (s = Log /\ i \in Held(files))
      /\ maxId'["first"][Log] = IF s = Log /\ files # {} THEN F.done.id
                                ELSE maxId["first"][Log]
  BY FirstAdds
<1>2. CASE s = Log /\ files # {}
  <2>1. F.done.id \in Nat /\ \A f \in X : f.id \in Nat
    BY Kinds, JobKinds DEF Files
  <2>2. Beyond(X, maxId["first"][Log])' = {}
    BY <1>1, <1>2, <2>1 DEF Beyond
  <2> QED BY <2>2 DEF Unpublished
<1>3. CASE ~(s = Log /\ files # {})
  <2>1. \A i \in Published' : i \in Published
    BY <1>1, <1>3, NothingHeld
  <2>2. Beyond(X, maxId["first"][Log])' = Beyond(X, maxId["first"][Log])
    BY <1>1, <1>3 DEF Beyond
  <2> QED BY <2>1, <2>2 DEF Unpublished
<1> QED BY <1>2, <1>3

\* The first job publishes: what it has not published, or late.
LEMMA FirstPublishes ==
  ASSUME ScriptInv, Inv, drill \in Judged, pc > 4, F.status # "absent",
         NEW q \in Job, Update("first", q), Sound(q), FirstMay(q),
         NEW s \in Sink, NEW files, Publishing(s, files, q),
         UNCHANGED <<binlog, disk, tableId, harness>>
  PROVE  Inv'
<1>1. /\ UNCHANGED <<binlog, points, aborted, drill, pc, seen, tableId>>
  BY DEF harness, script, disk
<1>2. /\ TypeInv /\ LeftInv /\ Sound(F) /\ Sound(R) /\ FirstInv /\ DiskInv /\ OnceInv
      /\ FirstLogInv /\ StopInv /\ RestoredInv /\ ShownInv /\ RewriteInv
  BY DEF Inv
<1>3. /\ job' \in [Name -> Job] /\ F' = q /\ R' = R /\ job'["left"] = job["left"]
  BY <1>2, FirstUpdated
<1>4. /\ changelog' \in Seq([change : Nat, by : Name])
      /\ \A n \in DOMAIN changelog' :
           \/ n \in DOMAIN changelog /\ changelog'[n] = changelog[n]
           \/ /\ changelog'[n].by = "first" /\ s = Log /\ changelog'[n].change \in Held(files)
      /\ \A i \in Published' : i \in Published \/ (s = Log /\ i \in Held(files))
      /\ maxId' \in [Name -> [Sink -> Nat]]
      /\ current' = [r \in Row |-> current'[r]]
  BY <1>2, FirstAdds
<1>5. /\ F \in Job /\ F.done.id \in Nat /\ F.done.pos \in Nat /\ q.done = F.done
      /\ Len(binlog) \in Nat /\ F.done.pos <= F.read /\ F.read <= Len(binlog) /\ F.read \in Nat
      /\ \A t \in Sink : F.pend[t] \subseteq Files /\ F.done.pend[t] \subseteq Files
      /\ \A t \in Sink : q.pend[t] \subseteq F.pend[t]
      /\ files \subseteq F.pend[s] /\ q.pend[s] \cap files = {}
      /\ \A f \in files : f \in Files /\ f.hi <= F.done.pos
      /\ late \subseteq late'
  BY <1>2, Kinds, JobKinds, AliveIs DEF Publishing
<1>6. Held(files) \subseteq 1 .. Len(binlog)
  BY <1>2, HeldAre
<1>7. \A i \in Held(files) : i \in Nat /\ 1 <= i /\ i <= F.done.pos
  <2>1. ASSUME NEW i \in Held(files) PROVE i \in Nat /\ 1 <= i /\ i <= F.done.pos
    <3>1. PICK f \in files : Within(f, i)
      BY HeldWithin
    <3> QED BY <1>5, <1>6, <3>1 DEF Within, Files
  <2> QED BY <2>1
<1>8. HandedOver' = HandedOver
  BY <1>3 DEF HandedOver
<1>9. \A X : /\ X \subseteq Files /\ \A f \in X : f.id <= F.done.id
             /\ Unpublished(Beyond(X, maxId["first"][Log]))
             => Unpublished(Beyond(X, maxId["first"][Log]))'
  BY <1>2, BeyondStays
<1>10. HandedOver /\ Log \notin late' => s # Log \/ files = {}
  BY DEF Publishing
<1>11. TypeInv'
  BY <1>1, <1>2, <1>3, <1>4 DEF TypeInv
<1>12. LeftInv' /\ StartInv' /\ FirstInv' /\ DiskInv'
  <2>1. LeftInv'
    BY <1>1, <1>2, <1>3 DEF LeftInv
  <2>2. FirstInv'
    BY <1>1, <1>3 DEF FirstInv, FirstMay
  <2>3. DiskInv'
    BY <1>1, <1>2, <1>3, <1>5 DEF DiskInv
  <2>4. StartInv'
    BY <1>1, Place DEF StartInv
  <2> QED BY <2>1, <2>2, <2>3, <2>4
<1>13. Sound(F)' /\ Sound(R)'
  <2>1. \A r : Sound(r)' <=> Sound(r)
    BY <1>1 DEF Sound, Intervals, PointOf
  <2> QED BY <1>2, <1>3, <2>1
<1>14. OnceInv'
  <2>1. ASSUME NEW n \in DOMAIN changelog'
        PROVE  changelog'[n].by \in Own /\ changelog'[n].change <= Len(binlog)
    BY <1>2, <1>4, <1>6, <1>5 DEF OnceInv, Own
  <2>2. ASSUME Log \notin late', NEW m \in DOMAIN changelog', NEW n \in DOMAIN changelog',
               changelog'[m].change = changelog'[n].change
        PROVE  m = n
    <3>1. \A k, l \in DOMAIN changelog : changelog[k].change = changelog[l].change => k = l
      BY <1>2, <1>5, <2>2 DEF OnceInv
    <3>2. CASE s = Log /\ ~HandedOver
      <4>1. Unpublished(files)
        BY <3>2 DEF Publishing
      <4>2. ASSUME NEW k \in DOMAIN changelog PROVE changelog[k].change \notin Held(files)
        <5>1. changelog[k].change \in Published
          BY DEF Published
        <5> QED BY <4>1, <5>1, HeldWithin DEF Unpublished
      <4>3. Publish("first", Log, files, F.done.id) /\ "first" \in Name
        BY <3>2 DEF Publishing, Name
      <4> QED BY <1>2, <2>2, <3>1, <4>2, <4>3, PublishLog
    <3>3. CASE ~(s = Log /\ ~HandedOver)
      <4>1. s # Log \/ Held(files) = {}
        BY <1>10, <2>2, <3>3, NothingHeld
      <4> QED BY <1>4, <2>2, <3>1, <4>1
    <3> QED BY <3>2, <3>3
  <2> QED BY <1>1, <2>1, <2>2 DEF OnceInv
<1>15. FirstLogInv'
  <2>1. SUFFICES ASSUME ~HandedOver
                 PROVE  /\ \A i \in Published' : i <= F.done.pos
                        /\ Log \notin q.recover => Unpublished(q.pend[Log])'
                        /\ Unpublished(Beyond(F.done.pend[Log], maxId["first"][Log]))'
    BY <1>3, <1>5, <1>8 DEF FirstLogInv, Unpublished
  <2>2. /\ \A i \in Published : i <= F.done.pos
        /\ Log \notin F.recover => Unpublished(F.pend[Log])
        /\ Unpublished(Beyond(F.done.pend[Log], maxId["first"][Log]))
    BY <1>2, <2>1 DEF FirstLogInv
  <2>3. \A i \in Published' : i <= F.done.pos
    BY <1>4, <1>7, <2>2
  <2>4. ASSUME Log \notin q.recover, NEW f \in q.pend[Log], NEW i \in Published'
        PROVE  ~Within(f, i)
    <3>1. Log \notin F.recover /\ Unpublished(F.pend[Log]) /\ f \in F.pend[Log]
      BY <1>5, <2>2, <2>4, LogIsASink DEF Publishing
    <3>2. CASE i \in Published
      BY <3>1, <3>2 DEF Unpublished
    <3>3. CASE s = Log /\ i \in Held(files)
      <4>1. PICK g \in files : Within(g, i)
        BY <3>3, HeldWithin
      <4>2. f # g /\ g \in F.pend[Log] /\ F.pend[Log] \subseteq Files
        BY <1>5, <2>4, <3>3
      <4>3. Intervals(F.pend[Log], F.epoch, F.read)
        BY <1>2, LogIsASink DEF Sound
      <4> QED BY <1>7, <3>1, <3>3, <4>1, <4>2, <4>3, Apart
    <3> QED BY <1>4, <3>2, <3>3
  <2>5. \A f \in F.done.pend[Log] : f.id <= F.done.id
    BY <1>2, LogIsASink DEF Sound, Intervals
  <2>6. Unpublished(Beyond(F.done.pend[Log], maxId["first"][Log]))'
    <3> DEFINE X == F.done.pend[Log]
    <3>1. PICK Y : Y = X
      OBVIOUS
    <3>2. Unpublished(Beyond(Y, maxId["first"][Log]))'
      BY <1>5, <1>9, <2>2, <2>5, <3>1, LogIsASink
    <3>3. F.done' = F.done
      BY <1>3, <1>5
    <3> QED BY <3>1, <3>2, <3>3
  <2> QED BY <2>3, <2>4, <2>6 DEF Unpublished
<1>16. StopInv'
  <2>1. SUFFICES ASSUME drill \in Restoring PROVE StopInv'
    BY <1>1 DEF StopInv
  <2>2. ASSUME NEW p \in Point, GoodPoint(p) PROVE GoodPoint(p)'
    <3>1. p.pend[Log] \subseteq Files
      BY LogIsASink DEF Point
    <3>2. Unpublished(Beyond(p.pend[Log], maxId["first"][Log]))'
      BY <1>9, <2>2, <3>1 DEF GoodPoint
    <3>3. F.done.id' = F.done.id
      BY <1>3, <1>5
    <3> QED BY <1>1, <2>2, <3>2, <3>3 DEF GoodPoint, Intervals
  <2>3. seen.point \in Point
    BY <1>2, Kinds
  <2>4. pc <= RestoresAt(drill) =>
          CASE drill \in {"savepoint_restore", "smoke"} ->
                 pc >= StopsAt(drill) => GoodPoint(seen.point)'
            [] drill = "jobmanager_restart" -> pc >= 9 => GoodPoint(seen.point)'
            [] OTHER -> pc = 11 /\ seen.point \in points => GoodPoint(seen.point)'
    <3>1. PICK p \in Point : p = seen.point /\ p = seen'.point
      BY <1>1, <2>3
    <3>2. GoodPoint(p) => GoodPoint(p)'
      BY <2>2
    <3>3. GoodPoint(p) = GoodPoint(seen.point) /\ GoodPoint(p)' = GoodPoint(seen.point)'
      BY <3>1 DEF GoodPoint
    <3> QED BY <1>2, <2>1, <3>1, <3>2, <3>3 DEF StopInv, RestorePoint, Restoring
  <2>5. Step' = Step
    BY <1>1 DEF Step
  <2> QED BY <1>1, <1>2, <1>3, <1>5, <2>1, <2>4, <2>5 DEF StopInv, RestorePoint
<1>17. RestoredInv'
  <2>1. ASSUME drill \in Restoring, pc > RestoresAt(drill), ~HandedOver
        PROVE  Unpublished(Beyond(R.pend[Log], maxId["first"][Log]))'
    <3>1. /\ \A f \in R.pend[Log] : f.id <= F.done.id
          /\ Unpublished(Beyond(R.pend[Log], maxId["first"][Log]))
      BY <1>2, <2>1 DEF RestoredInv
    <3>2. R.pend[Log] \subseteq Files
      BY <1>2, Kinds, JobKinds, LogIsASink
    <3>3. PICK Y : Y = R.pend[Log] /\ Y = R'.pend[Log]
      BY <1>3
    <3>4. Unpublished(Beyond(Y, maxId["first"][Log]))'
      BY <1>9, <3>1, <3>2, <3>3
    <3> QED BY <3>3, <3>4
  <2>2. ASSUME HandedOver, Log \notin late'
        PROVE  /\ \A i \in Published' : i <= R.done.pos
               /\ Unpublished(R.pend[Log])'
    <3>1. \A i \in Published' : i \in Published
      BY <1>4, <1>10, <2>2, NothingHeld
    <3>2. /\ \A i \in Published : i <= R.done.pos
          /\ Unpublished(R.pend[Log])
      BY <1>2, <1>5, <2>2 DEF RestoredInv
    <3> QED BY <1>3, <3>1, <3>2 DEF Unpublished
  <2> QED BY <1>1, <1>2, <1>3, <1>5, <1>8, <2>1, <2>2 DEF RestoredInv
<1>18. ShownInv'
  <2>1. SUFFICES ASSUME drill \notin Fault, pc <= FillsAt(drill), NEW r \in Row, current'[r] # 0
                 PROVE  \E i \in 1 .. F.done.pos :
                          binlog[i].row = r /\ \A f \in q.pend["current"] : ~Within(f, i)
    BY <1>1, <1>3, <1>5 DEF ShownInv
  <2>2. CASE current'[r] = current[r]
    <3>1. PICK i \in 1 .. F.done.pos :
            binlog[i].row = r /\ \A f \in F.pend["current"] : ~Within(f, i)
      BY <1>2, <2>1, <2>2 DEF ShownInv
    <3> QED BY <1>5, <3>1, LogIsASink
  <2>3. CASE current'[r] # current[r]
    <3>1. s = "current"
      <4>1. s = Log => current' = current
        BY <1>2, PublishLog DEF Publishing, Name
      <4> QED BY <2>3, <4>1 DEF Sink, Log
    <3>2. PICK i \in Held(files) : binlog[i].row = r
      <4>1. Publish("first", "current", files, F.done.id)
        BY <3>1 DEF Publishing
      <4> QED BY <1>2, <2>3, <4>1, PublishCurrent
    <3>3. i \in 1 .. F.done.pos
      BY <1>5, <1>7
    <3>4. PICK g \in files : Within(g, i)
      BY HeldWithin
    <3>5. ASSUME NEW f \in q.pend["current"] PROVE ~Within(f, i)
      <4>1. f # g /\ f \in F.pend["current"] /\ g \in F.pend["current"]
        BY <1>5, <3>1, LogIsASink
      <4>2. F.pend["current"] \subseteq Files /\ Intervals(F.pend["current"], F.epoch, F.read)
        BY <1>2, <1>5, LogIsASink DEF Sound
      <4> QED BY <1>7, <3>4, <4>1, <4>2, Apart
    <3> QED BY <3>2, <3>3, <3>5
  <2> QED BY <2>2, <2>3
<1>19. RewriteInv'
  <2>1. F.pend["current"] = {} => q.pend["current"] = {}
    BY <1>5, LogIsASink
  <2> QED BY <1>1, <1>2, <1>3, <1>5, <2>1 DEF RewriteInv
<1> QED BY <1>11, <1>12, <1>13, <1>14, <1>15, <1>16, <1>17, <1>18, <1>19 DEF Inv

\* The first job is told of a checkpoint and commits it, also while it is canceling.
LEMMA FirstCommits ==
  ASSUME ScriptInv, Inv, drill \in Judged, NEW s \in Sink, Commit("first", s)
  PROVE  Inv'
<1>1. /\ F \in Job /\ R \in Job /\ TypeInv /\ Sound(F) /\ FirstInv /\ FirstLogInv
      /\ RestoredInv
  BY Kinds DEF Inv
<1>2. s \in F.notify /\ F.status \in {"RUNNING", "CANCELING"}
  BY DEF Commit, Told, F
<1>3. pc > 4 /\ tableId = 1
  BY <1>2, FirstThere
<1>4. F.table = 1 /\ F.recover = {} /\ F.ongoing = NoPoint
  BY <1>1, <1>2 DEF Sound
<1>5. Opened("first")
  BY <1>3, <1>4 DEF Opened, F
<1>6. PICK files : files = {f \in F.pend[s] : f.id <= F.done.id}
  OBVIOUS
<1>7. PICK q : q = [F EXCEPT !.notify = @ \ {s}, !.pend[s] = @ \ files]
  OBVIOUS
<1>8. /\ q.status = F.status /\ q.done = F.done /\ q.recover = F.recover
      /\ q.notify = F.notify \ {s} /\ q.read = F.read /\ q.epoch = F.epoch
      /\ q.ongoing = F.ongoing /\ q.table = F.table
      /\ q.pend = [F.pend EXCEPT ![s] = F.pend[s] \ files]
  BY <1>1, <1>7 DEF Job
<1>9. /\ q.pend[s] = F.pend[s] \ files /\ \A t \in Sink : q.pend[t] \subseteq F.pend[t]
  BY <1>1, <1>8 DEF Job
<1>10. q \in Job
  <2>1. q.pend \in [Sink -> SUBSET Files]
    BY <1>1, <1>8 DEF Job
  <2> QED BY <1>1, <1>7, <1>8, <2>1 DEF Job
<1>11. Sound(q)
  BY <1>1, <1>2, <1>4, <1>8, <1>10, FewerSound
<1>12. Update("first", q)
  BY <1>5, <1>6, <1>7 DEF Commit, F
<1>13. late' = IF files # {} /\ Opened("restored") /\ s \notin R.recover
               THEN late \cup {s} ELSE late
  BY <1>5, <1>6 DEF Commit, F, R
<1>14. Publish("first", s, files, F.done.id)
  BY <1>5, <1>6 DEF Commit, F
<1>15. Publishing(s, files, q)
  <2>1. \A f \in files : f.id <= F.done.id /\ f.hi <= F.done.pos
    BY <1>1, <1>6 DEF Sound
  <2>2. s = Log /\ ~HandedOver => Unpublished(files)
    BY <1>1, <1>4, <1>6 DEF FirstLogInv, Unpublished
  <2>3. s = Log /\ HandedOver /\ files # {} => Log \in late'
    <3>1. HandedOver => R.table = 1 /\ Log \notin R.recover
      BY <1>1 DEF RestoredInv, HandedOver
    <3> QED BY <1>3, <1>13, <3>1 DEF Opened, R
  <2>4. files \subseteq F.pend[s] /\ q.pend[s] \cap files = {}
    BY <1>6, <1>9
  <2> QED BY <1>8, <1>9, <1>13, <1>14, <2>1, <2>2, <2>3, <2>4 DEF Publishing
<1>16. FirstMay(q)
  BY <1>1, <1>2, <1>3, <1>8 DEF FirstMay, FirstInv
<1>17. UNCHANGED <<binlog, disk, tableId, harness>>
  BY <1>5 DEF Commit, Publish
<1> QED BY <1>2, <1>3, <1>10, <1>11, <1>12, <1>15, <1>16, <1>17, FirstPublishes

\* The first job has restarted and publishes what the summary lacks.
LEMMA FirstRecovers ==
  ASSUME ScriptInv, Inv, drill \in Judged, NEW s \in Sink, Recover("first", s)
  PROVE  Inv'
<1>1. /\ F \in Job /\ TypeInv /\ Sound(F) /\ FirstInv /\ FirstLogInv
  BY Kinds DEF Inv
<1>2. s \in F.recover /\ F.status = "RUNNING"
  BY DEF Recover, F
<1>3. pc > 4 /\ tableId = 1 /\ drill \in Fault
  BY <1>1, <1>2, FirstThere DEF FirstInv
<1>4. F.pend[s] = F.done.pend[s] /\ F.ongoing = NoPoint /\ F.notify = {}
  BY <1>1, <1>2 DEF Sound
<1>5. PICK files : files = {f \in F.pend[s] : f.id > maxId["first"][s]}
  OBVIOUS
<1>6. PICK q : q = [F EXCEPT !.recover = @ \ {s}, !.pend[s] = {}]
  OBVIOUS
<1>7. /\ q.status = F.status /\ q.done = F.done /\ q.recover = F.recover \ {s}
      /\ q.notify = F.notify /\ q.read = F.read /\ q.epoch = F.epoch
      /\ q.ongoing = F.ongoing /\ q.table = F.table
      /\ q.pend = [F.pend EXCEPT ![s] = {}]
  BY <1>1, <1>6 DEF Job
<1>8. /\ q.pend[s] = {} /\ \A t \in Sink : q.pend[t] \subseteq F.pend[t]
  BY <1>1, <1>7 DEF Job
<1>9. q \in Job
  <2>1. q.pend \in [Sink -> SUBSET Files]
    BY <1>1, <1>7 DEF Job
  <2> QED BY <1>1, <1>6, <1>7, <2>1 DEF Job
<1>10. Sound(q)
  BY <1>1, <1>2, <1>4, <1>7, <1>9, FewerSound
<1>11. Update("first", q)
  BY <1>6 DEF Recover, F
<1>12. Publish("first", s, files, F.done.id)
  BY <1>5 DEF Recover, Missing, Lineage, F
<1>13. Publishing(s, files, q)
  <2>1. \A f \in files : f.id <= F.done.id /\ f.hi <= F.done.pos
    BY <1>1, <1>4, <1>5 DEF Sound, Intervals
  <2>2. s = Log /\ ~HandedOver => Unpublished(files)
    BY <1>1, <1>4, <1>5 DEF FirstLogInv, Beyond
  <2>3. ~HandedOver
    <3>1. R.status = "absent"
      BY <1>3, EmptyIsSound DEF Inv, RestoredInv, Fault, Restoring
    <3> QED BY <3>1 DEF HandedOver
  <2>4. files \subseteq F.pend[s] /\ q.pend[s] \cap files = {}
    BY <1>5, <1>8
  <2>5. Log \notin q.recover => Log \notin F.recover \/ q.pend[Log] = {}
    BY <1>7, <1>8
  <2>6. late' = late
    BY DEF Recover
  <2> QED BY <1>7, <1>8, <1>12, <2>1, <2>2, <2>3, <2>4, <2>5, <2>6 DEF Publishing
<1>14. FirstMay(q)
  BY <1>2, <1>3, <1>7 DEF FirstMay
<1>15. UNCHANGED <<binlog, disk, tableId, harness>>
  BY DEF Recover, Publish
<1> QED BY <1>2, <1>3, <1>9, <1>10, <1>11, <1>13, <1>14, <1>15, FirstPublishes

-----------------------------------------------------------------------------
(* The restored job. *)

\* It is there behind the restoration of a drill that restores one.
LEMMA RestoredThere ==
  ASSUME ScriptInv, Inv, drill \in Judged, R.status # "absent"
  PROVE  drill \in Restoring /\ pc > RestoresAt(drill) /\ pc > 4 /\ tableId = 1
<1>1. drill \in Restoring
  BY EmptyIsSound DEF Inv, RestoredInv
<1>2. ~(pc <= RestoresAt(drill))
  BY <1>1, EmptyIsSound DEF Inv, StopInv
<1>3. pc > 4 /\ tableId = 1
  BY FirstThere
<1> QED BY <1>1, <1>2, <1>3, Place DEF RestoresAt

\* The restored job runs, as q: until it has the table it publishes nothing and
\* holds what it was restored with; then it holds what is not published.
LEMMA RestoredMoves ==
  ASSUME ScriptInv, Inv, drill \in Judged, R.status # "absent",
         NEW q \in Job, Update("restored", q), Sound(q),
         q.status = "RUNNING", "fault" \notin q.notify,
         UNCHANGED <<binlog, disk, tableId, late, harness>>,
         changelog' \in Seq([change : Nat, by : Name]), maxId' \in [Name -> [Sink -> Nat]],
         current' = [r \in Row |-> current'[r]],
         maxId'["first"][Log] = maxId["first"][Log],
         OnceInv',
         HandedOver => Log \notin q.recover,
         Log \in q.recover => /\ changelog' = changelog /\ q.done = R.done
                              /\ q.pend[Log] = R.pend[Log],
         Log \notin q.recover /\ Log \notin late =>
           (\A i \in Published : i <= q.done.pos)' /\ Unpublished(q.pend[Log])'
  PROVE  Inv'
<1>1. /\ UNCHANGED <<binlog, points, aborted, drill, pc, seen, tableId, late>>
  BY DEF harness, script, disk
<1>2. /\ TypeInv /\ LeftInv /\ Sound(F) /\ FirstInv /\ FirstLogInv /\ RestoredInv
  BY DEF Inv
<1>3. drill \in Restoring /\ pc > RestoresAt(drill) /\ pc > 4 /\ pc \in Nat
  BY RestoredThere, Place
<1>4. drill \notin Fault /\ drill # Rewriting /\ RestoresAt(drill) > FillsAt(drill)
      /\ RestoresAt(drill) \in Nat /\ FillsAt(drill) \in Nat
  BY <1>3 DEF Restoring, Fault, Rewriting, RestoresAt, FillsAt
<1>5. /\ job' \in [Name -> Job] /\ R' = q /\ F' = F /\ job'["left"] = job["left"]
  BY <1>2, JobUpdated DEF Name, F, R
<1>6. TypeInv'
  BY <1>1, <1>2, <1>5 DEF TypeInv
<1>7. LeftInv' /\ StartInv' /\ FirstInv'
  BY <1>1, <1>2, <1>3, <1>5 DEF LeftInv, StartInv, FirstInv
<1>8. Sound(F)' /\ Sound(R)'
  <2>1. \A r : Sound(r)' <=> Sound(r)
    BY <1>1 DEF Sound, Intervals, PointOf
  <2> QED BY <1>2, <1>5, <2>1
<1>9. HandedOver' <=> Log \notin q.recover
  BY <1>5 DEF HandedOver
<1>10. ASSUME Log \in q.recover
       PROVE  /\ ~HandedOver /\ Published' = Published
              /\ \A X : Unpublished(Beyond(X, maxId["first"][Log])) =>
                          Unpublished(Beyond(X, maxId["first"][Log]))'
  BY <1>10 DEF Published, Unpublished, Beyond
<1>11. FirstLogInv'
  BY <1>2, <1>5, <1>9, <1>10 DEF FirstLogInv, Unpublished
<1>12. StopInv'
  BY <1>1, <1>3, <1>4 DEF StopInv
<1>13. DiskInv' /\ ShownInv' /\ RewriteInv'
  BY <1>1, <1>3, <1>4 DEF DiskInv, ShownInv, RewriteInv
<1>14. RestoredInv'
  <2>1. q.table = 1
    BY DEF Sound
  <2>2. ASSUME Log \in q.recover
        PROVE  /\ q.done.id >= 1 /\ q.pend[Log] = q.done.pend[Log]
               /\ F.done.pos <= q.done.pos
               /\ \A f \in q.pend[Log] : f.id <= F.done.id
               /\ Unpublished(Beyond(q.pend[Log], maxId["first"][Log]))'
    <3>1. /\ R.done.id >= 1 /\ R.pend[Log] = R.done.pend[Log]
          /\ F.done.pos <= R.done.pos
          /\ \A f \in R.pend[Log] : f.id <= F.done.id
          /\ Unpublished(Beyond(R.pend[Log], maxId["first"][Log]))
      BY <1>2, <1>3, <1>10, <2>2 DEF RestoredInv
    <3> QED BY <1>10, <2>2, <3>1
  <2> QED BY <1>1, <1>3, <1>5, <1>9, <2>1, <2>2 DEF RestoredInv
<1> QED BY <1>6, <1>7, <1>8, <1>11, <1>12, <1>13, <1>14 DEF Inv

\* The restored job starts, with what it was restored with to recover.
LEMMA RestoredStarts ==
  ASSUME ScriptInv, Inv, drill \in Judged, JobStarts("restored")
  PROVE  Inv'
<1>1. /\ R.status = "STARTING" /\ R \in Job /\ TypeInv /\ Sound(R) /\ RestoredInv /\ OnceInv
  BY Kinds DEF JobStarts, R, Inv
<1>2. drill \in Restoring /\ pc > RestoresAt(drill) /\ tableId = 1
  BY <1>1, RestoredThere
<1>3. ~HandedOver
  BY <1>1 DEF HandedOver
<1>4. R.done.id >= 1 /\ R.done.id \in Nat
  BY <1>1, <1>2, <1>3, JobKinds DEF RestoredInv
<1>5. PICK q : q = [R EXCEPT !.status = "RUNNING", !.table = 1,
                             !.recover = IF R.done.id > 0 THEN Sink ELSE {}]
  OBVIOUS
<1>6. q \in Job /\ Sound(q)
  BY <1>1, <1>5, StartedSound
<1>7. /\ q.status = "RUNNING" /\ q.done = R.done /\ q.recover = Sink /\ q.pend = R.pend
      /\ q.notify = R.notify
  BY <1>1, <1>4, <1>5 DEF Job
<1>8. Update("restored", q)
  BY <1>2, <1>5 DEF JobStarts, R
<1>9. UNCHANGED <<binlog, disk, tables, harness>>
  BY DEF JobStarts
<1>10. OnceInv'
  BY <1>1, <1>9 DEF OnceInv, tables
<1>11. "fault" \notin q.notify
  BY <1>1, <1>7 DEF RestoredInv
<1>12. /\ changelog' \in Seq([change : Nat, by : Name]) /\ maxId' \in [Name -> [Sink -> Nat]]
       /\ current' = [r \in Row |-> current'[r]]
       /\ UNCHANGED <<tableId, late, changelog, maxId>>
  BY <1>1, <1>9 DEF TypeInv, tables
<1> QED BY <1>1, <1>3, <1>6, <1>7, <1>8, <1>9, <1>10, <1>11, <1>12, LogIsASink, RestoredMoves

\* A restored job that has recovered has the table, and holds nothing that is
\* published.
LEMMA RestoredHolds ==
  ASSUME ScriptInv, Inv, drill \in Judged, R.status = "RUNNING", R.recover = {}
  PROVE  /\ HandedOver /\ R.table = 1
         /\ Log \notin late => (\A i \in Published : i <= R.done.pos) /\ Unpublished(R.pend[Log])
         /\ R.done.pos <= R.read /\ R.read <= Len(binlog)
         /\ R.read \in Nat /\ R.done.pos \in Nat
<1>1. HandedOver
  BY DEF HandedOver
<1> QED BY <1>1, Kinds, AliveIs DEF Inv, RestoredInv

\* The restored job starts a checkpoint.
LEMMA RestoredTriggers ==
  ASSUME ScriptInv, Inv, drill \in Judged, Trigger("restored")
  PROVE  Inv'
<1>1. /\ R.status = "RUNNING" /\ R \in Job /\ TypeInv /\ Sound(R) /\ RestoredInv /\ OnceInv
      /\ R.recover = {} /\ R.ongoing = NoPoint /\ R.notify = {}
  BY Kinds DEF Trigger, R, Inv
<1>2. /\ HandedOver
      /\ Log \notin late => (\A i \in Published : i <= R.done.pos) /\ Unpublished(R.pend[Log])
      /\ R.done.pos <= R.read /\ R.read \in Nat /\ R.done.pos \in Nat /\ Len(binlog) \in Nat
  BY <1>1, RestoredHolds, Kinds
<1>3. PICK n \in Reached("restored") :
        Update("restored", [Flushed("restored", n) EXCEPT !.ongoing = PointOf(Flushed("restored", n))])
  BY DEF Trigger
<1>4. n \in Nat /\ R.read <= n /\ n <= Len(binlog)
  BY <1>2 DEF Reached, R
<1>5. PICK p : p = Flushed("restored", n)
  OBVIOUS
<1>6. PICK q : q = [p EXCEPT !.ongoing = PointOf(p)]
  OBVIOUS
<1> DEFINE new == [id |-> R.epoch + 1, lo |-> R.read, hi |-> n]
<1>7. /\ p \in Job /\ p.status = R.status /\ p.done = R.done
      /\ p.notify = R.notify /\ p.recover = R.recover
      /\ \A s \in Sink : p.pend[s] \subseteq R.pend[s] \cup {new}
  BY <1>1, <1>4, <1>5, FlushedIs DEF R, Own
<1>8. q \in Job /\ Sound(q)
  BY <1>1, <1>4, <1>5, <1>6, FlushedSound DEF R, Own
<1>9. /\ q.status = R.status /\ q.done = R.done /\ q.recover = R.recover /\ q.notify = R.notify
      /\ q.pend = p.pend
  BY <1>6, <1>7 DEF Job
<1>10. Update("restored", q)
  BY <1>3, <1>5, <1>6
<1>11. UNCHANGED <<binlog, disk, tables, harness>>
  BY DEF Trigger
<1>12. OnceInv'
  BY <1>1, <1>11 DEF OnceInv, tables
<1>13. /\ changelog' \in Seq([change : Nat, by : Name]) /\ maxId' \in [Name -> [Sink -> Nat]]
       /\ current' = [r \in Row |-> current'[r]]
       /\ UNCHANGED <<tableId, late, changelog, maxId>>
  BY <1>1, <1>11 DEF TypeInv, tables
<1>14. Published' = Published
  BY <1>13 DEF Published
<1>15. Log \notin late => Unpublished(q.pend[Log])
  <2>1. ASSUME Log \notin late, NEW f \in q.pend[Log], NEW i \in Published PROVE ~Within(f, i)
    <3>1. f \in R.pend[Log] \/ f = new
      BY <1>7, <1>9, <2>1, LogIsASink
    <3>2. i \in Nat /\ i <= R.done.pos
      BY <1>1, <1>2, <2>1, Kinds
    <3> QED BY <1>2, <2>1, <3>1, <3>2 DEF Unpublished, Within
  <2> QED BY <2>1 DEF Unpublished
<1>16. Log \notin late => (\A i \in Published : i <= q.done.pos)' /\ Unpublished(q.pend[Log])'
  BY <1>2, <1>9, <1>14, <1>15 DEF Unpublished
<1>17. "fault" \notin q.notify /\ Log \notin q.recover
  BY <1>1, <1>9
<1> QED BY <1>1, <1>2, <1>8, <1>9, <1>10, <1>11, <1>12, <1>13, <1>16, <1>17, RestoredMoves

\* The restored job completes a checkpoint.
LEMMA RestoredCompletes ==
  ASSUME ScriptInv, Inv, drill \in Judged, CompleteCheckpoint("restored")
  PROVE  Inv'
<1>1. /\ R.status = "RUNNING" /\ R \in Job /\ TypeInv /\ Sound(R) /\ RestoredInv /\ OnceInv
      /\ R.ongoing # NoPoint
  BY Kinds DEF CompleteCheckpoint, R, Inv
<1>2. /\ R.recover = {} /\ R.ongoing.pos = R.read /\ R.ongoing.pend = R.pend
  BY <1>1, OngoingIs
<1>3. /\ HandedOver
      /\ Log \notin late => (\A i \in Published : i <= R.done.pos) /\ Unpublished(R.pend[Log])
      /\ R.done.pos <= R.read /\ R.read \in Nat /\ R.done.pos \in Nat
  BY <1>1, <1>2, RestoredHolds
<1>4. PICK q : q = [R EXCEPT !.done = R.ongoing, !.ongoing = NoPoint, !.notify = Sink]
  OBVIOUS
<1>5. q \in Job /\ Sound(q)
  BY <1>1, <1>4, CompletedSound
<1>6. /\ q.status = R.status /\ q.done = R.ongoing /\ q.recover = R.recover
      /\ q.notify = Sink /\ q.pend = R.pend
  BY <1>1, <1>4 DEF Job
<1>7. ~Armed("restored", "sink_commit_fault")
  BY DEF Armed
<1>8. Update("restored", q)
  BY <1>4, <1>7 DEF CompleteCheckpoint, R
<1>9. UNCHANGED <<binlog, disk, tables, harness>>
  BY DEF CompleteCheckpoint, disk
<1>10. OnceInv'
  BY <1>1, <1>9 DEF OnceInv, tables
<1>11. /\ changelog' \in Seq([change : Nat, by : Name]) /\ maxId' \in [Name -> [Sink -> Nat]]
       /\ current' = [r \in Row |-> current'[r]]
       /\ UNCHANGED <<tableId, late, changelog, maxId>>
  BY <1>1, <1>9 DEF TypeInv, tables
<1>12. Published' = Published /\ \A i \in Published : i \in Nat
  BY <1>1, <1>11, Kinds DEF Published
<1>13. Log \notin late => (\A i \in Published : i <= q.done.pos)' /\ Unpublished(q.pend[Log])'
  BY <1>2, <1>3, <1>6, <1>12 DEF Unpublished
<1>14. "fault" \notin q.notify /\ Log \notin q.recover
  BY <1>2, <1>6 DEF Sink
<1> QED BY <1>1, <1>5, <1>6, <1>8, <1>9, <1>10, <1>11, <1>13, <1>14, RestoredMoves

\* What a publication of the restored job does to the changelog.
LEMMA RestoredAdds ==
  ASSUME TypeInv, OnceInv, NEW s \in Sink, NEW files, Publish("restored", s, files, R.done.id),
         UNCHANGED <<binlog, late>>, s = Log /\ Log \notin late => Unpublished(files)
  PROVE  /\ changelog' \in Seq([change : Nat, by : Name])
         /\ \A i \in Published' : i \in Published \/ (s = Log /\ i \in Held(files))
         /\ s # Log => changelog' = changelog
         /\ maxId' \in [Name -> [Sink -> Nat]]
         /\ maxId'["first"][Log] = maxId["first"][Log]
         /\ current' = [r \in Row |-> current'[r]]
         /\ OnceInv'
<1>1. "restored" \in Name /\ "first" \in Name /\ R.done.id \in Nat /\ Log \in Sink
  BY Kinds, JobKinds, LogIsASink DEF Name
<1>2. /\ maxId' \in [Name -> [Sink -> Nat]]
      /\ maxId'["first"][Log] = maxId["first"][Log]
  <2>1. \A k \in Name, t \in Sink :
          maxId'[k][t] = IF k = "restored" /\ t = s /\ files # {} THEN R.done.id ELSE maxId[k][t]
    BY <1>1, PublishSummary
  <2>2. maxId' \in [Name -> [Sink -> Nat]]
    BY <1>1, PublishSummary
  <2> QED BY <1>1, <2>1, <2>2
<1>3. CASE s # Log
  <2>1. s = "current"
    BY <1>3 DEF Sink, Log
  <2>2. changelog' = changelog /\ current' = [r \in Row |-> current'[r]]
    BY <2>1, PublishCurrent
  <2>3. Published' = Published /\ OnceInv'
    BY <2>2 DEF Published, OnceInv
  <2> QED BY <1>2, <1>3, <2>2, <2>3 DEF TypeInv
<1>4. CASE s = Log
  <2>1. Publish("restored", Log, files, R.done.id)
    BY <1>4
  <2>2. /\ changelog' \in Seq([change : Nat, by : Name])
        /\ \A n \in DOMAIN changelog' :
             \/ n \in DOMAIN changelog /\ changelog'[n] = changelog[n]
             \/ changelog'[n].by = "restored" /\ changelog'[n].change \in Held(files)
        /\ Published' \subseteq Published \cup Held(files)
        /\ current' = current
    BY <1>1, <2>1, PublishLog
  <2>3. Held(files) \subseteq 1 .. Len(binlog) /\ Len(binlog) \in Nat
    BY HeldAre, Kinds
  <2>4. ASSUME NEW n \in DOMAIN changelog'
        PROVE  changelog'[n].by \in Own /\ changelog'[n].change <= Len(binlog)
    BY <2>2, <2>3 DEF OnceInv, Own
  <2>5. ASSUME Log \notin late
        PROVE  \A m, n \in DOMAIN changelog' : changelog'[m].change = changelog'[n].change => m = n
    <3>1. ASSUME NEW k \in DOMAIN changelog PROVE changelog[k].change \notin Held(files)
      <4>1. changelog[k].change \in Published
        BY DEF Published
      <4> QED BY <1>4, <2>5, <4>1, HeldWithin DEF Unpublished
    <3>2. \A m, n \in DOMAIN changelog : changelog[m].change = changelog[n].change => m = n
      BY <2>5 DEF OnceInv
    <3> QED BY <1>1, <2>1, <3>1, <3>2, PublishLog
  <2>6. OnceInv'
    BY <2>4, <2>5 DEF OnceInv
  <2> QED BY <1>2, <1>4, <2>2, <2>6 DEF TypeInv
<1> QED BY <1>3, <1>4

\* The restored job publishes what the summary of the first job lacks, and has the
\* table.
LEMMA RestoredRecovers ==
  ASSUME ScriptInv, Inv, drill \in Judged, NEW s \in Sink, Recover("restored", s)
  PROVE  Inv'
<1>1. /\ R \in Job /\ TypeInv /\ Sound(R) /\ RestoredInv /\ OnceInv /\ FirstLogInv
  BY Kinds DEF Inv
<1>2. s \in R.recover /\ R.status = "RUNNING"
  BY DEF Recover, R
<1>3. drill \in Restoring /\ pc > RestoresAt(drill)
  BY <1>2, RestoredThere
<1>4. R.ongoing = NoPoint /\ R.notify = {} /\ R.pend[s] = R.done.pend[s]
  BY <1>1, <1>2 DEF Sound
<1>5. PICK files : files = {f \in R.pend[s] : f.id > maxId["first"][s]}
  OBVIOUS
<1>6. PICK q : q = [R EXCEPT !.recover = @ \ {s}, !.pend[s] = {}]
  OBVIOUS
<1>7. /\ q.status = R.status /\ q.done = R.done /\ q.recover = R.recover \ {s}
      /\ q.notify = R.notify /\ q.read = R.read /\ q.epoch = R.epoch
      /\ q.ongoing = R.ongoing /\ q.table = R.table
      /\ q.pend = [R.pend EXCEPT ![s] = {}]
  BY <1>1, <1>6 DEF Job
<1>8. q.pend[s] = {} /\ \A t \in Sink : t # s => q.pend[t] = R.pend[t]
  BY <1>1, <1>7 DEF Job
<1>9. q \in Job
  <2>1. q.pend \in [Sink -> SUBSET Files]
    BY <1>1, <1>7 DEF Job
  <2> QED BY <1>1, <1>6, <1>7, <2>1 DEF Job
<1>10. Sound(q)
  BY <1>1, <1>2, <1>4, <1>7, <1>9, FewerSound
<1>11. Update("restored", q)
  BY <1>6 DEF Recover, R
<1>12. Publish("restored", s, files, R.done.id)
  BY <1>5 DEF Recover, Missing, Lineage, R
<1>13. UNCHANGED <<binlog, disk, tableId, late, harness>>
  BY DEF Recover, Publish
<1>14. ASSUME Log \in R.recover
       PROVE  /\ ~HandedOver
              /\ F.done.pos <= R.done.pos /\ F.done.pos \in Nat /\ R.done.pos \in Nat
              /\ \A i \in Published : i \in Nat /\ i <= R.done.pos
              /\ \A f \in R.pend[Log] : f \in Files /\ f.hi <= R.done.pos
              /\ Unpublished(Beyond(R.pend[Log], maxId["first"][Log]))
  <2>1. ~HandedOver
    BY <1>14 DEF HandedOver
  <2>2. /\ F.done.pos <= R.done.pos /\ R.pend[Log] = R.done.pend[Log]
        /\ Unpublished(Beyond(R.pend[Log], maxId["first"][Log]))
    BY <1>1, <1>3, <2>1 DEF RestoredInv
  <2>3. F.done.pos \in Nat /\ R.done.pos \in Nat /\ R.pend[Log] \subseteq Files
    BY <1>1, Kinds, JobKinds, LogIsASink
  <2>4. \A i \in Published : i \in Nat /\ i <= F.done.pos
    BY <1>1, <2>1, Kinds DEF FirstLogInv
  <2>5. \A f \in R.pend[Log] : f.hi <= R.done.pos
    BY <1>1, <2>2, LogIsASink DEF Sound, Intervals
  <2> QED BY <2>1, <2>2, <2>3, <2>4, <2>5
<1>15. s = Log => Unpublished(files)
  BY <1>2, <1>5, <1>14 DEF Beyond
<1>16. /\ changelog' \in Seq([change : Nat, by : Name])
       /\ \A i \in Published' : i \in Published \/ (s = Log /\ i \in Held(files))
       /\ s # Log => changelog' = changelog
       /\ maxId' \in [Name -> [Sink -> Nat]]
       /\ maxId'["first"][Log] = maxId["first"][Log]
       /\ current' = [r \in Row |-> current'[r]]
       /\ OnceInv'
  BY <1>1, <1>12, <1>13, <1>15, RestoredAdds
<1>17. HandedOver => Log \notin q.recover
  BY <1>7 DEF HandedOver
<1>18. Log \in q.recover => changelog' = changelog /\ q.done = R.done /\ q.pend[Log] = R.pend[Log]
  BY <1>7, <1>8, <1>16, LogIsASink
<1>19. ASSUME Log \notin q.recover, Log \notin late
       PROVE  (\A i \in Published : i <= q.done.pos)' /\ Unpublished(q.pend[Log])'
  <2>1. CASE s = Log
    <3>1. ASSUME NEW i \in Published' PROVE i <= R.done.pos
      <4>1. CASE i \in Published
        BY <1>2, <1>14, <2>1, <4>1
      <4>2. CASE i \in Held(files)
        <5>1. PICK f \in files : Within(f, i)
          BY <4>2, HeldWithin
        <5>2. i \in Nat
          BY <1>1, <4>2, HeldAre, Kinds
        <5> QED BY <1>2, <1>5, <1>14, <2>1, <5>1, <5>2 DEF Within, Files
      <4> QED BY <1>16, <4>1, <4>2
    <3>2. Unpublished(q.pend[Log])'
      BY <1>8, <2>1 DEF Unpublished
    <3> QED BY <1>7, <3>1, <3>2
  <2>2. CASE s # Log
    <3>1. HandedOver
      BY <1>2, <1>7, <1>19, <2>2 DEF HandedOver
    <3>2. (\A i \in Published : i <= R.done.pos) /\ Unpublished(R.pend[Log])
      BY <1>1, <1>19, <3>1 DEF RestoredInv
    <3>3. Published' = Published
      BY <1>16, <2>2 DEF Published
    <3> QED BY <1>7, <1>8, <2>2, <3>2, <3>3, LogIsASink DEF Unpublished
  <2> QED BY <2>1, <2>2
<1>20. "fault" \notin q.notify /\ q.status = "RUNNING" /\ R.status # "absent"
  BY <1>2, <1>4, <1>7
<1> QED BY <1>9, <1>10, <1>11, <1>13, <1>16, <1>17, <1>18, <1>19, <1>20, RestoredMoves

\* The restored job commits a checkpoint.
LEMMA RestoredCommits ==
  ASSUME ScriptInv, Inv, drill \in Judged, NEW s \in Sink, Commit("restored", s)
  PROVE  Inv'
<1>1. /\ R \in Job /\ TypeInv /\ Sound(R) /\ RestoredInv /\ OnceInv
  BY Kinds DEF Inv
<1>2. s \in R.notify /\ R.status = "RUNNING"
  <2>1. s \in R.notify /\ R.status \in {"RUNNING", "CANCELING"}
    BY DEF Commit, Told, R
  <2> QED BY <1>1, <2>1 DEF RestoredInv
<1>3. tableId = 1
  BY <1>2, FirstThere
<1>4. R.table = 1 /\ R.recover = {} /\ R.ongoing = NoPoint
  BY <1>1, <1>2 DEF Sound
<1>5. Opened("restored")
  BY <1>3, <1>4 DEF Opened, R
<1>6. /\ HandedOver
      /\ Log \notin late => (\A i \in Published : i <= R.done.pos) /\ Unpublished(R.pend[Log])
      /\ R.done.pos \in Nat
  BY <1>2, <1>4, RestoredHolds
<1>7. PICK files : files = {f \in R.pend[s] : f.id <= R.done.id}
  OBVIOUS
<1>8. PICK q : q = [R EXCEPT !.notify = @ \ {s}, !.pend[s] = @ \ files]
  OBVIOUS
<1>9. /\ q.status = R.status /\ q.done = R.done /\ q.recover = R.recover
      /\ q.notify = R.notify \ {s} /\ q.read = R.read /\ q.epoch = R.epoch
      /\ q.ongoing = R.ongoing /\ q.table = R.table
      /\ q.pend = [R.pend EXCEPT ![s] = R.pend[s] \ files]
  BY <1>1, <1>8 DEF Job
<1>10. q.pend[s] = R.pend[s] \ files /\ \A t \in Sink : q.pend[t] \subseteq R.pend[t]
  BY <1>1, <1>9 DEF Job
<1>11. q \in Job
  <2>1. q.pend \in [Sink -> SUBSET Files]
    BY <1>1, <1>9 DEF Job
  <2> QED BY <1>1, <1>8, <1>9, <2>1 DEF Job
<1>12. Sound(q)
  BY <1>1, <1>2, <1>4, <1>9, <1>11, FewerSound
<1>13. Update("restored", q)
  BY <1>5, <1>7, <1>8 DEF Commit, R
<1>14. Publish("restored", s, files, R.done.id)
  BY <1>5, <1>7 DEF Commit, R
<1>15. UNCHANGED <<binlog, disk, tableId, late, harness>>
  BY <1>5 DEF Commit, Publish
<1>16. s = Log /\ Log \notin late => Unpublished(files)
  BY <1>6, <1>7 DEF Unpublished
<1>17. /\ changelog' \in Seq([change : Nat, by : Name])
       /\ \A i \in Published' : i \in Published \/ (s = Log /\ i \in Held(files))
       /\ maxId' \in [Name -> [Sink -> Nat]]
       /\ maxId'["first"][Log] = maxId["first"][Log]
       /\ current' = [r \in Row |-> current'[r]]
       /\ OnceInv'
  BY <1>1, <1>14, <1>15, <1>16, RestoredAdds
<1>18. ASSUME Log \notin late
       PROVE  (\A i \in Published : i <= q.done.pos)' /\ Unpublished(q.pend[Log])'
  <2>1. /\ R.pend[Log] \subseteq Files /\ Intervals(R.pend[Log], R.epoch, R.read)
        /\ \A f \in R.pend[Log] : f.id <= R.done.id => f.hi <= R.done.pos
    BY <1>1, JobKinds, LogIsASink DEF Sound
  <2>2. ASSUME NEW i \in Held(files), s = Log
        PROVE  i \in Nat /\ \E g \in files : Within(g, i) /\ g \in R.pend[Log] /\ i <= R.done.pos
    <3>1. PICK g \in files : Within(g, i)
      BY HeldWithin
    <3>2. i \in Nat
      BY <1>1, HeldAre, Kinds
    <3>3. g \in R.pend[Log] /\ g.hi <= R.done.pos /\ g \in Files
      BY <1>7, <2>1, <2>2
    <3> QED BY <1>6, <3>1, <3>2, <3>3 DEF Within, Files
  <2>3. ASSUME NEW i \in Published' PROVE i <= R.done.pos
    BY <1>6, <1>17, <1>18, <2>2
  <2>4. ASSUME NEW f \in q.pend[Log], NEW i \in Published' PROVE ~Within(f, i)
    <3>1. f \in R.pend[Log]
      BY <1>10, LogIsASink
    <3>2. CASE i \in Published
      BY <1>6, <1>18, <3>1, <3>2 DEF Unpublished
    <3>3. CASE s = Log /\ i \in Held(files)
      <4>1. PICK g \in files : Within(g, i) /\ g \in R.pend[Log]
        BY <2>2, <3>3
      <4>2. f # g
        BY <1>10, <3>3
      <4> QED BY <2>1, <2>2, <3>1, <3>3, <4>1, <4>2, Apart
    <3> QED BY <1>17, <3>2, <3>3
  <2> QED BY <1>9, <2>3, <2>4 DEF Unpublished
<1>19. "fault" \notin q.notify /\ q.status = "RUNNING" /\ R.status # "absent" /\ Log \notin q.recover
  BY <1>1, <1>2, <1>4, <1>9 DEF RestoredInv
<1> QED BY <1>11, <1>12, <1>13, <1>15, <1>17, <1>18, <1>19, RestoredMoves

-----------------------------------------------------------------------------
(* Every step of the jobs and of the cluster. *)

\* Neither of the drill's jobs moves, and checkpoints only disappear from disk.
LEMMA OthersMove ==
  ASSUME ScriptInv, Inv, F' = F, R' = R, job' \in [Name -> Job], LeftInv',
         UNCHANGED <<binlog, tables, harness>>,
         \A p \in points : p.id < F.done.id \/ p \in points',
         points' \subseteq points, aborted' \subseteq aborted
  PROVE  Inv'
<1>1. /\ UNCHANGED <<binlog, drill, pc, seen, changelog, current, maxId, late, tableId>>
  BY DEF harness, script, tables
<1>2. /\ TypeInv /\ Sound(F) /\ Sound(R) /\ StartInv /\ FirstInv /\ DiskInv /\ OnceInv
      /\ FirstLogInv /\ StopInv /\ RestoredInv /\ ShownInv /\ RewriteInv
  BY DEF Inv
<1>3. /\ Published' = Published /\ HandedOver' = HandedOver /\ Step' = Step
  BY <1>1 DEF Published, HandedOver, Step
<1>4. \A files : Unpublished(files)' = Unpublished(files)
  BY <1>3 DEF Unpublished
<1>5. TypeInv'
  BY <1>1, <1>2 DEF TypeInv
<1>6. Sound(F)' /\ Sound(R)'
  <2>1. \A r : Sound(r)' <=> Sound(r)
    BY <1>1 DEF Sound, Intervals, PointOf
  <2> QED BY <1>2, <2>1
<1>7. StartInv' /\ FirstInv' /\ OnceInv'
  BY <1>1, <1>2 DEF StartInv, FirstInv, OnceInv
<1>8. FirstLogInv' /\ RestoredInv'
  BY <1>1, <1>2, <1>3, <1>4 DEF FirstLogInv, RestoredInv
<1>9. ShownInv' /\ RewriteInv'
  BY <1>1, <1>2 DEF ShownInv, RewriteInv
<1>10. StopInv'
  <2>1. GoodPoint(seen.point)' = GoodPoint(seen.point)
    BY <1>1, <1>4 DEF GoodPoint, Intervals
  <2> QED BY <1>1, <1>2, <1>3, <2>1 DEF StopInv, RestorePoint
<1>11. DiskInv'
  <2>1. F.done.id \in Nat
    BY <1>2, Kinds, JobKinds
  <2> QED BY <1>1, <1>2, <2>1 DEF DiskInv
<1> QED BY <1>5, <1>6, <1>7, <1>8, <1>9, <1>10, <1>11 DEF Inv

JobStep(j) ==
  \/ JobStarts(j) \/ Restart(j) \/ Strikes(j) \/ Trigger(j)
  \/ CompleteCheckpoint(j) \/ ToldFault(j) \/ JobEnds(j)
  \/ \E s \in Sink : Recover(j, s) \/ Commit(j, s)

\* Every step of the first job.
LEMMA FirstSteps ==
  ASSUME ScriptInv, Inv, drill \in Judged, JobStep("first")
  PROVE  Inv'
<1>1. CASE Strikes("first")
  <2>1. drill \in Fault /\ F.status = "RUNNING" /\ Update("first", Failed("first"))
    BY <1>1 DEF Strikes, Armed, Fault, F
  <2>2. UNCHANGED <<binlog, disk, tables, harness>>
    BY <1>1 DEF Strikes
  <2> QED BY <2>1, <2>2, FirstFails
<1> QED BY <1>1, FirstStarts, FirstRestarts, FirstTriggers, FirstCompletes, FirstToldFault,
           FirstEnds, FirstRecovers, FirstCommits DEF JobStep

\* Every step of the restored job, which neither fails nor is canceled before the
\* drill ends.
LEMMA RestoredSteps ==
  ASSUME ScriptInv, Inv, drill \in Judged, JobStep("restored")
  PROVE  Inv'
<1>1. R.status \in {"absent", "STARTING", "RUNNING"} /\ "fault" \notin R.notify
  BY DEF Inv, RestoredInv
<1>2. ~Restart("restored") /\ ~JobEnds("restored") /\ ~ToldFault("restored")
      /\ ~Strikes("restored")
  BY <1>1 DEF Restart, JobEnds, ToldFault, Told, Strikes, Armed, R
<1> QED BY <1>2, RestoredStarts, RestoredTriggers, RestoredCompletes, RestoredRecovers,
           RestoredCommits DEF JobStep

\* A job of an earlier run has nothing to do but to end.
LEMMA LeftEnds ==
  ASSUME Inv, JobStep("left")
  PROVE  /\ F' = F /\ R' = R /\ job' \in [Name -> Job] /\ LeftInv'
         /\ UNCHANGED <<binlog, points, aborted, tables, harness>>
<1> DEFINE l == job["left"]
<1>1. /\ l.pend = NoPoint.pend /\ l.ongoing = NoPoint /\ l.notify = {} /\ l.recover = {}
      /\ l.status \in {"absent", "RUNNING", "CANCELING"}
      /\ l.status = "RUNNING" => pc = 1
  BY DEF Inv, LeftInv
<1>2. l \in Job /\ TypeInv
  BY DEF Inv, TypeInv, Name
<1>3. ~JobStarts("left") /\ ~Restart("left") /\ ~Strikes("left") /\ ~CompleteCheckpoint("left")
      /\ ~ToldFault("left") /\ \A s \in Sink : ~Recover("left", s) /\ ~Commit("left", s)
  BY <1>1 DEF JobStarts, Restart, Strikes, Armed, CompleteCheckpoint, ToldFault, Told,
              Recover, Commit
<1>4. ~Trigger("left")
  <2>1. SUFFICES ASSUME Trigger("left") PROVE FALSE
    OBVIOUS
  <2>2. binlog = <<>>
    BY <1>1, <2>1 DEF Trigger, Inv, StartInv
  <2>3. PICK n \in Reached("left") : n > l.read \/ l.pend # NoPoint.pend
    BY <2>1 DEF Trigger
  <2>4. l.read \in Nat /\ Len(binlog) = 0
    BY <1>2, <2>2, JobKinds
  <2>5. n \in l.read .. Len(binlog)
    BY DEF Reached
  <2> QED BY <1>1, <2>3, <2>4, <2>5
<1>5. JobEnds("left")
  BY <1>3, <1>4 DEF JobStep
<1>6. PICK q : q = [NoJob EXCEPT !.done = l.done]
  OBVIOUS
<1>7. /\ q \in Job /\ q.status = "absent" /\ q.pend = NoPoint.pend /\ q.ongoing = NoPoint
      /\ q.notify = {} /\ q.recover = {}
  BY <1>2, <1>6, EmptyIsSound DEF Job
<1>8. Update("left", q)
  BY <1>5, <1>6 DEF JobEnds
<1>9. job' \in [Name -> Job] /\ job'["left"] = q /\ F' = F /\ R' = R
  BY <1>2, <1>7, <1>8, JobUpdated DEF Name, F, R
<1>10. LeftInv'
  BY <1>7, <1>9 DEF LeftInv
<1>11. UNCHANGED <<binlog, points, aborted, tables, harness>>
  BY <1>5 DEF JobEnds, disk
<1> QED BY <1>9, <1>10, <1>11

\* So nothing is to be said of it.
LEMMA LeftSteps ==
  ASSUME ScriptInv, Inv, drill \in Judged, JobStep("left")
  PROVE  Inv'
BY LeftEnds, OthersMove

\* Whatever the jobs and the cluster do, the invariant holds.
LEMMA SystemSteps ==
  ASSUME ScriptInv, Inv, drill \in Judged, SystemStep
  PROVE  Inv'
<1>1. CASE \E j \in Name : JobStep(j)
  BY <1>1, FirstSteps, RestoredSteps, LeftSteps DEF Name
<1>2. CASE DeleteSubsumed \/ DiscardAborted \/ ClusterStarts
  <2>1. UNCHANGED <<binlog, job, tables, harness>>
    BY <1>2 DEF DeleteSubsumed, DiscardAborted, ClusterStarts
  <2>2. /\ \A p \in points : p.id < F.done.id \/ p \in points'
        /\ points' \subseteq points /\ aborted' \subseteq aborted
    BY <1>2 DEF DeleteSubsumed, DiscardAborted, ClusterStarts, F, disk
  <2>3. F' = F /\ R' = R /\ job' \in [Name -> Job]
    BY <2>1 DEF F, R, Inv, TypeInv
  <2>4. LeftInv'
    BY <2>1 DEF LeftInv, Inv, harness, script
  <2> QED BY <2>1, <2>2, <2>3, <2>4, OthersMove
<1> QED BY <1>1, <1>2 DEF SystemStep, JobStep

-----------------------------------------------------------------------------
(* The steps of a drill up to the submission of its job. *)

\* Before that there is nothing to be said of the jobs and the tables.
LEMMA StartEnough ==
  drill \in Judged /\ pc \in 1 .. 4 /\ TypeInv /\ LeftInv /\ StartInv => Inv
<1> SUFFICES ASSUME drill \in Judged, pc \in 1 .. 4, TypeInv, LeftInv, StartInv PROVE Inv
  OBVIOUS
<1>1. /\ binlog = <<>> /\ F = NoJob /\ R = NoJob /\ changelog = <<>> /\ points = {} /\ aborted = {}
      /\ \A r \in Row : current[r] = 0
  BY DEF StartInv
<1>2. /\ Published = {} /\ ~HandedOver /\ \A files : Unpublished(files)
  BY <1>1, EmptyIsSound DEF Published, HandedOver, Unpublished
<1>3. /\ pc \in Nat /\ FillsAt(drill) \in Nat /\ StopsAt(drill) \in Nat /\ RestoresAt(drill) \in Nat
      /\ pc < FillsAt(drill) /\ pc < RestoresAt(drill) /\ pc < StopsAt(drill)
  BY Positions
<1>4. Sound(F) /\ Sound(R)
  BY <1>1, SubmittedSound DEF TypeInv
<1>5. FirstInv /\ OnceInv /\ FirstLogInv
  BY <1>1, <1>2, <1>3, EmptyIsSound DEF FirstInv, OnceInv, FirstLogInv
<1>6. StopInv
  BY <1>1, <1>3 DEF StopInv, RestorePoint
<1>7. DiskInv /\ ShownInv /\ RewriteInv
  <2>1. DiskInv
    BY <1>1, EmptyIsSound DEF DiskInv
  <2>2. ShownInv
    BY <1>1 DEF ShownInv
  <2>3. RewriteInv
    BY <1>1, <1>3 DEF RewriteInv
  <2> QED BY <2>1, <2>2, <2>3
<1>8. RestoredInv
  BY <1>1, <1>2, <1>3, EmptyIsSound DEF RestoredInv
<1> QED BY <1>4, <1>5, <1>6, <1>7, <1>8 DEF Inv

\* The drill cancels the jobs it finds.
LEMMA CancelsListed ==
  ASSUME ScriptInv, Inv, drill \in Judged, CancelListed, ~LeftActive'
  PROVE  Inv'
<1>1. pc = 1 /\ pc' = 2 /\ drill' = drill
  BY Place DEF CancelListed, At, Go
<1>2. UNCHANGED <<binlog, disk, tables, seen>>
  BY DEF CancelListed
<1>3. TypeInv /\ LeftInv /\ F = NoJob /\ R = NoJob
  BY <1>1 DEF Inv, StartInv
<1>4. F' = NoJob /\ R' = NoJob /\ job' \in [Name -> Job] /\ LeftInv'
  <2>1. CASE job' = CancelEach(Name)
    <3>1. /\ \A j \in Name : job'[j] = IF Listed(j) THEN Stopped(j) ELSE job[j]
      BY <2>1 DEF CancelEach
    <3>2. ~Listed("first") /\ ~Listed("restored")
      BY <1>3, EmptyIsSound DEF Listed, F, R
    <3>3. F' = NoJob /\ R' = NoJob
      BY <1>3, <3>1, <3>2 DEF F, R, Name
    <3>4. \A j \in Name : Stopped(j) \in Job
      <4>1. ASSUME NEW j \in Name PROVE Stopped(j) \in Job
        <5>1. job[j] \in Job /\ NoPoint \in Point
          BY <1>3, EmptyIsSound DEF TypeInv
        <5> QED BY <5>1 DEF Stopped, Job
      <4> QED BY <4>1
    <3>5. job' \in [Name -> Job]
      BY <1>3, <2>1, <3>4 DEF CancelEach, TypeInv
    <3>6. job["left"] \in Job /\ "left" \in Name
      BY <1>3 DEF TypeInv, Name
    <3>7. /\ Stopped("left").status = "CANCELING" /\ Stopped("left").ongoing = NoPoint
          /\ Stopped("left").pend = job["left"].pend
          /\ Stopped("left").notify = job["left"].notify
          /\ Stopped("left").recover = job["left"].recover
      BY <3>6 DEF Stopped, Job
    <3>8. LeftInv'
      BY <1>3, <3>1, <3>6, <3>7 DEF LeftInv, Listed
    <3> QED BY <3>3, <3>5, <3>8
  <2>2. CASE job' = job /\ IgnoresErrors
    <3>1. drill \in Careless
      BY <2>2 DEF IgnoresErrors
    <3>2. job'["left"].status \notin {"RUNNING", "RESTARTING"}
      <4>1. job' \in [Name -> Job]
        BY <1>3, <2>2 DEF TypeInv
      <4>2. "left" \in DOMAIN job' /\ "status" \in DOMAIN job'["left"]
        BY <4>1 DEF Name, Job
      <4> QED BY <1>1, <3>1, <4>2 DEF LeftActive
    <3> QED BY <1>3, <2>2, <3>2 DEF LeftInv, F, R, TypeInv
  <2> QED BY <2>1, <2>2 DEF CancelListed
<1>5. TypeInv'
  BY <1>2, <1>3, <1>4 DEF TypeInv, disk, tables
<1>6. StartInv'
  BY <1>1, <1>2, <1>4 DEF StartInv, disk, tables, Inv
<1>7. (drill \in Judged /\ pc \in 1 .. 4 /\ TypeInv /\ LeftInv /\ StartInv => Inv)'
  BY StartEnough, PTL
<1> QED BY <1>1, <1>4, <1>5, <1>6, <1>7

\* The drill drops and creates the tables.
LEMMA ResetsTables ==
  ASSUME ScriptInv, Inv, drill \in Judged, ResetTables
  PROVE  Inv'
<1>1. pc = 3 /\ pc' = 4 /\ drill' = drill
  BY Place DEF ResetTables, At, Go
<1>2. /\ UNCHANGED <<binlog, job, points, aborted, seen>>
      /\ maxId' = [j \in Name |-> [s \in Sink |-> 0]]
      /\ changelog' = <<>> /\ current' = [r \in Row |-> 0]
  BY DEF ResetTables, disk
<1>3. TypeInv /\ LeftInv /\ StartInv
  BY DEF Inv
<1>4. TypeInv'
  BY <1>2, <1>3 DEF TypeInv
<1>5. LeftInv'
  BY <1>1, <1>2, <1>3 DEF LeftInv
<1>6. StartInv'
  BY <1>1, <1>2, <1>3 DEF StartInv, F, R, Name
<1>7. (drill \in Judged /\ pc \in 1 .. 4 /\ TypeInv /\ LeftInv /\ StartInv => Inv)'
  BY StartEnough, PTL
<1> QED BY <1>1, <1>4, <1>5, <1>6, <1>7

\* The drill submits its job to the empty tables.
LEMMA Submits ==
  ASSUME ScriptInv, Inv, drill \in Judged, Submit
  PROVE  Inv'
<1>1. pc = 4 /\ pc' = 5 /\ drill' = drill
  BY Place DEF Submit, At, Go
<1>2. UNCHANGED <<binlog, points, aborted, changelog, current, maxId, seen>>
  BY DEF Submit, disk, tables
<1>3. /\ TypeInv /\ LeftInv /\ binlog = <<>> /\ R = NoJob /\ changelog = <<>>
      /\ points = {} /\ aborted = {} /\ \A r \in Row : current[r] = 0
  BY <1>1 DEF Inv, StartInv
<1>4. PICK q : q = [NoJob EXCEPT !.status = "STARTING"]
  OBVIOUS
<1>5. q \in Job /\ Sound(q) /\ Sound(NoJob)
  BY <1>3, <1>4, SubmittedSound DEF TypeInv
<1>6. /\ job' \in [Name -> Job] /\ F' = q /\ R' = NoJob /\ job'["left"] = job["left"]
  <2>1. Update("first", q)
    BY <1>4 DEF Submit
  <2> QED BY <1>3, <1>5, <2>1, FirstUpdated
<1>7. /\ q.status = "STARTING" /\ q.done = NoPoint /\ q.recover = {} /\ q.notify = {}
      /\ q.pend = NoPoint.pend
  BY <1>4, EmptyIsSound DEF Job
<1>8. /\ Published' = {} /\ ~HandedOver' /\ \A files : Unpublished(files)'
  BY <1>2, <1>3, <1>6, EmptyIsSound DEF Published, HandedOver, Unpublished
<1>9. /\ pc' < FillsAt(drill) /\ pc' < RestoresAt(drill) /\ pc' < StopsAt(drill)
      /\ FillsAt(drill) \in Nat /\ StopsAt(drill) \in Nat /\ RestoresAt(drill) \in Nat
  BY <1>1, Positions
<1>10. TypeInv' /\ LeftInv' /\ StartInv'
  BY <1>1, <1>2, <1>3, <1>6 DEF TypeInv, LeftInv, StartInv
<1>11. Sound(F)' /\ Sound(R)'
  <2>1. \A r : Sound(r)' <=> Sound(r)
    BY <1>2 DEF Sound, Intervals, PointOf
  <2> QED BY <1>5, <1>6, <2>1
<1>12. FirstInv' /\ OnceInv' /\ FirstLogInv'
  <2>1. FirstInv'
    BY <1>1, <1>4, <1>6, <1>7, <1>9 DEF FirstInv
  <2>2. OnceInv'
    BY <1>2, <1>3 DEF OnceInv
  <2>3. FirstLogInv'
    BY <1>8 DEF FirstLogInv
  <2> QED BY <2>1, <2>2, <2>3
<1>13. StopInv'
  BY <1>1, <1>2, <1>3, <1>6, <1>9 DEF StopInv, RestorePoint
<1>14. DiskInv' /\ ShownInv' /\ RewriteInv'
  <2>1. DiskInv'
    BY <1>2, <1>3, <1>6, <1>7, EmptyIsSound DEF DiskInv
  <2>2. ShownInv'
    BY <1>2, <1>3 DEF ShownInv
  <2>3. RewriteInv'
    BY <1>1, <1>2, <1>3, <1>9 DEF RewriteInv
  <2> QED BY <2>1, <2>2, <2>3
<1>15. RestoredInv'
  BY <1>1, <1>6, <1>8, <1>9, EmptyIsSound DEF RestoredInv
<1> QED BY <1>10, <1>11, <1>12, <1>13, <1>14, <1>15 DEF Inv

-----------------------------------------------------------------------------
(* The drill stops its job and restores it. *)

\* Before the restoration there is no restored job, and the last checkpoint of
\* the first is all there is to publish.
LEMMA NotRestored ==
  ASSUME ScriptInv, Inv, drill \in Restoring, pc > FillsAt(drill), pc <= RestoresAt(drill)
  PROVE  /\ R = NoJob /\ ~HandedOver /\ F.done.pos = Len(binlog) /\ F.done.id >= 1
<1>1. R = NoJob /\ F.done.pos = Len(binlog) /\ F.done.id >= 1
  BY DEF Inv, StopInv
<1> QED BY <1>1, EmptyIsSound DEF HandedOver

\* All the rows are in the last checkpoint: a savepoint has nothing new.
LEMMA SavepointIsGood ==
  ASSUME ScriptInv, Inv, drill \in Restoring, pc > FillsAt(drill), pc <= RestoresAt(drill),
         F.status = "RUNNING", F.recover = {}, F.ongoing = NoPoint,
         NEW n \in Reached("first"), NEW q, q = Flushed("first", n)
  PROVE  GoodPoint(PointOf(q))
<1>1. /\ TypeInv /\ Sound(F) /\ FirstLogInv /\ F \in Job
  BY Kinds DEF Inv
<1>2. R = NoJob /\ ~HandedOver /\ F.done.pos = Len(binlog) /\ F.done.id >= 1
  BY NotRestored
<1>3. /\ F.read <= Len(binlog) /\ F.done.id <= F.epoch /\ F.done.pos <= F.read
      /\ F.read \in Nat /\ F.epoch \in Nat /\ F.done.id \in Nat /\ F.done.pos \in Nat
  BY <1>1, AliveIs
<1>4. /\ n \in Nat /\ F.read <= n /\ n <= Len(binlog)
      /\ q \in Job /\ Sound(q) /\ q.epoch = F.epoch + 1 /\ q.read = n
      /\ PointOf(q).id = q.epoch /\ PointOf(q).pos = n /\ PointOf(q).pend = q.pend
      /\ \A s \in Sink : \A f \in q.pend[s] : f \in F.pend[s] \/ (F.read <= f.lo /\ F.read < n)
  BY <1>1, FirstFlushes
<1>5. n = Len(binlog) /\ F.read = n
  BY <1>2, <1>3, <1>4
<1>6. q.pend[Log] \subseteq F.pend[Log]
  BY <1>3, <1>4, <1>5, LogIsASink
<1>7. \A f \in q.pend[Log] : f.id <= F.done.id
  <2>1. ASSUME NEW f \in F.pend[Log], f.id > F.done.id PROVE FALSE
    <3>1. f \in Files /\ f.lo < f.hi /\ f.hi <= F.read
      BY <1>1, JobKinds, LogIsASink DEF Sound, Intervals
    <3>2. ~(f.id <= F.done.id)
      BY <1>3, <2>1, <3>1 DEF Files
    <3>3. F.done.pos <= f.lo
      BY <1>1, <3>2, LogIsASink DEF Sound
    <3> QED BY <1>2, <1>3, <3>1, <3>3 DEF Files
  <2>2. \A f \in F.pend[Log] : f.id \in Nat
    BY <1>1, JobKinds, LogIsASink DEF Files
  <2> QED BY <1>3, <1>6, <2>1, <2>2
<1>8. Unpublished(F.pend[Log])
  BY <1>1, <1>2 DEF FirstLogInv
<1>9. Unpublished(Beyond(q.pend[Log], maxId["first"][Log]))
  BY <1>6, <1>8 DEF Unpublished, Beyond
<1>10. \A s \in Sink : Intervals(q.pend[s], q.epoch, q.read)
  BY <1>4 DEF Sound
<1> QED BY <1>3, <1>4, <1>5, <1>7, <1>9, <1>10 DEF GoodPoint

\* The drill takes a savepoint, of which the sinks are not told.
LEMMA TakesSavepoint ==
  ASSUME ScriptInv, Inv, drill \in Judged, TakeSavepoint
  PROVE  Inv'
<1>1. /\ drill \in {"savepoint_restore", "smoke"} /\ pc = StopsAt(drill) - 1 /\ drill \in Restoring
      /\ drill \notin Fault /\ drill # Rewriting
  BY StopPlace DEF TakeSavepoint, At, Restoring, Fault, Rewriting
<1>2. /\ pc' = pc + 1 /\ UNCHANGED <<drill, binlog, points, aborted, changelog, current, maxId,
                                     late, tableId>>
  BY DEF TakeSavepoint, Go, disk, tables
<1>3. /\ TypeInv /\ LeftInv /\ Sound(F) /\ Sound(R) /\ FirstInv /\ OnceInv /\ FirstLogInv
      /\ F \in Job /\ F.status = "RUNNING" /\ F.ongoing = NoPoint /\ F.recover = {}
  BY <1>1, Kinds DEF TakeSavepoint, F, Inv, FirstInv
<1>4. /\ pc \in Nat /\ pc > 4 /\ FillsAt(drill) = 7 /\ pc > 7 /\ pc' <= RestoresAt(drill)
      /\ pc' = StopsAt(drill) /\ pc' \in Nat /\ pc <= RestoresAt(drill) /\ RestoresAt(drill) \in Nat
  BY <1>1, <1>2, Positions, Place
<1>5. R = NoJob /\ F.done.pos = Len(binlog) /\ F.done.id >= 1
  BY <1>1, <1>4, NotRestored
<1>6. PICK n \in Reached("first") :
        /\ Update("first", Flushed("first", n))
        /\ seen' = [seen EXCEPT !.point = PointOf(Flushed("first", n))]
  BY DEF TakeSavepoint
<1>7. PICK q : q = Flushed("first", n)
  OBVIOUS
<1>8. PICK p : p = PointOf(q)
  OBVIOUS
<1>9. /\ q \in Job /\ Sound(q) /\ p \in Point
      /\ q.status = F.status /\ q.done = F.done /\ q.recover = F.recover /\ q.notify = F.notify
      /\ \A s \in Sink : \A f \in q.pend[s] : f \in F.pend[s] \/ F.read <= f.lo
  <2>1. /\ q \in Job /\ Sound(q) /\ PointOf(q) \in Point
        /\ q.status = F.status /\ q.done = F.done /\ q.recover = F.recover
        /\ q.notify = F.notify
        /\ \A s \in Sink : \A f \in q.pend[s] :
             f \in F.pend[s] \/ (F.read <= f.lo /\ F.read < n)
    BY <1>3, <1>7, FirstFlushes
  <2> QED BY <1>8, <2>1
<1>10. GoesOn(q)
  BY <1>9 DEF GoesOn
<1>11. /\ job' \in [Name -> Job] /\ F' = q /\ R' = R /\ job'["left"] = job["left"]
  BY <1>3, <1>6, <1>7, <1>9, FirstUpdated
<1>12. seen'.point = p /\ "point" \in DOMAIN seen'
  BY <1>3, <1>6, <1>7, <1>8 DEF TypeInv
<1>13. GoodPoint(p)'
  <2>1. GoodPoint(p)
    BY <1>1, <1>3, <1>4, <1>7, <1>8, SavepointIsGood
  <2> QED BY <1>2, <1>3, <1>9, <1>10, <1>11, <2>1, GoodStays
<1>14. GoodPoint(seen.point)'
  BY <1>12, <1>13 DEF GoodPoint
<1>15. TypeInv'
  BY <1>2, <1>3, <1>9, <1>11, <1>12 DEF TypeInv
<1>16. LeftInv' /\ StartInv'
  BY <1>2, <1>3, <1>4, <1>11 DEF LeftInv, StartInv
<1>17. Sound(F)' /\ Sound(R)'
  <2>1. \A r : Sound(r)' <=> Sound(r)
    BY <1>2 DEF Sound, Intervals, PointOf
  <2> QED BY <1>3, <1>9, <1>11, <2>1
<1>18. FirstInv' /\ OnceInv' /\ DiskInv'
  <2>1. FirstInv'
    BY <1>1, <1>2, <1>3, <1>4, <1>9, <1>11 DEF FirstInv
  <2>2. OnceInv'
    BY <1>2, <1>3 DEF OnceInv
  <2>3. DiskInv'
    BY <1>1, <1>2 DEF DiskInv
  <2> QED BY <2>1, <2>2, <2>3
<1>19. FirstLogInv'
  BY <1>2, <1>3, <1>9, <1>10, <1>11, FirstLogGoesOn
<1>20. StopInv'
  BY <1>1, <1>2, <1>4, <1>5, <1>9, <1>11, <1>14 DEF StopInv, RestorePoint
<1>21. RestoredInv'
  BY <1>1, <1>2, <1>4, <1>5, <1>11, EmptyIsSound DEF RestoredInv, HandedOver
<1>22. ShownInv' /\ RewriteInv'
  BY <1>1, <1>2, <1>4 DEF ShownInv, RewriteInv
<1> QED BY <1>15, <1>16, <1>17, <1>18, <1>19, <1>20, <1>21, <1>22 DEF Inv

\* The job is to stop, and is left alone.
LEMMA Stopping ==
  ASSUME ScriptInv, Inv, drill \in Judged, verdict = "none", Step.do \in Stops,
         Update("first", Stopped("first")), pc' = pc + 1,
         UNCHANGED <<binlog, points, tables, drill, seen>>,
         \/ aborted' = aborted
         \/ aborted' = aborted \cup {F.ongoing.id}
  PROVE  Inv'
<1>1. /\ drill \notin Fault /\ pc = StopsAt(drill) /\ pc > 4 /\ pc \in Nat
      /\ UNCHANGED <<changelog, current, maxId, late, tableId>>
  BY StopPlace, Place DEF tables
<1>2. /\ TypeInv /\ LeftInv /\ Sound(F) /\ Sound(R) /\ FirstInv /\ OnceInv /\ FirstLogInv
      /\ StopInv /\ DiskInv /\ RestoredInv /\ RewriteInv /\ F \in Job
  BY Kinds DEF Inv
<1>3. F.status \in {"STARTING", "RUNNING"}
  BY <1>1, <1>2 DEF FirstInv
<1>4. PICK q : q = [F EXCEPT !.status = "CANCELING", !.ongoing = NoPoint]
  OBVIOUS
<1>5. q \in Job /\ Sound(q)
  BY <1>2, <1>3, <1>4, StoppedSound
<1>6. /\ q.status = "CANCELING" /\ q.done = F.done /\ q.recover = F.recover /\ q.pend = F.pend
      /\ q.notify = F.notify
  BY <1>2, <1>4 DEF Job
<1>7. Update("first", q)
  BY <1>4 DEF Stopped, F
<1>8. GoesOn(q)
  BY <1>6 DEF GoesOn
<1>9. /\ job' \in [Name -> Job] /\ F' = q /\ R' = R /\ job'["left"] = job["left"]
  BY <1>2, <1>5, <1>7, FirstUpdated
<1>10. TypeInv'
  <2>1. F.ongoing.id \in Nat
    BY <1>2 DEF Job, Point
  <2> QED BY <1>1, <1>2, <1>9, <2>1 DEF TypeInv
<1>11. LeftInv' /\ StartInv'
  BY <1>1, <1>2, <1>9 DEF LeftInv, StartInv
<1>12. Sound(F)' /\ Sound(R)'
  <2>1. \A r : Sound(r)' <=> Sound(r)
    BY DEF Sound, Intervals, PointOf
  <2> QED BY <1>2, <1>5, <1>9, <2>1
<1>13. FirstInv' /\ OnceInv'
  <2>1. FirstInv'
    BY <1>1, <1>2, <1>6, <1>9, Positions DEF FirstInv
  <2>2. OnceInv'
    BY <1>1, <1>2 DEF OnceInv
  <2> QED BY <2>1, <2>2
<1>14. FirstLogInv'
  BY <1>1, <1>2, <1>3, <1>5, <1>8, <1>9, FirstLogGoesOn
<1>15. drill \in Restoring => pc > FillsAt(drill) /\ pc' <= RestoresAt(drill) /\ pc' > 4
  BY <1>1, Positions
<1>16. StopInv'
  <2>1. SUFFICES ASSUME drill \in Restoring PROVE StopInv'
    BY DEF StopInv
  <2>2. R = NoJob /\ F.done.pos = Len(binlog) /\ F.done.id >= 1
    BY <1>15, <2>1, <1>1, Positions, NotRestored
  <2>3. seen.point \in Point /\ (GoodPoint(seen.point) => GoodPoint(seen.point)')
    <3>1. PICK p \in Point : p = seen.point /\ p = seen'.point
      BY <1>2, Kinds
    <3>2. GoodPoint(p) => GoodPoint(p)'
      BY <1>1, <1>2, <1>3, <1>5, <1>8, <1>9, GoodStays
    <3>3. GoodPoint(p) = GoodPoint(seen.point) /\ GoodPoint(p)' = GoodPoint(seen.point)'
      BY <3>1 DEF GoodPoint
    <3> QED BY <3>1, <3>2, <3>3
  <2>4. RestorePoint'
    <3>1. RestorePoint
      BY <1>1, <1>2, <2>1, Positions DEF StopInv
    <3>2. drill # "savepoint_restore" => pc = 9
      BY <1>1, <2>1, Positions
    <3> QED BY <1>1, <2>1, <2>3, <3>1, <3>2, Positions DEF RestorePoint
  <2> QED BY <1>1, <1>6, <1>9, <1>15, <2>1, <2>2, <2>4, Positions DEF StopInv
<1>17. DiskInv'
  <2>1. drill = "checkpoint_restore" => aborted = {} /\ pc <= RestoresAt(drill)
    BY <1>1, <1>2, Positions DEF DiskInv, Restoring
  <2> QED BY <1>1, <1>2, <1>6, <1>9, <2>1, Positions DEF DiskInv
<1>18. RestoredInv'
  <2>1. drill \in Restoring => ~(pc' > RestoresAt(drill))
    BY <1>1, <1>15, Positions
  <2>2. drill \notin Restoring => R = NoJob
    BY <1>2 DEF RestoredInv
  <2>3. drill \in Restoring => R = NoJob
    BY <1>1, <1>15, Positions, NotRestored
  <2> QED BY <1>9, <2>1, <2>2, <2>3, EmptyIsSound DEF RestoredInv, HandedOver
<1>19. ShownInv' /\ RewriteInv'
  <2>1. ~(pc' <= FillsAt(drill))
    BY <1>1, Positions DEF StopsAt, FillsAt
  <2>2. RewriteInv'
    BY <1>1, <1>2, <1>6, <1>9, Positions DEF RewriteInv
  <2> QED BY <2>1, <2>2 DEF ShownInv
<1> QED BY <1>10, <1>11, <1>12, <1>13, <1>14, <1>16, <1>17, <1>18, <1>19 DEF Inv

\* The drill cancels its job or restarts the JobManager.
LEMMA StopsItsJob ==
  ASSUME ScriptInv, Inv, drill \in Judged, CancelJob \/ RestartJobManager
  PROVE  Inv'
<1>1. verdict = "none" /\ Step.do \in Stops
  BY DEF CancelJob, RestartJobManager, At, Stops
<1>2. /\ Update("first", Stopped("first")) /\ pc' = pc + 1
      /\ UNCHANGED <<binlog, points, tables, drill, seen>>
      /\ aborted' = aborted \/ aborted' = aborted \cup {F.ongoing.id}
  BY DEF CancelJob, RestartJobManager, Go, F, disk
<1> QED BY <1>1, <1>2, Stopping

\* The drill restores its job from the point it has found.
LEMMA SubmitsRestored ==
  ASSUME ScriptInv, Inv, drill \in Judged, SubmitRestored, Readable
  PROVE  Inv'
<1>1. /\ drill \in Restoring /\ pc = RestoresAt(drill) /\ pc > 4 /\ pc \in Nat
      /\ drill \notin Fault /\ drill # Rewriting /\ pc > FillsAt(drill)
  BY StopPlace, Place, Positions DEF SubmitRestored, At, Restoring, Fault, Rewriting
<1>2. /\ pc' = pc + 1
      /\ UNCHANGED <<drill, binlog, changelog, current, maxId, late, tableId>>
      /\ points' = {} /\ aborted' = {}
  BY DEF SubmitRestored, Go, tables
<1>3. /\ TypeInv /\ LeftInv /\ Sound(F) /\ FirstInv /\ OnceInv /\ FirstLogInv /\ StopInv
      /\ seen.point \in Point /\ Len(binlog) \in Nat
  BY Kinds DEF Inv
<1>4. R = NoJob /\ ~HandedOver /\ F.done.pos = Len(binlog) /\ F.done.id >= 1
  BY <1>1, NotRestored
<1>5. GoodPoint(seen.point)
  BY <1>1, <1>3, Positions DEF StopInv, RestorePoint, Readable, Restoring
<1>6. PICK p \in Point : p = seen.point
  BY <1>3
<1>7. PICK q : q = [NoJob EXCEPT !.status = "STARTING", !.read = p.pos, !.epoch = p.id,
                       !.pend = p.pend, !.done = p]
  OBVIOUS
<1>8. /\ p.id >= 1 /\ p.pos = Len(binlog) /\ \A s \in Sink : Intervals(p.pend[s], p.id, p.pos)
      /\ \A f \in p.pend[Log] : f.id <= F.done.id
      /\ Unpublished(Beyond(p.pend[Log], maxId["first"][Log]))
  BY <1>5, <1>6 DEF GoodPoint
<1>9. q \in Job /\ Sound(q)
  <2>1. /\ Len(binlog) \in Nat /\ p.id >= 1 /\ p.pos <= Len(binlog)
        /\ \A s \in Sink : Intervals(p.pend[s], p.id, p.pos)
    BY <1>3, <1>8
  <2> QED BY ONLY <2>1, p \in Point, <1>7, RestoredSound
<1>10. /\ q.status = "STARTING" /\ q.done = p /\ q.pend = p.pend /\ q.notify = {}
       /\ q.recover = {} /\ q.table = 0
  BY <1>7, EmptyIsSound DEF Job
<1>11. Update("restored", q)
  BY <1>6, <1>7 DEF SubmitRestored
<1>12. /\ job' \in [Name -> Job] /\ R' = q /\ F' = F /\ job'["left"] = job["left"]
  BY <1>3, <1>9, <1>11, JobUpdated DEF Name, F, R
<1>13. "point" \in DOMAIN seen' /\ seen'.point \in Point
  BY <1>3, EmptyIsSound DEF SubmitRestored, TypeInv
<1>14. ~HandedOver' /\ Published' = Published
  BY <1>2, <1>10, <1>12 DEF HandedOver, Published
<1>15. \A files : Unpublished(files)' = Unpublished(files)
  BY <1>14 DEF Unpublished
<1>16. TypeInv'
  BY <1>2, <1>3, <1>12, <1>13 DEF TypeInv
<1>17. LeftInv' /\ StartInv' /\ FirstInv' /\ OnceInv'
  <2>1. LeftInv' /\ StartInv'
    BY <1>1, <1>2, <1>3, <1>12 DEF LeftInv, StartInv
  <2>2. FirstInv'
    BY <1>1, <1>2, <1>3, <1>12, Positions DEF FirstInv
  <2>3. OnceInv'
    BY <1>2, <1>3 DEF OnceInv
  <2> QED BY <2>1, <2>2, <2>3
<1>18. Sound(F)' /\ Sound(R)'
  <2>1. \A r : Sound(r)' <=> Sound(r)
    BY <1>2 DEF Sound, Intervals, PointOf
  <2> QED BY <1>3, <1>9, <1>12, <2>1
<1>19. FirstLogInv'
  BY <1>2, <1>3, <1>4, <1>12, <1>14, <1>15 DEF FirstLogInv
<1>20. ~(pc' <= RestoresAt(drill)) /\ ~(pc' <= FillsAt(drill)) /\ ~(pc' < FillsAt(drill))
       /\ pc' # FillsAt(drill)
  BY <1>1, <1>2, Positions
<1>21. StopInv' /\ DiskInv' /\ ShownInv' /\ RewriteInv'
  BY <1>1, <1>2, <1>20 DEF StopInv, DiskInv, ShownInv, RewriteInv
<1>22. RestoredInv'
  BY <1>1, <1>2, <1>3, <1>4, <1>8, <1>10, <1>12, <1>14, <1>15 DEF RestoredInv
<1> QED BY <1>16, <1>17, <1>18, <1>19, <1>21, <1>22 DEF Inv

-----------------------------------------------------------------------------
(* The drill writes to the source. *)

\* The three kinds of writes are sequences of changes.
LEMMA WrittenAre ==
  /\ \A n \in Nat : Stretch(Inserts(n)) /\ Len(Inserts(n)) = n
  /\ Stretch(UpdateBoth) /\ Stretch(DeleteFirst)
<1>1. ASSUME NEW n \in Nat PROVE Stretch(Inserts(n)) /\ Len(Inserts(n)) = n
  <2> DEFINE old == Cardinality({i \in DOMAIN binlog : binlog[i].before = 0})
             new(i) == [row |-> old + i, before |-> 0, after |-> Events + i]
             u == [i \in 1 .. n |-> new(i)]
  <2> HIDE DEF new
  <2>1. u \in Seq({new(i) : i \in 1 .. n}) /\ Len(u) = n
    OBVIOUS
  <2>2. Elements(u) = {u[i] : i \in 1 .. n}
    BY <2>1 DEF Elements
  <2>3. u \in Seq(Elements(u))
    BY <2>1, <2>2
  <2>4. Inserts(n) = u
    BY DEF Inserts, new
  <2> HIDE DEF u
  <2> QED BY <2>1, <2>3, <2>4 DEF Stretch
<1>2. Stretch(UpdateBoth)
  <2> DEFINE new(r) == [row |-> r, before |-> SourceTable[r], after |-> Events + r]
             u == [r \in 1 .. 2 |-> new(r)]
  <2> HIDE DEF new
  <2>1. u \in Seq({new(i) : i \in 1 .. 2}) /\ Len(u) = 2
    OBVIOUS
  <2>2. Elements(u) = {u[i] : i \in 1 .. 2}
    BY <2>1 DEF Elements
  <2>3. u \in Seq(Elements(u))
    BY <2>1, <2>2
  <2>4. UpdateBoth = u
    BY DEF UpdateBoth, new
  <2> HIDE DEF u
  <2> QED BY <2>1, <2>3, <2>4 DEF Stretch
<1>3. Stretch(DeleteFirst)
  <2> DEFINE e == [row |-> 1, before |-> SourceTable[1], after |-> 0]
  <2> HIDE DEF e
  <2>1. Stretch(<<e>>)
    BY DEF Stretch, Elements
  <2> QED BY <2>1 DEF DeleteFirst, e
<1> QED BY <1>1, <1>2, <1>3

\* A write appends.
LEMMA WriteAppends ==
  ASSUME ScriptInv, TypeInv, drill \in Judged, Write
  PROVE  /\ Stretch(binlog') /\ Len(binlog) <= Len(binlog') /\ Len(binlog) \in Nat
         /\ \A i \in 1 .. Len(binlog) : binlog'[i] = binlog[i]
         /\ Step.do = "insert" => Len(binlog') = Len(binlog) + Step.n
         /\ Step.do \in Writes /\ pc' = pc + 1
<1>1. Step.do \in Writes /\ pc' = pc + 1
  BY DEF Write, At, Go, Writes
<1>2. Stretch(binlog)
  BY DEF TypeInv, Stretch
<1>3. PICK t : Stretch(t) /\ binlog' = binlog \o t /\ (Step.do = "insert" => Len(t) = Step.n)
  <2>1. CASE At("insert") /\ binlog' = binlog \o Inserts(Step.n)
    <3>1. Step.n \in Nat
      BY <2>1, StopPlace DEF At, InsertsRows
    <3> QED BY <2>1, <3>1, WrittenAre
  <2>2. CASE At("update") /\ binlog' = binlog \o UpdateBoth
    BY <2>2, WrittenAre DEF At
  <2>3. CASE At("delete") /\ binlog' = binlog \o DeleteFirst
    BY <2>3, WrittenAre DEF At
  <2> QED BY <2>1, <2>2, <2>3 DEF Write
<1>4. IsJoin(binlog \o t, binlog, t)
  BY <1>2, <1>3, Join
<1>5. IsJoin(binlog', binlog, t)
  BY <1>3, <1>4
<1>6. Len(t) \in Nat /\ Len(binlog) \in Nat
  BY <1>2, <1>3 DEF Stretch
<1> QED BY <1>1, <1>3, <1>5, <1>6 DEF IsJoin

\* The jobs have not read it yet, and the rows that a restoration is about are
\* written before they are waited for.
LEMMA WritesSource ==
  ASSUME ScriptInv, Inv, drill \in Judged, Write
  PROVE  Inv'
<1>1. /\ TypeInv /\ LeftInv /\ Sound(F) /\ Sound(R) /\ FirstInv /\ OnceInv /\ FirstLogInv
      /\ StopInv /\ DiskInv /\ RestoredInv /\ ShownInv /\ RewriteInv
      /\ F \in Job /\ R \in Job
  BY Kinds DEF Inv
<1>2. /\ Stretch(binlog') /\ Len(binlog) <= Len(binlog') /\ Len(binlog) \in Nat
      /\ Len(binlog') \in Nat
      /\ \A i \in 1 .. Len(binlog) : binlog'[i] = binlog[i]
      /\ Step.do = "insert" => Len(binlog') = Len(binlog) + Step.n
      /\ Step.do \in Writes /\ pc' = pc + 1
  BY <1>1, WriteAppends DEF Stretch
<1>3. UNCHANGED <<drill, job, points, aborted, changelog, current, maxId, late, tableId, seen>>
  BY DEF Write, Go, disk, tables
<1>4. /\ pc \in Nat /\ pc > 4
      /\ drill \in Restoring => pc = 6 \/ pc > RestoresAt(drill)
      /\ drill = Rewriting => pc \in {7, 9} /\ Step.do = "insert" /\ Step.n = 1
  BY <1>2, Place, StopPlace, RewritePlace
<1>5. TypeInv' /\ LeftInv' /\ StartInv'
  <2>1. TypeInv'
    BY <1>1, <1>2, <1>3 DEF TypeInv, Stretch
  <2>2. LeftInv' /\ StartInv'
    BY <1>1, <1>2, <1>3, <1>4 DEF LeftInv, StartInv
  <2> QED BY <2>1, <2>2
<1>6. F' = F /\ R' = R /\ Published' = Published /\ HandedOver' = HandedOver
  BY <1>3 DEF F, R, Published, HandedOver
<1>7. \A files : Unpublished(files)' = Unpublished(files)
  BY <1>6 DEF Unpublished
<1>8. Sound(F)' /\ Sound(R)'
  <2>1. ASSUME NEW r \in Job, Sound(r) PROVE Sound(r)'
    <3>1. r.read \in Nat
      BY DEF Job
    <3> QED BY <1>2, <2>1, <3>1 DEF Sound, Intervals, PointOf
  <2> QED BY <1>1, <1>6, <2>1
<1>9. FirstInv'
  <2>1. drill \in Restoring \cup {Rewriting} => (pc' > StopsAt(drill) <=> pc > StopsAt(drill))
    BY <1>2, <1>4, Positions
  <2> QED BY <1>1, <1>2, <1>3, <1>4, <1>6, <2>1 DEF FirstInv, Judged
<1>10. OnceInv'
  <2>1. \A n \in DOMAIN changelog : changelog[n].change \in Nat
    BY <1>1, Kinds DEF Published
  <2> QED BY <1>1, <1>2, <1>3, <2>1 DEF OnceInv
<1>11. FirstLogInv'
  BY <1>1, <1>3, <1>6, <1>7 DEF FirstLogInv
<1>12. StopInv'
  <2>1. CASE drill \in Restoring /\ pc = 6
    <3>1. binlog = <<>> /\ R = NoJob
      BY <1>1, <2>1, Positions DEF StopInv
    <3>2. Len(binlog) = 0
      BY <3>1
    <3>3. /\ Step.do = "insert" /\ Step.n = Script[drill][7].n /\ Step.n \in Nat \ {0}
      BY <2>1, RestorePlace
    <3>4. Step'.n = Step.n /\ pc' = 7
      BY <1>2, <1>3, <2>1, <3>3 DEF Step
    <3>5. Len(binlog') = Step'.n /\ Len(binlog') > 0
      BY <1>2, <3>2, <3>3, <3>4
    <3>6. RestorePoint'
      BY <1>3, <2>1, <3>4, Positions DEF RestorePoint, Restoring
    <3> QED BY <1>3, <1>6, <2>1, <3>1, <3>4, <3>5, <3>6, Positions DEF StopInv
  <2>2. CASE drill \in Restoring /\ pc > RestoresAt(drill)
    BY <1>2, <1>3, <1>4, <2>2, Positions DEF StopInv
  <2>3. CASE drill \notin Restoring
    BY <1>3, <2>3 DEF StopInv
  <2> QED BY <1>4, <2>1, <2>2, <2>3
<1>13. DiskInv'
  <2>1. drill = "checkpoint_restore" =>
          \/ pc = 6 /\ pc' = 7
          \/ pc > RestoresAt(drill) /\ pc' > RestoresAt(drill)
    BY <1>2, <1>4, Positions DEF Restoring
  <2>2. CASE drill = "checkpoint_restore" /\ pc = 6 /\ pc' = 7
    BY <1>1, <1>3, <1>6, <2>2, Positions DEF DiskInv, Restoring
  <2>3. CASE pc > RestoresAt(drill) /\ pc' > RestoresAt(drill)
    BY <1>2, <1>3, <1>4, <2>3, Positions DEF DiskInv
  <2> QED BY <1>3, <2>1, <2>2, <2>3 DEF DiskInv
<1>14. RestoredInv'
  <2>1. drill \in Restoring => (pc' > RestoresAt(drill) => pc > RestoresAt(drill))
    BY <1>2, <1>4, Positions
  <2> QED BY <1>1, <1>3, <1>6, <1>7, <2>1 DEF RestoredInv
<1>15. ShownInv'
  <2>1. SUFFICES ASSUME drill \notin Fault, pc' <= FillsAt(drill),
                        NEW r \in Row, current[r] # 0
                 PROVE  \E i \in 1 .. F.done.pos :
                          binlog'[i].row = r /\ \A f \in F.pend["current"] : ~Within(f, i)
    BY <1>3, <1>6 DEF ShownInv, Within
  <2>2. pc <= FillsAt(drill) /\ ~(pc > StopsAt(drill))
    BY <1>2, <1>4, <2>1, Positions DEF Judged, Restoring, Rewriting
  <2>3. PICK i \in 1 .. F.done.pos :
          binlog[i].row = r /\ \A f \in F.pend["current"] : ~Within(f, i)
    BY <1>1, <2>1, <2>2 DEF ShownInv
  <2>4. F.status # "absent"
    BY <1>1, <1>4, <2>1, <2>2 DEF FirstInv
  <2>5. F.done.pos <= F.read /\ F.read <= Len(binlog) /\ F.read \in Nat /\ F.done.pos \in Nat
    BY <1>1, <2>4, AliveIs
  <2>6. i \in 1 .. Len(binlog)
    BY <1>2, <2>5
  <2> QED BY <1>2, <2>3, <2>6
<1>16. RewriteInv'
  <2>1. SUFFICES ASSUME drill = Rewriting PROVE RewriteInv'
    BY <1>3 DEF RewriteInv
  <2>2. CASE pc = 7
    <3>1. Len(binlog) = 0
      BY <1>1, <2>1, <2>2 DEF RewriteInv
    <3>2. Len(binlog') = 1 /\ pc' = 8 /\ drill' = Rewriting
      <4>1. Step.do = "insert" /\ Step.n = 1
        BY <1>4, <2>1
      <4>2. Len(binlog') = Len(binlog) + Step.n /\ pc' = pc + 1 /\ drill' = drill
        BY <1>2, <1>3, <4>1
      <4>3. Len(binlog') = 1
        BY <3>1, <4>1, <4>2
      <4>4. pc' = 8
        BY <2>2, <4>2
      <4> QED BY <2>1, <4>2, <4>3, <4>4
    <3>3. FillsAt(drill)' = 11
      BY <3>2 DEF FillsAt
    <3> QED BY <3>2, <3>3 DEF RewriteInv
  <2>3. CASE pc = 9
    <3>1. Len(binlog) = 1
      BY <1>1, <2>1, <2>3 DEF RewriteInv
    <3>2. Len(binlog') = 2 /\ pc' = 10 /\ drill' = Rewriting
      <4>1. Step.do = "insert" /\ Step.n = 1
        BY <1>4, <2>1
      <4>2. Len(binlog') = Len(binlog) + Step.n /\ pc' = pc + 1 /\ drill' = drill
        BY <1>2, <1>3, <4>1
      <4>3. Len(binlog') = 2
        BY <3>1, <4>1, <4>2
      <4>4. pc' = 10
        BY <2>3, <4>2
      <4> QED BY <2>1, <4>2, <4>3, <4>4
    <3>3. FillsAt(drill)' = 11
      BY <3>2 DEF FillsAt
    <3> QED BY <3>2, <3>3 DEF RewriteInv
  <2> QED BY <1>4, <2>1, <2>2, <2>3
<1> QED BY <1>5, <1>8, <1>9, <1>10, <1>11, <1>12, <1>13, <1>14, <1>15, <1>16 DEF Inv

-----------------------------------------------------------------------------
(* The drill waits or reads. *)

\* Steps of a drill that change neither the jobs nor the source, as what
\* matters here does not depend on the files of the tables.
Quiet ==
  Await \/ ReadSomething \/ Audit \/ Sample \/ Rewrite \/ (Conclude /\ ChecksHold)

Takes == {"require_checkpoint", "await_checkpoint_after"}

\* What such a step sees.
QuietSeen ==
  /\ "point" \in DOMAIN seen'
  /\ Step.do \notin Takes \cup {"find_retained"} => seen'.point = seen.point
  /\ Step.do \in Takes => seen'.point = F.done
  /\ Step.do = "find_retained" => FindRetained
  /\ pc' = pc + 1 /\ Step.do = "await_rows" => RowsArrived(Step.n)

\* Where it is, and where it goes.
QuietPlace ==
  /\ Step.do \notin Submission \cup Writes \cup Stops \cup {"savepoint", "submit_restored"}
  /\ \/ pc' = pc /\ Step.do \in {"sample", "verdict"}
     \/ pc' = pc + 1 /\ Step.do # "verdict"
     \/ pc' = pc - 1 /\ Step.do = "await_audit"

QuietKeeps ==
  UNCHANGED <<drill, binlog, job, points, aborted, changelog, current, maxId, late, tableId>>

\* Such a step leaves jobs, source and tables alone and is none of those above.
LEMMA QuietGoes ==
  ASSUME Quiet
  PROVE  QuietKeeps /\ QuietPlace /\ verdict = "none"
<1> USE DEF system, disk, tables, script, ending, Go, At, QuietKeeps, QuietPlace, Submission,
            Writes, Stops
<1>1. CASE Await
  BY <1>1 DEF Await, Arrived
<1>2. CASE ReadSomething
  BY <1>2 DEF ReadSomething
<1>3. CASE Audit
  BY <1>3 DEF Audit
<1>4. CASE Sample
  BY <1>4 DEF Sample
<1>5. CASE Rewrite
  BY <1>5 DEF Rewrite
<1>6. CASE Conclude /\ ChecksHold
  BY <1>6 DEF Conclude
<1> QED BY <1>1, <1>2, <1>3, <1>4, <1>5, <1>6 DEF Quiet

\* And it sees what QuietSeen says.
LEMMA QuietIs ==
  ASSUME TypeInv, Quiet
  PROVE  QuietKeeps /\ QuietSeen /\ QuietPlace
<1> SUFFICES QuietSeen
  BY QuietGoes
<1>1. "point" \in DOMAIN seen
  BY DEF TypeInv
<1> USE DEF system, script, Go, At, QuietSeen, Takes
<1>2. CASE Await
  <2>1. UNCHANGED seen
    BY <1>2 DEF Await
  <2>2. /\ Step.do \in {"await_cluster", "await_job", "await_restored", "await_marker",
                        "await_rows", "await_statuses", "await_changelog"}
        /\ Step.do = "await_rows" => RowsArrived(Step.n)
    BY <1>2 DEF Await, Arrived
  <2> QED BY <1>1, <2>1, <2>2
<1>3. CASE ReadSomething
  <2>1. CASE At("require_checkpoint") /\ SawCheckpoint(F.done)
    BY <1>1, <2>1 DEF SawCheckpoint
  <2>2. CASE At("await_checkpoint_after") /\ SawCheckpoint(F.done)
    BY <1>1, <2>2 DEF SawCheckpoint
  <2>3. CASE At("find_retained") /\ FindRetained
    BY <1>1, <2>3 DEF FindRetained
  <2>4. CASE At("read_source") /\ seen' = [seen EXCEPT !.source = SourceTable]
    BY <1>1, <2>4
  <2>5. CASE At("read_table") /\ seen' = [seen EXCEPT !.table = current]
    BY <1>1, <2>5
  <2>6. CASE At("measure_before") /\ seen' = [seen EXCEPT !.before = dataFiles]
    BY <1>1, <2>6
  <2>7. CASE At("measure_after") /\ seen' = [seen EXCEPT !.after = dataFiles]
    BY <1>1, <2>7
  <2> QED BY <1>3, <2>1, <2>2, <2>3, <2>4, <2>5, <2>6, <2>7 DEF ReadSomething, F
<1>4. CASE Audit
  <2>1. CASE At("await_audit") /\ UNCHANGED seen
    BY <1>1, <2>1
  <2>2. CASE At("report") /\ seen' = [seen EXCEPT !.reported = Consistent]
    BY <1>1, <2>2
  <2> QED BY <1>4, <2>1, <2>2 DEF Audit
<1>5. CASE Sample
  BY <1>1, <1>5 DEF Sample
<1>6. CASE Rewrite
  BY <1>1, <1>6 DEF Rewrite
<1>7. CASE Conclude /\ ChecksHold
  BY <1>1, <1>7 DEF Conclude
<1> QED BY <1>2, <1>3, <1>4, <1>5, <1>6, <1>7 DEF Quiet

\* Once the current table has a row for every change, the first job has
\* published them all: it holds none of them back, and its last checkpoint has
\* them.
LEMMA RowsThere ==
  ASSUME ScriptInv, Inv, drill \in Restoring \cup {Rewriting}, pc = FillsAt(drill),
         RowsArrived(Step.n)
  PROVE  F.pend["current"] = {} /\ F.done.pos = Len(binlog) /\ F.done.id >= 1
<1>1. /\ TypeInv /\ Sound(F) /\ FirstInv /\ StopInv /\ ShownInv /\ RewriteInv
      /\ F \in Job /\ Len(binlog) \in Nat
  BY Kinds DEF Inv
<1>2. drill \in Judged /\ drill \notin Fault /\ pc > 4 /\ pc <= StopsAt(drill)
      /\ pc \in Nat /\ StopsAt(drill) \in Nat
  BY Positions, Place DEF Judged, Fault, Restoring, Rewriting
<1>3. Len(binlog) = Step.n /\ Len(binlog) > 0
  <2>1. CASE drill \in Restoring
    BY <1>1, <2>1 DEF StopInv
  <2>2. CASE drill = Rewriting
    BY <1>1, <2>2, RewritePlace, Positions DEF RewriteInv
  <2> QED BY <2>1, <2>2
<1>4. F.status # "absent"
  BY <1>1, <1>2 DEF FirstInv
<1>5. /\ F.read <= Len(binlog) /\ F.done.pos <= F.read /\ F.read \in Nat /\ F.done.pos \in Nat
      /\ F.done.id \in Nat
  BY <1>1, <1>4, AliveIs
<1> DEFINE I == {i \in 1 .. F.done.pos : \A f \in F.pend["current"] : ~Within(f, i)}
           all == 1 .. Len(binlog)
<1>6. I \subseteq all
  BY <1>1, <1>5
<1>7. IsFiniteSet(all) /\ Cardinality(all) = Len(binlog)
  <2>1. PICK n \in Nat : n = Len(binlog)
    BY <1>1
  <2>2. IsFiniteSet(1 .. n) /\ Cardinality(1 .. n) = n
    <3>1. /\ IsFiniteSet(1 .. n)
          /\ Cardinality(1 .. n) = IF 1 > n THEN 0 ELSE n - 1 + 1
      BY FS_Interval
    <3> QED BY <3>1
  <2> QED BY <2>1, <2>2
<1>8. IsFiniteSet(I) /\ Cardinality(I) \in Nat /\ (Cardinality(I) = Cardinality(all) => I = all)
      /\ Cardinality(I) <= Cardinality(all)
  BY <1>6, <1>7, FS_Subset, FS_CardinalityType
<1>9. \A r \in Present(current) : \E i \in I : binlog[i].row = r
  BY <1>1, <1>2 DEF ShownInv, Present
<1>10. Cardinality(Present(current)) <= Cardinality(I)
  <2> HIDE DEF I
  <2> QED BY <1>8, <1>9, RowsCounted
<1>11. I = all
  BY <1>1, <1>3, <1>7, <1>8, <1>10 DEF RowsArrived
<1>12. F.done.pos = Len(binlog)
  <2>1. Len(binlog) \in I
    BY <1>1, <1>3, <1>11
  <2> QED BY <1>1, <1>5, <2>1
<1>13. F.pend["current"] = {}
  <2>1. ASSUME NEW f \in F.pend["current"] PROVE FALSE
    <3>1. f \in Files
      BY <1>1 DEF Job, Sink
    <3>2. f.lo < f.hi /\ f.hi <= F.read
      BY <1>1 DEF Sound, Intervals, Sink
    <3>3. f.hi \in all
      BY <1>1, <1>5, <3>1, <3>2 DEF Files
    <3>4. ~Within(f, f.hi)
      BY <1>11, <3>3
    <3> QED BY <3>1, <3>2, <3>4 DEF Within, Files
  <2> QED BY <2>1
<1>14. F.done.id >= 1
  <2>1. F.done.id # 0
    BY <1>1, <1>3, <1>12, EmptyIsSound DEF Sound
  <2> QED BY <1>5, <2>1
<1> QED BY <1>12, <1>13, <1>14

\* The last checkpoint of the first job is a good point to restore from.
LEMMA LastIsGood ==
  ASSUME Inv, R = NoJob, F.done.pos = Len(binlog), F.done.id >= 1
  PROVE  GoodPoint(F.done)
<1>1. ~HandedOver
  BY EmptyIsSound DEF HandedOver
<1>2. FirstLogInv /\ Sound(F)
  BY DEF Inv
<1>3. \A s \in Sink : Intervals(F.done.pend[s], F.done.id, F.done.pos)
  BY <1>2 DEF Sound
<1>4. \A f \in F.done.pend[Log] : f.id <= F.done.id
  BY <1>3, LogIsASink DEF Intervals
<1>5. Unpublished(Beyond(F.done.pend[Log], maxId["first"][Log]))
  BY <1>1, <1>2 DEF FirstLogInv
<1> QED BY <1>3, <1>4, <1>5 DEF GoodPoint

\* Of the directories on disk the one with the greatest number is that of the
\* last checkpoint, or of none that is complete.
LEMMA Retained ==
  ASSUME TypeInv, DiskInv, drill = "checkpoint_restore", pc <= RestoresAt(drill),
         F.done.id >= 1, F \in Job, FindRetained
  PROVE  seen'.point \in Point /\ (seen'.point \in points => seen'.point = F.done)
<1> DEFINE ids == {p.id : p \in points}
           found == ids \cup aborted
           latest == CHOOSE i \in found : \A k \in found : k <= i
<1>1. /\ F.done \in points /\ F.done.id \in Nat
      /\ \A p \in points : p = F.done \/ p.id < F.done.id
      /\ \A a, b \in aborted : a = b
  <2>1. F.done \in Point
    BY DEF Job
  <2> QED BY <2>1 DEF DiskInv, Point
<1>2. points \subseteq Point /\ aborted \subseteq Nat /\ "point" \in DOMAIN seen
  BY DEF TypeInv
<1>3. found \subseteq Nat
  BY <1>2 DEF Point
<1>4. \E n \in Nat : found \subseteq 0 .. n
  <2>1. \A i \in ids : i \in 0 .. F.done.id
    BY <1>1, <1>2 DEF Point
  <2>2. CASE aborted = {}
    BY <1>1, <2>1, <2>2
  <2>3. ASSUME NEW a \in aborted PROVE \E n \in Nat : found \subseteq 0 .. n
    <3>1. a \in Nat /\ \A b \in aborted : b = a
      BY <1>1, <1>2
    <3>2. PICK n \in Nat : n = F.done.id + a
      BY <1>1, <3>1
    <3>3. \A i \in ids : i \in 0 .. n
      BY <1>1, <2>1, <3>1, <3>2
    <3>4. \A b \in aborted : b \in 0 .. n
      BY <1>1, <3>1, <3>2
    <3> QED BY <3>3, <3>4
  <2> QED BY <2>2, <2>3
<1>5. found # {} /\ F.done.id \in found
  BY <1>1
<1>6. \E i \in found : \A k \in found : k <= i
  <2> HIDE DEF found
  <2> QED BY <1>4, <1>5, Greatest
<1>7. latest \in found /\ \A k \in found : k <= latest
  BY <1>6
<1>8. latest \in Nat /\ F.done.id <= latest
  BY <1>3, <1>5, <1>7
<1>9. seen'.point = IF latest \in ids THEN CHOOSE p \in points : p.id = latest
                    ELSE [NoPoint EXCEPT !.id = latest]
  BY <1>2 DEF FindRetained
<1> HIDE DEF latest, found
<1>10. CASE latest \in ids
  <2>1. seen'.point \in points /\ seen'.point.id = latest
    BY <1>9, <1>10
  <2>2. seen'.point = F.done
    BY <1>1, <1>2, <1>8, <2>1 DEF Point
  <2> QED BY <1>2, <2>1, <2>2
<1>11. CASE latest \notin ids
  <2>1. PICK p : p = [NoPoint EXCEPT !.id = latest]
    OBVIOUS
  <2>2. NoPoint \in Point
    BY EmptyIsSound
  <2>3. p \in Point /\ p.id = latest
    BY <1>8, <2>1, <2>2 DEF Point
  <2>4. seen'.point = p
    BY <1>9, <1>11, <2>1
  <2>5. p \notin points
    BY <1>11, <2>3
  <2> QED BY <2>3, <2>4, <2>5
<1> QED BY <1>10, <1>11

\* The points the drill may restore from stay good as it reads on.
LEMMA PointsRead ==
  ASSUME ScriptInv, Inv, drill \in Restoring, Quiet, pc > 4, pc' <= RestoresAt(drill)
  PROVE  seen'.point \in Point /\ RestorePoint'
<1>1. TypeInv /\ StopInv /\ DiskInv /\ F \in Job /\ drill \in Judged
  BY Kinds DEF Inv, Judged
<1>2. QuietKeeps /\ QuietSeen /\ QuietPlace
  BY <1>1, QuietIs
<1>3. /\ UNCHANGED <<drill, binlog, job, points, changelog, maxId>>
      /\ seen.point \in Point /\ "point" \in DOMAIN seen
  BY <1>1, <1>2 DEF QuietKeeps, TypeInv
<1>4. pc \in Nat /\ (Step.do = "await_audit" => pc > 12)
  BY <1>1, Place
<1>5. pc' = pc \/ pc' = pc + 1 \/ pc > 12
  BY <1>2, <1>4 DEF QuietPlace
<1>6. pc <= RestoresAt(drill) /\ pc # RestoresAt(drill)
  <2>1. pc = RestoresAt(drill) => Step.do = "submit_restored"
    BY RestorePlace, Positions
  <2> QED BY <1>2, <1>4, <1>5, <2>1, Positions DEF QuietPlace
<1>7. \A p : GoodPoint(p)' <=> GoodPoint(p)
  BY <1>3 DEF GoodPoint, Unpublished, Published, Intervals, Beyond, F
<1>8. CASE drill \in {"savepoint_restore", "smoke"}
  <2>1. pc < StopsAt(drill) - 1
    <3>1. pc >= StopsAt(drill) - 1 => Step.do \in {"savepoint", "cancel"}
      <4>1. pc >= StopsAt(drill) - 1 => pc \in {8, 9, 10}
        BY <1>4, <1>6, <1>8, Positions
      <4> QED BY <1>4, <1>6, <1>8, <4>1, RestorePlace, Positions
    <3> QED BY <1>2, <1>4, <3>1, Positions DEF QuietPlace, Stops
  <2>2. pc' < StopsAt(drill)
    BY <1>4, <1>5, <1>6, <2>1, Positions
  <2>3. Step.do # "find_retained" /\ Step.do \in Takes => seen'.point = F.done
    BY <1>2 DEF QuietSeen
  <2>4. Step.do # "find_retained"
    BY <1>1, <1>8, StopPlace
  <2>5. seen'.point \in Point
    BY <1>1, <1>2, <1>3, <2>4 DEF QuietSeen, Job
  <2>6. ~(pc' >= StopsAt(drill))
    BY <1>4, <1>5, <1>6, <2>2, Positions
  <2> QED BY <1>3, <1>8, <2>5, <2>6 DEF RestorePoint
<1>9. CASE drill = "jobmanager_restart"
  <2>1. Step.do # "find_retained"
    BY <1>1, <1>9, StopPlace
  <2>2. seen'.point \in Point
    BY <1>1, <1>2, <1>3, <2>1 DEF QuietSeen, Job
  <2>3. CASE pc' < 9
    <3>1. ~(pc' >= 9)
      BY <1>4, <1>5, <1>6, <2>3, Positions
    <3> QED BY <1>3, <1>9, <2>2, <3>1 DEF RestorePoint
  <2>4. CASE pc = 8
    <3>1. Step.do = "require_checkpoint"
      BY <1>9, <2>4, RestorePlace
    <3>2. seen'.point = F.done
      BY <1>2, <3>1 DEF QuietSeen, Takes
    <3>3. GoodPoint(F.done)
      BY <1>1, <1>6, <2>4, Positions, NotRestored, LastIsGood
    <3>4. PICK p : p = F.done
      OBVIOUS
    <3>5. GoodPoint(p)'
      BY <1>7, <3>3, <3>4
    <3>6. GoodPoint(seen.point)'
      BY <3>2, <3>4, <3>5 DEF GoodPoint
    <3> QED BY <1>3, <1>9, <2>2, <3>6 DEF RestorePoint
  <2>5. CASE pc \in {9, 10}
    <3>1. Step.do \in {"restart_jobmanager", "await_cluster"}
      BY <1>9, <2>5, RestorePlace
    <3>2. seen'.point = seen.point
      BY <1>2, <3>1 DEF QuietSeen, Takes
    <3>3. GoodPoint(seen.point)
      BY <1>1, <1>6, <1>9, <2>5 DEF StopInv, RestorePoint
    <3>4. PICK p : p = seen.point
      OBVIOUS
    <3>5. GoodPoint(p)'
      BY <1>7, <3>3, <3>4
    <3>6. GoodPoint(seen.point)'
      BY <3>2, <3>4, <3>5 DEF GoodPoint
    <3> QED BY <1>3, <1>9, <2>2, <3>6 DEF RestorePoint
  <2>6. pc' < 9 \/ pc = 8 \/ pc \in {9, 10}
    BY <1>4, <1>5, <1>6, <1>9, Positions
  <2> QED BY <2>3, <2>4, <2>5, <2>6
<1>10. CASE drill = "checkpoint_restore"
  <2>1. CASE Step.do # "find_retained"
    <3>1. pc # 10
      BY <1>10, <2>1, RestorePlace
    <3>2. pc' # 11
      BY <1>4, <1>5, <1>6, <1>10, <3>1, Positions
    <3>3. seen'.point \in Point
      BY <1>1, <1>2, <1>3, <2>1 DEF QuietSeen, Job
    <3> QED BY <1>3, <1>10, <3>2, <3>3 DEF RestorePoint
  <2>2. CASE Step.do = "find_retained"
    <3>1. pc = 10
      BY <1>1, <2>2, StopPlace
    <3>2. R = NoJob /\ F.done.pos = Len(binlog) /\ F.done.id >= 1
      BY <1>6, <3>1, Positions, NotRestored
    <3>3. FindRetained
      BY <1>2, <2>2 DEF QuietSeen
    <3>4. seen'.point \in Point /\ (seen'.point \in points => seen'.point = F.done)
      BY <1>1, <1>6, <1>10, <3>2, <3>3, Retained
    <3>5. GoodPoint(F.done)
      BY <3>2, LastIsGood
    <3>6. PICK p : p = F.done
      OBVIOUS
    <3>7. GoodPoint(p)'
      BY <1>7, <3>5, <3>6
    <3>8. seen'.point \in points => GoodPoint(seen.point)'
      BY <3>4, <3>6, <3>7 DEF GoodPoint
    <3> QED BY <1>3, <1>10, <3>4, <3>8 DEF RestorePoint
  <2> QED BY <2>1, <2>2
<1> QED BY <1>8, <1>9, <1>10 DEF Restoring

\* The other drills only look at a completed checkpoint.
LEMMA SeenIsAPoint ==
  ASSUME ScriptInv, Inv, drill \in Judged, Quiet, pc > 4
  PROVE  "point" \in DOMAIN seen' /\ seen'.point \in Point
<1>1. TypeInv /\ F \in Job /\ seen.point \in Point
  BY Kinds DEF Inv
<1>2. QuietSeen
  BY <1>1, QuietIs
<1>3. CASE Step.do # "find_retained"
  BY <1>1, <1>2, <1>3 DEF QuietSeen, Job
<1>4. CASE Step.do = "find_retained"
  <2>1. drill = "checkpoint_restore" /\ pc = 10
    BY <1>4, StopPlace
  <2>2. drill \in Restoring /\ pc <= RestoresAt(drill) /\ pc > FillsAt(drill)
    BY <2>1, Positions DEF Restoring
  <2>3. F.done.id >= 1 /\ DiskInv
    BY <2>2, NotRestored DEF Inv
  <2>4. FindRetained /\ "point" \in DOMAIN seen'
    BY <1>2, <1>4 DEF QuietSeen
  <2> QED BY <1>1, <2>1, <2>2, <2>3, <2>4, Retained
<1> QED BY <1>3, <1>4

\* The drill goes on, and where it leaves a step that others rely on it has seen
\* what they need.
LEMMA QuietMoves ==
  ASSUME ScriptInv, Inv, drill \in Judged, Quiet, pc > 4
  PROVE  Inv'
<1>1. /\ TypeInv /\ LeftInv /\ Sound(F) /\ Sound(R) /\ FirstInv /\ OnceInv /\ FirstLogInv
      /\ StopInv /\ DiskInv /\ RestoredInv /\ ShownInv /\ RewriteInv
  BY DEF Inv
<1>2. QuietKeeps /\ QuietPlace /\ QuietSeen
  BY <1>1, QuietIs
<1>3. UNCHANGED <<drill, binlog, job, points, aborted, changelog, current, maxId, late, tableId>>
  BY <1>2 DEF QuietKeeps
<1>4. /\ pc \in Nat /\ pc' \in Nat /\ pc' > 4
      /\ pc' = pc \/ pc' = pc + 1 \/ (pc' = pc - 1 /\ pc > 12 /\ drill # Rewriting)
  <2>1. Step.do = "await_audit" => pc > 12 /\ drill # Rewriting
    BY Place, RewritePlace
  <2>2. pc \in Nat
    BY Place
  <2> QED BY <1>2, <2>1, <2>2 DEF QuietPlace
<1>5. F' = F /\ R' = R /\ Published' = Published /\ HandedOver' = HandedOver
  BY <1>3 DEF F, R, Published, HandedOver
<1>6. \A files : Unpublished(files)' = Unpublished(files)
  BY <1>5 DEF Unpublished
<1>7. TypeInv' /\ LeftInv' /\ StartInv'
  <2>1. "point" \in DOMAIN seen' /\ seen'.point \in Point
    BY SeenIsAPoint
  <2>2. TypeInv'
    BY <1>1, <1>3, <2>1 DEF TypeInv
  <2>3. LeftInv' /\ StartInv'
    BY <1>1, <1>3, <1>4 DEF LeftInv, StartInv
  <2> QED BY <2>2, <2>3
<1>8. Sound(F)' /\ Sound(R)'
  <2>1. \A r : Sound(r)' <=> Sound(r)
    BY <1>3 DEF Sound, Intervals, PointOf
  <2> QED BY <1>1, <1>5, <2>1
<1>9. drill \notin Fault => pc # StopsAt(drill)
  <2>1. drill \in Restoring /\ pc = StopsAt(drill) => Step.do \in Stops
    BY RestorePlace, Positions DEF Stops
  <2>2. drill = Rewriting /\ pc = StopsAt(drill) => Step.do \in Stops
    BY RewritePlace, Positions DEF Stops
  <2> QED BY <1>2, <2>1, <2>2 DEF QuietPlace, Judged
<1>10. drill \notin Fault => (pc' > StopsAt(drill) <=> pc > StopsAt(drill))
  BY <1>4, <1>9, Positions DEF Judged
<1>11. FirstInv'
  BY <1>1, <1>3, <1>4, <1>5, <1>10 DEF FirstInv
<1>12. OnceInv' /\ FirstLogInv'
  BY <1>1, <1>3, <1>5, <1>6 DEF OnceInv, FirstLogInv
<1>13. drill \in Restoring => pc # RestoresAt(drill) /\ pc # 6
  <2>1. drill \in Restoring /\ pc = RestoresAt(drill) => Step.do = "submit_restored"
    BY RestorePlace, Positions
  <2>2. drill \in Restoring /\ pc = 6 => Step.do \in Writes
    BY RestorePlace DEF Writes
  <2> QED BY <1>2, <2>1, <2>2 DEF QuietPlace
<1>14. drill \in Restoring => (pc' > RestoresAt(drill) <=> pc > RestoresAt(drill))
  BY <1>4, <1>13, Positions
<1>15. drill \in Restoring \cup {Rewriting} /\ pc = FillsAt(drill) /\ pc' # pc =>
         F.pend["current"] = {} /\ F.done.pos = Len(binlog) /\ F.done.id >= 1
  <2>1. SUFFICES ASSUME drill \in Restoring \cup {Rewriting}, pc = FillsAt(drill), pc' # pc
                 PROVE  F.pend["current"] = {} /\ F.done.pos = Len(binlog) /\ F.done.id >= 1
    OBVIOUS
  <2>2. Step.do = "await_rows"
    BY <2>1, RestorePlace, RewritePlace, Positions
  <2>3. pc' = pc + 1
    BY <1>4, <2>1, Positions
  <2>4. RowsArrived(Step.n)
    BY <1>2, <2>2, <2>3 DEF QuietSeen
  <2> QED BY <2>1, <2>4, RowsThere
<1>16. StopInv'
  <2>1. SUFFICES ASSUME drill \in Restoring PROVE StopInv'
    BY <1>3 DEF StopInv
  <2>2. FillsAt(drill) = 7 /\ FillsAt(drill)' = 7 /\ RestoresAt(drill)' = RestoresAt(drill)
        /\ drill' \in Restoring
    BY <1>3, <2>1, Positions DEF FillsAt
  <2>3. pc' < 7 => binlog' = <<>>
    BY <1>1, <1>3, <1>4, <2>1, <2>2 DEF StopInv
  <2>4. pc' = 7 => Len(binlog') = Step'.n /\ Len(binlog') > 0
    <3>1. pc' = 7 => pc' = pc
      BY <1>4, <1>13, <2>1
    <3>2. pc' = pc => Step' = Step
      BY <1>3 DEF Step
    <3> QED BY <1>1, <1>3, <2>1, <2>2, <3>1, <3>2 DEF StopInv
  <2>5. pc' > 7 /\ pc' <= RestoresAt(drill) => F'.done.pos = Len(binlog') /\ F'.done.id >= 1
    <3>1. pc' > 7 /\ pc' <= RestoresAt(drill) =>
            (pc > 7 /\ pc <= RestoresAt(drill)) \/ (pc = 7 /\ pc' # pc)
      BY <1>4, <2>1, Positions
    <3> QED BY <1>1, <1>3, <1>5, <1>15, <2>1, <2>2, <3>1 DEF StopInv
  <2>6. pc' <= RestoresAt(drill) => R' = NoJob
    BY <1>1, <1>4, <1>5, <1>14, <2>1, Positions DEF StopInv
  <2>7. pc' <= RestoresAt(drill) => RestorePoint'
    BY <2>1, PointsRead
  <2> QED BY <2>2, <2>3, <2>4, <2>5, <2>6, <2>7 DEF StopInv
<1>17. DiskInv'
  <2>1. drill = "checkpoint_restore" =>
          /\ pc' <= RestoresAt(drill) => pc <= RestoresAt(drill)
          /\ pc' <= StopsAt(drill) => pc <= StopsAt(drill)
    BY <1>4, <1>10, <1>14, Positions DEF Restoring, Fault
  <2> QED BY <1>1, <1>3, <1>5, <2>1 DEF DiskInv
<1>18. RestoredInv'
  BY <1>1, <1>3, <1>5, <1>6, <1>14 DEF RestoredInv
<1>19. ShownInv'
  <2>1. drill \notin Fault => (pc' <= FillsAt(drill) => pc <= FillsAt(drill))
    BY <1>4, Positions DEF Judged
  <2> QED BY <1>1, <1>3, <1>5, <2>1 DEF ShownInv, Within
<1>20. RewriteInv'
  <2>1. SUFFICES ASSUME drill = Rewriting PROVE RewriteInv'
    BY <1>3 DEF RewriteInv
  <2>2. pc \notin {7, 9} /\ FillsAt(drill) = 11 /\ FillsAt(drill)' = 11
    BY <1>2, <1>3, <2>1, RewritePlace, Positions DEF QuietPlace, FillsAt
  <2>3. pc' = pc \/ pc' = pc + 1
    BY <1>4, <2>1
  <2>4. pc' <= 7 => pc <= 7
    BY <1>4, <2>3
  <2>5. pc' \in 8 .. 9 => pc \in 8 .. 9
    BY <1>4, <2>2, <2>3
  <2>6. pc' > 9 => pc > 9
    BY <1>4, <2>2, <2>3
  <2>7. pc' > 11 => pc > 11 \/ (pc = 11 /\ pc' # pc)
    BY <1>4, <2>3
  <2> QED BY <1>1, <1>3, <1>5, <1>15, <2>1, <2>2, <2>4, <2>5, <2>6, <2>7 DEF RewriteInv
<1> QED BY <1>7, <1>8, <1>11, <1>12, <1>16, <1>17, <1>18, <1>19, <1>20 DEF Inv

-----------------------------------------------------------------------------
(* Every step of a drill. *)

\* Before its job is submitted a drill only waits for the cluster.
LEMMA QuietStarts ==
  ASSUME ScriptInv, Inv, drill \in Judged, Quiet, pc <= 4
  PROVE  Inv'
<1>1. TypeInv /\ LeftInv /\ StartInv
  BY DEF Inv
<1>2. QuietKeeps /\ QuietSeen /\ QuietPlace
  BY <1>1, QuietIs
<1>3. pc = 2 /\ Step.do = "await_cluster"
  <2>1. pc \in {1, 2, 3, 4}
    BY Place DEF ScriptInv
  <2>2. pc \notin {1, 3, 4}
    BY <1>2, Place DEF QuietPlace, Submission
  <2> QED BY <2>1, <2>2, Place
<1>4. pc' = 3 /\ seen'.point = seen.point /\ "point" \in DOMAIN seen'
  BY <1>2, <1>3 DEF QuietPlace, QuietSeen, Takes
<1>5. TypeInv'
  BY <1>1, <1>2, <1>4 DEF QuietKeeps, TypeInv
<1>6. LeftInv' /\ StartInv'
  BY <1>1, <1>2, <1>3, <1>4 DEF QuietKeeps, LeftInv, StartInv, F, R
<1>7. (drill \in Judged /\ pc \in 1 .. 4 /\ TypeInv /\ LeftInv /\ StartInv => Inv)'
  BY StartEnough, PTL
<1> QED BY <1>2, <1>4, <1>5, <1>6, <1>7 DEF QuietKeeps

\* The steps with which a drill goes on, and those with which it ends.
Moves ==
  \/ CancelListed \/ ResetTables \/ Submit \/ TakeSavepoint \/ CancelJob
  \/ RestartJobManager \/ (SubmitRestored /\ Readable) \/ Write \/ Quiet
Ends ==
  \/ StepRaises \/ (SubmitRestored /\ ~Readable) \/ (Conclude /\ ~ChecksHold) \/ Finally

\* There are no others.
LEMMA MovesOrEnds == DrillStep \/ StepRaises => Moves \/ Ends
BY DEF DrillStep, Moves, Ends, Quiet

\* Whatever the drill does to go on, the invariant holds.
LEMMA MovesKeep ==
  ASSUME ScriptInv, Inv, drill \in Judged, Moves, ~LeftActive'
  PROVE  Inv'
<1>1. pc \in Nat
  BY Place
<1>2. CASE Quiet
  BY <1>1, <1>2, QuietStarts, QuietMoves
<1> QED BY <1>2, CancelsListed, ResetsTables, Submits, TakesSavepoint, StopsItsJob,
           SubmitsRestored, WritesSource DEF Moves

\* Where a step leads, whatever the jobs are.
LEMMA MovesOn ==
  ASSUME ScriptInv, drill \in Judged, Moves
  PROVE  verdict = "none" /\ drill' = drill /\ ScriptInv'
<1>1. /\ pc \in 1 .. Len(Script[drill]) /\ pc \in Nat /\ Len(Script[drill]) \in Nat
      /\ cleaned = FALSE \/ verdict # "none"
      /\ tableId = IF pc <= 3 THEN 0 ELSE 1
  BY Place DEF ScriptInv
<1>2. CASE Quiet
  <2>1. QuietKeeps /\ QuietPlace /\ verdict = "none"
    BY <1>2, QuietGoes
  <2>2. pc' \in 1 .. Len(Script[drill])
    BY <1>1, <2>1, Place DEF QuietPlace
  <2>3. pc' <= 3 <=> pc <= 3
    BY <1>1, <2>1, Place DEF QuietPlace, Submission
  <2>4. verdict' \in {"none", "passed"} /\ cleaned' = cleaned
    BY <1>2, <2>1 DEF Quiet, Await, ReadSomething, Audit, Sample, Rewrite, Conclude, Go, ending
  <2>5. drill' = drill /\ tableId' = tableId /\ cleaned = FALSE
    BY <1>1, <2>1 DEF QuietKeeps
  <2> QED BY <1>1, <2>1, <2>2, <2>3, <2>4, <2>5 DEF ScriptInv
<1>3. CASE ResetTables
  <2>1. /\ Step.do = "reset_tables" /\ verdict = "none" /\ pc' = pc + 1 /\ tableId' = 1
        /\ UNCHANGED <<drill, verdict, cleaned>>
    BY <1>3 DEF ResetTables, At, Go, ending
  <2>2. pc' = 4 /\ pc' \in 1 .. Len(Script[drill])
    BY <2>1, Place
  <2> QED BY <1>1, <2>1, <2>2 DEF ScriptInv
<1>4. CASE \/ CancelListed \/ Submit \/ TakeSavepoint \/ CancelJob
           \/ RestartJobManager \/ (SubmitRestored /\ Readable) \/ Write
  <2>1. /\ Step.do \in {"cancel_listed", "submit", "savepoint", "cancel",
                        "restart_jobmanager", "submit_restored"} \cup Writes
        /\ verdict = "none" /\ pc' = pc + 1 /\ UNCHANGED <<drill, verdict, cleaned, tableId>>
    BY <1>4 DEF CancelListed, Submit, TakeSavepoint, CancelJob, RestartJobManager,
                SubmitRestored, Write, At, Go, ending, tables, Writes
  <2>2. pc # 3
    BY <2>1, Place DEF Writes
  <2>3. pc' \in 1 .. Len(Script[drill])
    BY <2>1, Place DEF Writes
  <2>4. pc' <= 3 <=> pc <= 3
    BY <1>1, <2>1, <2>2
  <2> QED BY <1>1, <2>1, <2>3, <2>4 DEF ScriptInv
<1> QED BY <1>2, <1>3, <1>4 DEF Moves

\* A drill that ends changes neither the source nor the tables.
LEMMA EndsIs ==
  ASSUME ScriptInv, Ends
  PROVE  /\ UNCHANGED <<drill, pc, binlog, tables>> /\ ScriptInv' /\ ~Followed'
         /\ job' = job \/ job' = CancelEach(Canceled)
<1>1. /\ verdict \in {"none", "passed", "failed"} /\ cleaned \in BOOLEAN
      /\ cleaned => verdict # "none"
  BY DEF ScriptInv
<1>2. CASE StepRaises \/ (SubmitRestored /\ ~Readable) \/ (Conclude /\ ~ChecksHold)
  <2>1. verdict' = "failed" /\ UNCHANGED <<system, script, cleaned>>
    BY <1>2 DEF StepRaises, SubmitRestored, Conclude, Raise
  <2>2. UNCHANGED <<drill, pc, binlog, job, tables, tableId>>
    BY <2>1 DEF system, script, tables
  <2> QED BY <1>1, <2>1, <2>2 DEF ScriptInv, Followed
<1>3. CASE Finally
  <2>1. /\ verdict # "none" /\ cleaned' = TRUE /\ UNCHANGED <<binlog, tables, drill, pc, verdict>>
        /\ job' = job \/ job' = CancelEach(Canceled)
    BY <1>3 DEF Finally, script
  <2>2. tableId' = tableId
    BY <2>1 DEF tables
  <2> QED BY <1>1, <2>1, <2>2 DEF ScriptInv, Followed
<1> QED BY <1>2, <1>3 DEF Ends

\* The jobs and the cluster do not touch the drill.
LEMMA SystemLeaves == SystemStep => UNCHANGED <<tableId, harness>>
<1>1. ASSUME NEW j \in Name, NEW s \in Sink, Recover(j, s) \/ Commit(j, s)
      PROVE  UNCHANGED <<tableId, harness>>
  BY <1>1 DEF Recover, Commit, Publish, tables
<1>2. ASSUME NEW j \in Name,
             \/ JobStarts(j) \/ Restart(j) \/ Strikes(j) \/ Trigger(j)
             \/ CompleteCheckpoint(j) \/ ToldFault(j) \/ JobEnds(j)
      PROVE  UNCHANGED <<tableId, harness>>
  BY <1>2 DEF JobStarts, Restart, Strikes, Trigger, CompleteCheckpoint, ToldFault, JobEnds, tables
<1>3. DeleteSubsumed \/ DiscardAborted \/ ClusterStarts => UNCHANGED <<tableId, harness>>
  BY DEF DeleteSubsumed, DiscardAborted, ClusterStarts, tables
<1> QED BY <1>1, <1>2, <1>3 DEF SystemStep

\* Every step stays in the script.
LEMMA ScriptStays ==
  ASSUME ScriptInv, drill \in Judged, Next
  PROVE  drill' = drill /\ ScriptInv'
<1>1. CASE SystemStep
  <2>1. UNCHANGED <<tableId, drill, pc, verdict, cleaned>>
    BY <1>1, SystemLeaves DEF harness, script, ending
  <2> QED BY <2>1 DEF ScriptInv
<1> QED BY <1>1, MovesOrEnds, MovesOn, EndsIs DEF Next

\* A job that was not canceled goes on.
LeftThere ==
  /\ "left" \in DOMAIN job /\ "status" \in DOMAIN job["left"]
  /\ job["left"].status \in {"RUNNING", "RESTARTING"}

\* A step of a job that leaves it running or restarting, or of another job.
LEMMA LeftUpdated ==
  ASSUME LeftThere, NEW j, NEW q, Update(j, q),
         j = "left" => "status" \in DOMAIN q /\ q.status \in {"RUNNING", "RESTARTING"}
  PROVE  LeftThere'
BY DEF LeftThere, Update

\* No step of the jobs and of the cluster ends it.
LEMMA LeftRuns ==
  ASSUME LeftThere, SystemStep
  PROVE  LeftThere'
<1> DEFINE l == job["left"]
<1>1. "status" \in DOMAIN l /\ l.status \in {"RUNNING", "RESTARTING"}
  BY DEF LeftThere
<1>2. CASE DeleteSubsumed \/ DiscardAborted \/ ClusterStarts
  BY <1>2 DEF DeleteSubsumed, DiscardAborted, ClusterStarts, LeftThere
<1>3. ASSUME NEW j \in Name, JobStep(j) PROVE LeftThere'
  <2>1. PICK q : Update(j, q)
    BY <1>3 DEF JobStep, JobStarts, Restart, Strikes, Trigger, CompleteCheckpoint, ToldFault,
                JobEnds, Recover, Commit
  <2>2. CASE j # "left"
    BY <2>1, <2>2, LeftUpdated
  <2>3. CASE j = "left"
    <3>1. ~JobStarts(j) /\ ~Strikes(j) /\ ~JobEnds(j)
      BY <1>1, <2>3 DEF JobStarts, Strikes, Armed, JobEnds
    <3>2. "status" \in DOMAIN Failed(j) /\ Failed(j).status = "RESTARTING"
      BY <1>1, <2>3 DEF Failed
    <3>3. CASE Restart(j)
      BY <1>1, <2>3, <3>3, LeftUpdated DEF Restart
    <3>4. CASE Trigger(j)
      BY <1>1, <2>3, <3>4, LeftUpdated DEF Trigger, Flushed
    <3>5. CASE CompleteCheckpoint(j)
      BY <1>1, <2>3, <3>5, LeftUpdated DEF CompleteCheckpoint
    <3>6. CASE ToldFault(j)
      BY <1>1, <2>3, <3>2, <3>6, LeftUpdated DEF ToldFault
    <3>7. ASSUME NEW s \in Sink, Recover(j, s) PROVE LeftThere'
      BY <1>1, <2>3, <3>7, LeftUpdated DEF Recover
    <3>8. ASSUME NEW s \in Sink, Commit(j, s) PROVE LeftThere'
      BY <1>1, <2>3, <3>2, <3>8, LeftUpdated DEF Commit
    <3> QED BY <1>3, <3>1, <3>3, <3>4, <3>5, <3>6, <3>7, <3>8 DEF JobStep
  <2> QED BY <2>2, <2>3
<1> QED BY <1>2, <1>3 DEF SystemStep, JobStep

\* Nor does the drill, which does not know it.
LEMMA LeftGoesOn ==
  ASSUME ScriptInv, drill \in Judged, LeftActive, Next
  PROVE  LeftActive'
<1>1. LeftThere /\ drill \in Careless /\ pc > 1 /\ pc \in Nat
  BY Place DEF LeftActive, LeftThere
<1>2. drill' = drill
  BY ScriptStays
<1>3. pc' > 1 /\ ~CancelListed
  <2>1. ~CancelListed
    BY <1>1, Place DEF CancelListed, At
  <2>2. CASE SystemStep
    BY <1>1, <2>1, <2>2, SystemLeaves DEF harness, script
  <2>3. CASE Ends
    BY <1>1, <2>1, <2>3, EndsIs
  <2>4. CASE Quiet
    BY <1>1, <2>1, <2>4, QuietGoes, Place DEF QuietPlace
  <2>5. CASE Moves /\ ~Quiet
    <3>1. pc' = pc + 1
      BY <2>1, <2>5 DEF Moves, ResetTables, Submit, TakeSavepoint, CancelJob,
                        RestartJobManager, SubmitRestored, Write, Go
    <3> QED BY <1>1, <2>1, <3>1
  <2> QED BY <2>1, <2>2, <2>3, <2>4, <2>5, MovesOrEnds DEF Next
<1>4. LeftThere'
  <2>1. CASE SystemStep
    BY <1>1, <2>1, LeftRuns
  <2>2. CASE Ends
    <3>1. job' = job \/ job' = CancelEach(Canceled)
      BY <2>2, EndsIs
    <3>2. "left" \notin Canceled
      BY <1>1 DEF Canceled, Careless
    <3>3. CASE job' = job
      BY <1>1, <3>3 DEF LeftThere
    <3>4. CASE job' = CancelEach(Canceled)
      BY <1>1, <3>2, <3>4 DEF CancelEach, LeftThere, Name
    <3> QED BY <3>1, <3>3, <3>4
  <2>3. CASE Quiet \/ ResetTables \/ Write
    <3>1. job' = job
      BY <2>3, QuietGoes DEF QuietKeeps, ResetTables, Write
    <3> QED BY <1>1, <3>1 DEF LeftThere
  <2>4. CASE Submit \/ TakeSavepoint \/ CancelJob \/ RestartJobManager
             \/ (SubmitRestored /\ Readable)
    <3>1. \E q : Update("first", q) \/ Update("restored", q)
      BY <2>4 DEF Submit, TakeSavepoint, CancelJob, RestartJobManager, SubmitRestored
    <3> QED BY <1>1, <3>1, LeftUpdated
  <2> QED BY <1>3, <2>1, <2>2, <2>3, <2>4, MovesOrEnds DEF Next, Moves
<1> QED BY <1>1, <1>2, <1>3, <1>4 DEF LeftActive, LeftThere

-----------------------------------------------------------------------------
(* The invariant is inductive. *)

\* The invariant holds before the first step.
LEMMA InitInv == Init => IInv
<1> SUFFICES ASSUME Init PROVE IInv
  OBVIOUS
<1>1. drill \in Drills
  BY DEF Init
<1>2. ASSUME drill \in Judged PROVE ScriptInv /\ Inv
  <2>1. Framed(drill)
    BY <1>1, <1>2, ScriptsLegal DEF Legal
  <2>2. ScriptInv
    <3>1. Len(Script[drill]) \in Nat /\ Len(Script[drill]) > 4
      BY <2>1 DEF Framed
    <3>2. pc = 1 /\ verdict = "none" /\ cleaned = FALSE /\ tableId = 0
      BY DEF Init
    <3>3. pc \in 1 .. Len(Script[drill])
      BY <3>1, <3>2
    <3>4. tableId = IF pc <= 3 THEN 0 ELSE 1
      BY <3>2
    <3> QED BY <1>1, <3>2, <3>3, <3>4 DEF ScriptInv
  <2>3. PICK q : q = [s \in Sink |-> 0]
    OBVIOUS
  <2>4. /\ binlog = <<>> /\ points = {} /\ aborted = {} /\ pc = 1 /\ changelog = <<>>
        /\ current = [r \in Row |-> 0] /\ maxId = [j \in Name |-> q]
        /\ seen.point = NoPoint /\ "point" \in DOMAIN seen
    BY <2>3 DEF Init
  <2>5. PICK status \in {"absent", "RUNNING"} :
          job = [j \in Name |-> IF j = "left" THEN [NoJob EXCEPT !.status = status] ELSE NoJob]
    BY DEF Init
  <2>6. PICK l : l = [NoJob EXCEPT !.status = status]
    OBVIOUS
  <2>7. /\ l \in Job /\ l.status = status /\ l.pend = NoPoint.pend /\ l.ongoing = NoPoint
        /\ l.notify = {} /\ l.recover = {}
    BY <2>6, EmptyIsSound DEF Job
  <2>8. job = [j \in Name |-> IF j = "left" THEN l ELSE NoJob]
    BY <2>5, <2>6
  <2>9. job \in [Name -> Job] /\ job["left"] = l /\ F = NoJob /\ R = NoJob
    BY <2>7, <2>8, EmptyIsSound DEF Name, F, R
  <2>10. TypeInv
    <3>1. binlog \in Seq(Elements(binlog)) /\ Len(binlog) \in Nat
      BY <2>4 DEF Elements
    <3>2. q \in [Sink -> Nat]
      BY <2>3
    <3>3. changelog \in Seq([change : Nat, by : Name])
      BY <2>4
    <3> QED BY <2>4, <2>9, <3>1, <3>2, <3>3, EmptyIsSound DEF TypeInv
  <2>11. LeftInv
    BY <2>4, <2>7, <2>9 DEF LeftInv
  <2>12. StartInv
    BY <2>3, <2>4, <2>9 DEF StartInv, Name
  <2> QED BY <1>2, <2>2, <2>4, <2>10, <2>11, <2>12, StartEnough
<1> QED BY <1>1, <1>2 DEF IInv, Inv

\* Every step keeps it: of the system, of the drill, and those that end the drill.
LEMMA NextInv == IInv /\ [Next]_vars => IInv'
<1> SUFFICES ASSUME IInv, [Next]_vars PROVE IInv'
  OBVIOUS
<1>1. CASE UNCHANGED vars
  <2>1. UNCHANGED <<binlog, job, points, aborted, tableId, maxId, changelog, current, late, drill,
                    pc, seen, verdict, cleaned>>
    BY <1>1 DEF vars, system, harness, disk, tables, script, ending
  <2>2. ScriptInv' = ScriptInv /\ LeftActive' = LeftActive /\ Followed' = Followed
    BY <2>1 DEF ScriptInv, LeftActive, Followed
  <2>3. OnceInv' = OnceInv
    BY <2>1 DEF OnceInv
  <2>4. Inv' = Inv
    BY <2>1 DEF Inv, TypeInv, LeftInv, StartInv, Sound, Intervals, PointOf, FirstInv, OnceInv,
                FirstLogInv, StopInv, RestorePoint, GoodPoint, DiskInv, RestoredInv, ShownInv,
                RewriteInv, Unpublished, Published, HandedOver, Beyond, Within, Step, F, R
  <2> QED BY <2>1, <2>2, <2>3, <2>4 DEF IInv
<1>2. CASE Next
  <2>1. drill' = drill
    <3>1. CASE SystemStep
      BY <3>1, SystemLeaves DEF harness, script
    <3>2. CASE DrillStep
      BY <3>2 DEF DrillStep, CancelListed, ResetTables, Submit, TakeSavepoint, CancelJob,
                  RestartJobManager, SubmitRestored, Raise, Write, Rewrite, Await,
                  ReadSomething, Audit, Sample, Conclude, Finally, Go, script
    <3>3. CASE StepRaises
      BY <3>3 DEF StepRaises, Raise, script
    <3> QED BY <1>2, <3>1, <3>2, <3>3 DEF Next
  <2>2. ASSUME drill \in Judged
        PROVE  ScriptInv' /\ (~LeftActive' => OnceInv' /\ (Followed' => Inv'))
    <3>1. ScriptInv /\ ScriptInv'
      BY <1>2, <2>2, ScriptStays DEF IInv
    <3>2. SUFFICES ASSUME ~LeftActive' PROVE OnceInv' /\ (Followed' => Inv')
      BY <3>1
    <3>3. OnceInv /\ (Followed => Inv)
      BY <1>2, <2>2, <3>1, <3>2, LeftGoesOn DEF IInv
    <3>4. CASE Followed /\ SystemStep
      BY <2>2, <3>1, <3>3, <3>4, SystemSteps DEF Inv
    <3>5. CASE Moves
      <4>1. verdict = "none"
        BY <2>2, <3>1, <3>5, MovesOn
      <4>2. Followed
        BY <3>1, <4>1 DEF ScriptInv, Followed
      <4> QED BY <2>2, <3>1, <3>2, <3>3, <3>5, <4>2, MovesKeep DEF Inv
    <3>6. CASE Ends
      <4>1. UNCHANGED <<binlog, changelog, late>> /\ ~Followed'
        BY <3>1, <3>6, EndsIs DEF tables
      <4> QED BY <3>3, <4>1 DEF OnceInv
    <3> QED BY <1>2, <3>4, <3>5, <3>6, MovesOrEnds DEF Next
  <2> QED BY <2>1, <2>2 DEF IInv
<1> QED BY <1>1, <1>2

\* Whatever a drill does to its jobs, what is said of them above holds until it
\* has failed or cleaned up.
THEOREM Invariant == Spec => []IInv
BY InitInv, NextInv, PTL DEF Spec

-----------------------------------------------------------------------------
(* What follows from it. *)

\* A change that is nowhere twice is there once at most.
LEMMA OneCopy ==
  ASSUME NEW i, \A m, n \in DOMAIN changelog : changelog[m].change = changelog[n].change => m = n
  PROVE  Copies(i) <= 1
<1> DEFINE S == {n \in DOMAIN changelog : changelog[n].change = i}
<1>1. CASE S = {}
  BY <1>1, FS_EmptySet DEF Copies
<1>2. CASE S # {}
  <2>1. PICK n \in S : TRUE
    BY <1>2
  <2>2. S = {n}
    BY <2>1
  <2> QED BY <2>2, FS_Singleton DEF Copies
<1> QED BY <1>1, <1>2

\* In every drill that gives up when it cannot cancel the jobs it finds, no
\* change is published twice, whatever fails and whenever the jobs are stopped
\* and restored, unless a canceled job publishes behind the back of the restored
\* one; and only the drill's own jobs publish.
THEOREM PublishedOnce == Spec => []WrittenOnce
<1>1. IInv => WrittenOnce
  <2> SUFFICES ASSUME IInv, drill \notin Careless
               PROVE  /\ late = {} => \A i \in DOMAIN binlog : Copies(i) <= 1
                      /\ \A i \in DOMAIN changelog : changelog[i].by \in Own
    BY DEF WrittenOnce
  <2>1. drill \in Judged
    BY DrillsAssumption DEF IInv, Script, Careless, Judged, Fault, Restoring
  <2>2. ~LeftActive
    BY DEF LeftActive
  <2>3. OnceInv
    BY <2>1, <2>2 DEF IInv
  <2>4. ASSUME late = {}, NEW i \in DOMAIN binlog PROVE Copies(i) <= 1
    BY <2>3, <2>4, OneCopy DEF OnceInv
  <2> QED BY <2>3, <2>4 DEF OnceInv
<1> QED BY <1>1, Invariant, PTL

\* While the small-file drill measures and rewrites the files of the current
\* table, nothing is published to it: the job was canceled when it had nothing
\* left to publish, although it may not be gone.
THEOREM RewritesAlone == Spec => RewriteAlone
<1> DEFINE Measuring ==
      /\ drill = "small_file_rewrite" /\ Step.do \in {"rewrite", "measure_after", "verdict"}
      /\ job["left"].status \notin {"RUNNING", "RESTARTING"}
           Alone == current' = current /\ (dataFiles' = dataFiles \/ At("rewrite"))
<1>1. IInv /\ [Next]_vars => [Measuring => Alone]_vars
  <2> SUFFICES ASSUME IInv, Next, Measuring PROVE Alone
    BY DEF Alone
  <2>1. drill = Rewriting /\ drill \in Judged /\ drill \notin Fault /\ drill \notin Restoring
    BY DEF Rewriting, Judged, Fault, Restoring
  <2>2. ScriptInv /\ (Followed => Inv)
    BY <2>1 DEF IInv, LeftActive
  <2>3. pc > 14 /\ pc \in Nat /\ Step.do \in {"rewrite", "measure_after", "verdict"}
    BY <2>1, <2>2, RewritePlace
  <2>4. CASE Followed /\ SystemStep
    <3>1. /\ F.pend["current"] = {} /\ F.status \in {"absent", "CANCELING"} /\ R = NoJob
          /\ job["left"].notify = {} /\ job["left"].recover = {} /\ TypeInv
      BY <2>1, <2>2, <2>3, <2>4, Positions
      DEF Inv, FirstInv, LeftInv, RestoredInv, RewriteInv
    <3>2. ASSUME NEW j \in Name, NEW s \in Sink, Recover(j, s) PROVE Alone
      <4>1. j = "restored" \/ j = "left"
        BY <3>1, <3>2 DEF Recover, F, Name
      <4> QED BY <3>1, <3>2, <4>1, EmptyIsSound DEF Recover, R
    <3>3. ASSUME NEW j \in Name, NEW s \in Sink, Commit(j, s) PROVE Alone
      <4>1. j = "first"
        BY <3>1, <3>3, EmptyIsSound DEF Commit, Told, R, Name
      <4>2. CASE Opened(j)
        <5>1. PICK files : Publish(j, s, files, job[j].done.id) /\ files \subseteq job[j].pend[s]
          BY <3>3, <4>2 DEF Commit
        <5>2. CASE s = "changelog"
          BY <5>1, <5>2 DEF Publish, Alone
        <5>3. CASE s = "current"
          <6>1. files = {}
            BY <3>1, <4>1, <5>1, <5>3 DEF F
          <6>2. Held(files) = {}
            BY <6>1 DEF Held
          <6> QED BY <3>1, <5>1, <5>3, <6>2, PublishCurrent DEF Alone
        <5> QED BY <5>2, <5>3 DEF Sink
      <4>3. CASE ~Opened(j)
        BY <3>3, <4>3 DEF Commit, tables, Alone
      <4> QED BY <4>2, <4>3
    <3> QED BY <2>4, <3>2, <3>3
        DEF SystemStep, JobStarts, Restart, Strikes, Trigger, CompleteCheckpoint, ToldFault,
            JobEnds, DeleteSubsumed, DiscardAborted, ClusterStarts, tables, Alone
  <2>5. CASE DrillStep \/ StepRaises
    <3>1. ~ResetTables
      BY <2>3 DEF ResetTables, At
    <3>2. CASE Rewrite
      BY <3>2 DEF Rewrite, Alone
    <3>3. CASE ~Rewrite
      <4>1. UNCHANGED tables
        BY <2>5, <3>1, <3>3
        DEF DrillStep, StepRaises, CancelListed, Submit, TakeSavepoint, CancelJob,
            RestartJobManager, SubmitRestored, Raise, Write, Await, ReadSomething, Audit,
            Sample, Conclude, Finally, system
      <4> QED BY <4>1 DEF tables, Alone
    <3> QED BY <3>2, <3>3
  <2> QED BY <2>4, <2>5 DEF Next
<1> QED BY <1>1, Invariant, PTL DEF Spec, RewriteAlone

-----------------------------------------------------------------------------
(* The ledger: what the steps of a drill write to the source. *)

Cur == "current"
Metrics == "checkpoint_metrics"
Audited == Fault \cup (Restoring \ {"smoke"})
Updating == Fault \cup Restoring

\* The steps that write, and the one that audits, by number.
UpdatesAt(d) == IF d = "smoke" THEN 12 ELSE 13
DeletesAt(d) == UpdatesAt(d) + 2
AuditsAt(d) == IF d \in Fault THEN 17 ELSE 18

\* Rows inserted, and event ids given, up to step n.
RowsAt(d, n) ==
  CASE d \in Fault -> IF n <= 6 THEN 0 ELSE IF n <= 9 THEN 2 ELSE 4
    [] d = "smoke" -> IF n <= 6 THEN 0 ELSE 2
    [] d \in Restoring \ {"smoke"} -> IF n <= 6 THEN 0 ELSE IF n <= 16 THEN 3 ELSE 4
    [] d = Rewriting -> IF n <= 7 THEN 0 ELSE IF n <= 9 THEN 1 ELSE 2
    [] d = Metrics -> IF n <= 7 THEN 0 ELSE 3
Updated(d, n) == d \in Updating /\ n > UpdatesAt(d)
Deleted(d, n) == d \in Updating /\ n > DeletesAt(d)
EventsAt(d, n) == RowsAt(d, n) + IF Updated(d, n) THEN 2 ELSE 0

\* Row r of the source when it has the first n changes of b.
RowIn(b, n, r) ==
  LET of == {i \in 1 .. n : b[i].row = r} IN
  IF of = {} THEN 0 ELSE b[CHOOSE i \in of : \A j \in of : j <= i].after

\* The changes that insert, and the event ids that are given.
Born(b) == {i \in 1 .. Len(b) : b[i].before = 0}
Afters(b) == {b[i].after : i \in 1 .. Len(b)} \ {0}

\* A source of k rows and e events, updated or not, and row 1 deleted or not.
LedgerOf(b, k, e, updated, deleted) ==
  /\ b \in Seq(Change)
  /\ Cardinality(Born(b)) = k
  /\ Afters(b) = 1 .. e
  /\ \A i \in 1 .. Len(b) : b[i].row <= k
  /\ \A r \in 1 .. k : RowIn(b, Len(b), r) = 0 => r = 1 /\ deleted
  /\ \A i, m \in 1 .. Len(b) : b[i].after = b[m].after => i = m
  /\ \A i \in 1 .. Len(b) :
       /\ i = 1 => b[i].row = 1 /\ b[i].after # 0
       /\ b[i].after = 0 => b[i].row = 1 /\ deleted
       /\ IsUpdate(b[i]) => updated
Ledger ==
  LedgerOf(binlog, RowsAt(drill, pc), EventsAt(drill, pc), Updated(drill, pc),
           Deleted(drill, pc))

-----------------------------------------------------------------------------
(* The scripts to their ends. *)

\* Step n of s updates, or is where its audit starts.
IsUpdating(s, n) ==
  s[n].do = "update" /\ s[n + 1].do = "await_statuses" /\ s[n + 2].do = "delete"
IsAudited(s, n) ==
  /\ s[n].do = "read_table" /\ s[n + 1].do = "await_audit" /\ s[n + 2].do = "read_table"
  /\ s[n + 3].do = "report" /\ s[n + 4].do = "verdict"

\* A drill that reconciles ends with its audit,
LEMMA ReconcileSteps ==
  Stretch(Reconcile) /\ Len(Reconcile) = 5 /\ IsAudited(Reconcile, 1)
BY Steps DEF Reconcile, Stretch, Elements, IsAudited

\* updates the first two rows and waits for that before it goes on,
LEMMA UpdateSteps ==
  ASSUME NEW s, NEW u, NEW t, NEW q, IsJoin(u, s, Updates), IsJoin(q, u, t),
         Len(s) \in Nat, Len(t) \in Nat, Len(t) >= 1, t[1].do = "delete"
  PROVE  /\ Len(q) = Len(s) + 2 + Len(t) /\ \A i \in 1 .. Len(s) : q[i] = s[i]
         /\ q[Len(s) + 1].do = "update" /\ q[Len(s) + 2].do = "await_statuses"
         /\ q[Len(s) + 3].do = "delete"
         /\ \A i \in 1 .. Len(t) : q[Len(s) + 2 + i] = t[i]
<1> DEFINE n == Len(s)
<1>1. /\ Len(u) = n + 2 /\ \A i \in 1 .. n : u[i] = s[i]
      /\ \A i \in 1 .. 2 : u[n + i] = Updates[i]
  BY UpdatesAre DEF IsJoin
<1>2. /\ Len(q) = (n + 2) + Len(t) /\ \A i \in 1 .. n + 2 : q[i] = u[i]
      /\ \A i \in 1 .. Len(t) : q[n + 2 + i] = t[i]
  BY <1>1 DEF IsJoin
<1>3. u[n + 1] = Updates[1] /\ u[n + 2] = Updates[2]
  BY <1>1
<1>4. /\ \A i \in 1 .. n : q[i] = s[i]
      /\ q[n + 1] = Updates[1] /\ q[n + 2] = Updates[2] /\ q[n + 3] = t[1]
  <2>1. q[n + 2 + 1] = t[1]
    BY <1>2
  <2> QED BY <1>1, <1>2, <1>3, <2>1
<1> QED BY <1>2, <1>4, UpdatesAre

\* A drill that reconciles has its audit behind all it writes.
LEMMA AuditSteps ==
  ASSUME NEW s, NEW q, IsJoin(q, s, Reconcile), NEW n \in Nat, Len(s) = n
  PROVE  Len(q) = n + 5 /\ (\A i \in 1 .. n : q[i] = s[i]) /\ IsAudited(q, n + 1)
<1>1. /\ Len(q) = n + 5 /\ \A i \in 1 .. n : q[i] = s[i]
      /\ \A i \in 1 .. 5 : q[n + i] = Reconcile[i]
  BY ReconcileSteps DEF IsJoin
<1>2. /\ q[n + 1] = Reconcile[1] /\ q[(n + 1) + 1] = Reconcile[2]
      /\ q[(n + 1) + 2] = Reconcile[3] /\ q[(n + 1) + 3] = Reconcile[4]
      /\ q[(n + 1) + 4] = Reconcile[5]
  <2>1. /\ q[n + 1] = Reconcile[1] /\ q[n + 2] = Reconcile[2] /\ q[n + 3] = Reconcile[3]
        /\ q[n + 4] = Reconcile[4] /\ q[n + 5] = Reconcile[5]
    BY <1>1
  <2>2. /\ (n + 1) + 1 = n + 2 /\ (n + 1) + 2 = n + 3 /\ (n + 1) + 3 = n + 4
        /\ (n + 1) + 4 = n + 5
    OBVIOUS
  <2> QED BY <2>1, <2>2
<1>3. /\ Reconcile[1].do = "read_table" /\ Reconcile[2].do = "await_audit"
      /\ Reconcile[3].do = "read_table" /\ Reconcile[4].do = "report"
      /\ Reconcile[5].do = "verdict"
  BY Steps DEF Reconcile
<1>4. IsAudited(q, n + 1)
  BY <1>2, <1>3 DEF IsAudited
<1> QED BY <1>1, <1>4

\* The fault drills, step by step behind the opening.
IsFaultDrill(s) ==
  /\ Len(s) = 20 /\ IsFilling(s, 2) /\ s[8].do = "require_checkpoint"
  /\ s[9].do = "insert" /\ s[9].n = 2 /\ s[10].do = "await_marker"
  /\ s[11].do = "await_job" /\ s[12].do = "await_rows"
  /\ IsUpdating(s, 13) /\ IsAudited(s, 16)

\* The fault drills have these steps,
LEMMA FaultSteps20 == IsFaultDrill(FaultDrill)
<1> DEFINE b == <<Do("require_checkpoint"), DoN("insert", 2), Do("await_marker"),
                  Do("await_job"), DoN("await_rows", 4)>>
           e == <<Do("delete")>>
           q2 == Opening \o Insert(2, 2)
           q3 == q2 \o b
           q4 == q3 \o Updates
           q5 == q4 \o e
           q6 == q5 \o Reconcile
<1>1. /\ Stretch(b) /\ Len(b) = 5 /\ b[1].do = "require_checkpoint"
      /\ b[2].do = "insert" /\ b[2].n = 2 /\ b[3].do = "await_marker"
      /\ b[4].do = "await_job" /\ b[5].do = "await_rows"
  BY Steps DEF Stretch, Elements
<1>2. Stretch(e) /\ Len(e) = 1 /\ e[1].do = "delete"
  BY Steps DEF Stretch, Elements
<1> HIDE DEF b, e
<1>3. Stretch(q2) /\ Len(q2) = 7 /\ IsFilling(q2, 2)
  BY FillingIs
<1> HIDE DEF q2
<1>4. IsJoin(q3, q2, b) /\ Stretch(q3)
  BY <1>1, <1>3, Join
<1> HIDE DEF q3
<1>5. IsJoin(q4, q3, Updates) /\ Stretch(q4)
  BY <1>4, UpdatesAre, Join
<1> HIDE DEF q4
<1>6. IsJoin(q5, q4, e) /\ Stretch(q5)
  BY <1>5, <1>2, Join
<1> HIDE DEF q5
<1>7. IsJoin(q6, q5, Reconcile)
  BY <1>6, ReconcileIs, Join
<1> HIDE DEF q6
<1>8. /\ Len(q3) = 12 /\ \A i \in 1 .. 7 : q3[i] = q2[i]
      /\ \A i \in 1 .. 5 : q3[7 + i] = b[i]
  BY <1>1, <1>3, <1>4 DEF IsJoin
<1>9. /\ Len(q5) = 15 /\ \A i \in 1 .. 12 : q5[i] = q3[i]
      /\ IsUpdating(q5, 13)
  <2>1. /\ Len(q5) = Len(q3) + 2 + Len(e) /\ \A i \in 1 .. Len(q3) : q5[i] = q3[i]
        /\ q5[Len(q3) + 1].do = "update" /\ q5[Len(q3) + 2].do = "await_statuses"
        /\ q5[Len(q3) + 3].do = "delete"
        /\ \A i \in 1 .. Len(e) : q5[Len(q3) + 2 + i] = e[i]
    <3>1. Len(q3) \in Nat /\ Len(e) \in Nat /\ Len(e) >= 1 /\ e[1].do = "delete"
      BY <1>2, <1>5, <1>6, <1>8
    <3> QED BY <1>2, <1>5, <1>6, <3>1, UpdateSteps
  <2> QED BY <2>1, <1>2, <1>5, <1>6, <1>8 DEF IsUpdating
<1>10. Len(q6) = 20 /\ (\A i \in 1 .. 15 : q6[i] = q5[i]) /\ IsAudited(q6, 16)
  <2>1. Len(q6) = 15 + 5 /\ (\A i \in 1 .. 15 : q6[i] = q5[i]) /\ IsAudited(q6, 15 + 1)
    BY <1>7, <1>9, AuditSteps
  <2> QED BY <2>1
<1>11. /\ \A i \in 1 .. 12 : q6[i] = q3[i]
       /\ q3[8] = b[1] /\ q3[9] = b[2] /\ q3[10] = b[3] /\ q3[11] = b[4] /\ q3[12] = b[5]
  <2>1. /\ q3[7 + 1] = b[1] /\ q3[7 + 2] = b[2] /\ q3[7 + 3] = b[3] /\ q3[7 + 4] = b[4]
        /\ q3[7 + 5] = b[5]
    BY <1>8
  <2> QED BY <2>1, <1>9, <1>10
<1>12. IsFilling(q6, 2)
  BY <1>3, <1>8, <1>11 DEF IsFilling, IsOpening
<1>13. IsUpdating(q6, 13)
  BY <1>9, <1>10 DEF IsUpdating
<1>14. q6 = FaultDrill
  BY DEF FaultDrill, Opening, b, e, q2, q3, q4, q5, q6
<1>15. IsFaultDrill(q6)
  BY <1>1, <1>10, <1>11, <1>12, <1>13 DEF IsFaultDrill
<1> QED BY <1>14, <1>15

\* The drills that restore a job, behind the restoration.
IsRestoreDrill(s) ==
  /\ Len(s) = 21 /\ s[6].n = 3 /\ s[7].n = 3 /\ s[12].do = "await_restored"
  /\ IsUpdating(s, 13) /\ s[16].do = "insert" /\ s[16].n = 1 /\ IsAudited(s, 17)

\* and so do these, whatever the stop is,
LEMMA RestoreSteps21 ==
  ASSUME NEW stop, IsStop(stop) PROVE IsRestoreDrill(RestoreDrill(stop))
<1> DEFINE b == <<Do("require_checkpoint")>>
           c == <<Do("await_restored")>>
           e == <<Do("delete"), DoN("insert", 1)>>
           q2 == Opening \o Insert(3, 3)
           q3 == q2 \o b
           q4 == q3 \o stop
           q5 == q4 \o c
           q6 == q5 \o Updates
           q7 == q6 \o e
           q8 == q7 \o Reconcile
<1>1. Stretch(b) /\ Len(b) = 1
  BY Steps DEF Stretch, Elements
<1>2. Stretch(c) /\ Len(c) = 1 /\ c[1].do = "await_restored"
  BY Steps DEF Stretch, Elements
<1>3. Stretch(e) /\ Len(e) = 2 /\ e[1].do = "delete" /\ e[2].do = "insert" /\ e[2].n = 1
  BY Steps DEF Stretch, Elements
<1> HIDE DEF b, c, e
<1>4. Stretch(q2) /\ Len(q2) = 7 /\ IsFilling(q2, 3)
  BY FillingIs
<1> HIDE DEF q2
<1>5. Stretch(stop) /\ Len(stop) = 3
  BY DEF IsStop
<1>6. IsJoin(q3, q2, b) /\ Stretch(q3)
  BY <1>1, <1>4, Join
<1> HIDE DEF q3
<1>7. IsJoin(q4, q3, stop) /\ Stretch(q4)
  BY <1>5, <1>6, Join
<1> HIDE DEF q4
<1>8. IsJoin(q5, q4, c) /\ Stretch(q5)
  BY <1>2, <1>7, Join
<1> HIDE DEF q5
<1>9. IsJoin(q6, q5, Updates) /\ Stretch(q6)
  BY <1>8, UpdatesAre, Join
<1> HIDE DEF q6
<1>10. IsJoin(q7, q6, e) /\ Stretch(q7)
  BY <1>9, <1>3, Join
<1> HIDE DEF q7
<1>11. IsJoin(q8, q7, Reconcile)
  BY <1>10, ReconcileIs, Join
<1> HIDE DEF q8
<1>12. Len(q3) = 8 /\ \A i \in 1 .. 7 : q3[i] = q2[i]
  BY <1>1, <1>4, <1>6 DEF IsJoin
<1>13. Len(q4) = 11 /\ \A i \in 1 .. 8 : q4[i] = q3[i]
  BY <1>5, <1>7, <1>12 DEF IsJoin
<1>14. Len(q5) = 12 /\ (\A i \in 1 .. 11 : q5[i] = q4[i]) /\ q5[12] = c[1]
  <2>1. Len(q5) = 12 /\ (\A i \in 1 .. 11 : q5[i] = q4[i]) /\ q5[11 + 1] = c[1]
    BY <1>2, <1>8, <1>13 DEF IsJoin
  <2> QED BY <2>1
<1>15. /\ Len(q7) = 16 /\ \A i \in 1 .. 12 : q7[i] = q5[i]
       /\ IsUpdating(q7, 13) /\ q7[16] = e[2]
  <2>1. /\ Len(q7) = Len(q5) + 2 + Len(e) /\ \A i \in 1 .. Len(q5) : q7[i] = q5[i]
        /\ q7[Len(q5) + 1].do = "update" /\ q7[Len(q5) + 2].do = "await_statuses"
        /\ q7[Len(q5) + 3].do = "delete"
        /\ \A i \in 1 .. Len(e) : q7[Len(q5) + 2 + i] = e[i]
    <3>1. Len(q5) \in Nat /\ Len(e) \in Nat /\ Len(e) >= 1 /\ e[1].do = "delete"
      BY <1>3, <1>9, <1>10, <1>14
    <3>2. IsJoin(q6, q5, Updates) /\ IsJoin(q7, q6, e)
      BY <1>9, <1>10
    <3> QED BY <3>1, <3>2, UpdateSteps
  <2>2. q7[12 + 2 + 2] = e[2]
    BY <2>1, <1>3, <1>9, <1>10, <1>14
  <2> QED BY <2>1, <2>2, <1>3, <1>9, <1>10, <1>14 DEF IsUpdating
<1>16. Len(q8) = 21 /\ (\A i \in 1 .. 16 : q8[i] = q7[i]) /\ IsAudited(q8, 17)
  <2>1. Len(q8) = 16 + 5 /\ (\A i \in 1 .. 16 : q8[i] = q7[i]) /\ IsAudited(q8, 16 + 1)
    BY <1>11, <1>15, AuditSteps
  <2> QED BY <2>1
<1>17. q8[6] = q2[6] /\ q8[7] = q2[7] /\ q8[12] = c[1] /\ q8[16] = e[2]
  BY <1>12, <1>13, <1>14, <1>15, <1>16
<1>18. IsUpdating(q8, 13)
  BY <1>15, <1>16 DEF IsUpdating
<1>19. q8 = RestoreDrill(stop)
  BY DEF RestoreDrill, Opening, b, c, e, q2, q3, q4, q5, q6, q7, q8
<1>20. IsRestoreDrill(q8)
  BY <1>2, <1>3, <1>4, <1>16, <1>17, <1>18 DEF IsRestoreDrill, IsFilling
<1> QED BY <1>19, <1>20

\* The smoke, which waits for the tables and compares them.
IsSmokeDrill(s) ==
  /\ Len(s) = 19 /\ s[6].n = 2 /\ s[7].n = 2 /\ s[11].do = "await_restored"
  /\ IsUpdating(s, 12) /\ s[15].do = "await_statuses" /\ s[16].do = "read_source"
  /\ s[17].do = "read_table" /\ s[18].do = "await_changelog" /\ s[19].do = "verdict"

\* the smoke these,
LEMMA SmokeSteps19 == IsSmokeDrill(Smoke)
<1> DEFINE b == <<Do("savepoint"), Do("cancel"), Do("submit_restored"), Do("await_restored")>>
           c == <<Do("delete"), Do("await_statuses"), Do("read_source"), Do("read_table"),
                  Do("await_changelog"), Do("verdict")>>
           q2 == Opening \o Insert(2, 2)
           q3 == q2 \o b
           q4 == q3 \o Updates
           q5 == q4 \o c
<1>1. Stretch(b) /\ Len(b) = 4 /\ b[4].do = "await_restored"
  BY Steps DEF Stretch, Elements
<1>2. /\ Stretch(c) /\ Len(c) = 6 /\ c[1].do = "delete" /\ c[2].do = "await_statuses"
      /\ c[3].do = "read_source" /\ c[4].do = "read_table" /\ c[5].do = "await_changelog"
      /\ c[6].do = "verdict"
  BY Steps DEF Stretch, Elements
<1> HIDE DEF b, c
<1>3. Stretch(q2) /\ Len(q2) = 7 /\ IsFilling(q2, 2)
  BY FillingIs
<1> HIDE DEF q2
<1>4. IsJoin(q3, q2, b) /\ Stretch(q3)
  BY <1>1, <1>3, Join
<1> HIDE DEF q3
<1>5. IsJoin(q4, q3, Updates) /\ Stretch(q4)
  BY <1>4, UpdatesAre, Join
<1> HIDE DEF q4
<1>6. IsJoin(q5, q4, c)
  BY <1>2, <1>5, Join
<1> HIDE DEF q5
<1>7. /\ Len(q3) = 11 /\ \A i \in 1 .. 7 : q3[i] = q2[i]
      /\ q3[11] = b[4]
  <2>1. /\ Len(q3) = 11 /\ \A i \in 1 .. 7 : q3[i] = q2[i]
        /\ q3[7 + 4] = b[4]
    BY <1>1, <1>3, <1>4 DEF IsJoin
  <2> QED BY <2>1
<1>8. /\ Len(q5) = 19 /\ \A i \in 1 .. 11 : q5[i] = q3[i]
      /\ IsUpdating(q5, 12) /\ \A i \in 1 .. 6 : q5[13 + i] = c[i]
  <2>1. /\ Len(q5) = Len(q3) + 2 + Len(c) /\ \A i \in 1 .. Len(q3) : q5[i] = q3[i]
        /\ q5[Len(q3) + 1].do = "update" /\ q5[Len(q3) + 2].do = "await_statuses"
        /\ q5[Len(q3) + 3].do = "delete"
        /\ \A i \in 1 .. Len(c) : q5[Len(q3) + 2 + i] = c[i]
    <3>1. Len(q3) \in Nat /\ Len(c) \in Nat /\ Len(c) >= 1 /\ c[1].do = "delete"
      BY <1>2, <1>5, <1>6, <1>7
    <3>2. IsJoin(q4, q3, Updates) /\ IsJoin(q5, q4, c)
      BY <1>5, <1>6
    <3> QED BY <3>1, <3>2, UpdateSteps
  <2>2. \A i \in 1 .. 6 : q5[11 + 2 + i] = c[i]
    BY <2>1, <1>2, <1>5, <1>6, <1>7
  <2> QED BY <2>1, <2>2, <1>2, <1>5, <1>6, <1>7 DEF IsUpdating
<1>9. /\ q5[15] = c[2] /\ q5[16] = c[3] /\ q5[17] = c[4] /\ q5[18] = c[5] /\ q5[19] = c[6]
  <2>1. /\ q5[13 + 2] = c[2] /\ q5[13 + 3] = c[3] /\ q5[13 + 4] = c[4]
        /\ q5[13 + 5] = c[5] /\ q5[13 + 6] = c[6]
    BY <1>8
  <2> QED BY <2>1
<1>10. q5[6] = q2[6] /\ q5[7] = q2[7] /\ q5[11] = b[4]
  BY <1>7, <1>8
<1>11. q5 = Smoke
  BY DEF Smoke, Opening, b, c, q2, q3, q4, q5
<1>12. IsSmokeDrill(q5)
  BY <1>1, <1>2, <1>3, <1>8, <1>9, <1>10 DEF IsSmokeDrill, IsFilling
<1> QED BY <1>11, <1>12

\* The metrics run.
IsMetrics(s) ==
  /\ Stretch(s) /\ Len(s) = 9 /\ IsOpening(s) /\ s[6].do = "require_checkpoint"
  /\ s[7].do = "insert" /\ s[7].n = 3 /\ s[8].do = "sample" /\ s[9].do = "verdict"

\* and the metrics run these.
LEMMA MetricsSteps == IsMetrics(CheckpointMetrics)
<1> DEFINE t == <<Do("submit"), Do("await_job"), Do("require_checkpoint"),
                  DoN("insert", 3), Do("sample"), Do("verdict")>>
           q == Reset \o t
<1>1. /\ Stretch(Reset) /\ Len(Reset) = 3 /\ Reset[1].do = "cancel_listed"
      /\ Reset[2].do = "await_cluster" /\ Reset[3].do = "reset_tables"
  BY Steps DEF Reset, Stretch, Elements
<1>2. /\ Stretch(t) /\ Len(t) = 6 /\ t[1].do = "submit" /\ t[2].do = "await_job"
      /\ t[3].do = "require_checkpoint" /\ t[4].do = "insert" /\ t[4].n = 3
      /\ t[5].do = "sample" /\ t[6].do = "verdict"
  BY Steps DEF Stretch, Elements
<1> HIDE DEF t
<1>3. IsJoin(q, Reset, t)
  BY <1>1, <1>2, Join
<1> HIDE DEF q
<1>4. /\ Stretch(q) /\ Len(q) = 9 /\ \A i \in 1 .. 3 : q[i] = Reset[i]
      /\ \A i \in 1 .. 6 : q[3 + i] = t[i]
  BY <1>1, <1>2, <1>3 DEF IsJoin
<1>5. /\ q[3 + 1] = t[1] /\ q[3 + 2] = t[2] /\ q[3 + 3] = t[3] /\ q[3 + 4] = t[4]
      /\ q[3 + 5] = t[5] /\ q[3 + 6] = t[6] /\ q[1] = Reset[1] /\ q[2] = Reset[2]
      /\ q[3] = Reset[3]
  BY <1>4
<1>6. IsMetrics(q)
  BY <1>1, <1>2, <1>4, <1>5 DEF IsMetrics, IsOpening
<1>7. q = CheckpointMetrics
  BY DEF CheckpointMetrics, q, t
<1> QED BY <1>6, <1>7

\* Which script a drill runs.
LEMMA ScriptsListed ==
  ASSUME NEW d \in Drills
  PROVE  /\ d \in Fault \cup Restoring \cup {Rewriting, Metrics}
         /\ d \in Fault => IsFaultDrill(Script[d])
         /\ d \in Restoring \ {"smoke"} => IsRestoreDrill(Script[d])
         /\ d = "smoke" => IsSmokeDrill(Script[d])
         /\ d = Metrics => IsMetrics(Script[d])
         /\ Stretch(Script[d])
<1>1. d \in Fault \cup Restoring \cup {Rewriting, Metrics}
  BY DrillsAssumption DEF Script, Fault, Restoring, Rewriting, Metrics
<1>2. d \in Fault => IsFaultDrill(Script[d]) /\ Stretch(Script[d])
  BY FaultSteps20, FaultDrillIs DEF IsFramed, Fault, Script, TaskCrash, SinkCommitFault
<1>3. d = "checkpoint_restore" => IsRestoreDrill(Script[d]) /\ Stretch(Script[d])
  <2> DEFINE s == <<Do("cancel"), Do("find_retained"), Do("submit_restored")>>
  <2>1. IsStop(s)
    BY Steps DEF IsStop, Stretch, Elements, Rest, InsertsRows, Seams, Stops
  <2>2. Script["checkpoint_restore"] = RestoreDrill(s)
    BY DEF Script, CheckpointRestore
  <2> HIDE DEF s
  <2>3. IsRestore(RestoreDrill(s), s)
    BY <2>1, RestoreDrillIs
  <2> QED BY <2>1, <2>2, <2>3, RestoreSteps21 DEF IsRestore, IsFramed
<1>4. d = "jobmanager_restart" => IsRestoreDrill(Script[d]) /\ Stretch(Script[d])
  <2> DEFINE s == <<Do("restart_jobmanager"), Do("await_cluster"), Do("submit_restored")>>
  <2>1. IsStop(s)
    BY Steps DEF IsStop, Stretch, Elements, Rest, InsertsRows, Seams, Stops
  <2>2. Script["jobmanager_restart"] = RestoreDrill(s)
    BY DEF Script, JobManagerRestart
  <2> HIDE DEF s
  <2>3. IsRestore(RestoreDrill(s), s)
    BY <2>1, RestoreDrillIs
  <2> QED BY <2>1, <2>2, <2>3, RestoreSteps21 DEF IsRestore, IsFramed
<1>5. d = "savepoint_restore" => IsRestoreDrill(Script[d]) /\ Stretch(Script[d])
  <2> DEFINE s == <<Do("savepoint"), Do("cancel"), Do("submit_restored")>>
  <2>1. IsStop(s)
    BY Steps DEF IsStop, Stretch, Elements, Rest, InsertsRows, Seams, Stops
  <2>2. Script["savepoint_restore"] = RestoreDrill(s)
    BY DEF Script, SavepointRestore
  <2> HIDE DEF s
  <2>3. IsRestore(RestoreDrill(s), s)
    BY <2>1, RestoreDrillIs
  <2> QED BY <2>1, <2>2, <2>3, RestoreSteps21 DEF IsRestore, IsFramed
<1>6. d = "smoke" => IsSmokeDrill(Script[d]) /\ Stretch(Script[d])
  BY SmokeSteps19, SmokeIs DEF Script, IsSmoke, IsFramed
<1>7. d = Metrics => IsMetrics(Script[d]) /\ Stretch(Script[d])
  BY MetricsSteps DEF Script, Metrics, IsMetrics
<1>8. d = Rewriting => Stretch(Script[d])
  BY RewriteIs DEF Script, Rewriting, IsFramed
<1> QED BY <1>1, <1>2, <1>3, <1>4, <1>5, <1>6, <1>7, <1>8 DEF Restoring

\* What step i of drill d does to the ledger.
Booked(d, i) ==
  /\ i \in Nat /\ Op(d, i) # "verdict" => i + 1 \in 1 .. Len(Script[d])
  /\ Op(d, i) = "insert" =>
       /\ Script[d][i].n \in 1 .. 3 /\ RowsAt(d, i + 1) = RowsAt(d, i) + Script[d][i].n
       /\ i >= 6 /\ d = Metrics => i = 7
  /\ Op(d, i) # "insert" => RowsAt(d, i + 1) = RowsAt(d, i)
  /\ Op(d, i) = "update" <=> d \in Updating /\ i = UpdatesAt(d)
  /\ Op(d, i) = "delete" <=> d \in Updating /\ i = DeletesAt(d)
  /\ Op(d, i) = "await_audit" <=> d \in Audited /\ i = AuditsAt(d)
  /\ Op(d, i) = "report" <=> d \in Audited /\ i = AuditsAt(d) + 2
  /\ Op(d, i) = "sample" <=> d = Metrics /\ i = 8
  /\ Op(d, i) = "verdict" <=> i = Len(Script[d])
  /\ Op(d, i) = "reset_tables" <=> i = 3
  /\ Op(d, i) = "submit" <=> i = 4
  /\ i <= 6 => RowsAt(d, i) = 0

\* The steps book what they do, by drill: those that make a job fail,
LEMMA FaultBooked ==
  ASSUME NEW d \in Fault, NEW i, IsFaultDrill(Script[d]), i \in 1 .. Len(Script[d])
  PROVE  Booked(d, i)
<1>1. i \in {1,2,3,4,5,6,7,8,9,10,11,12,13,14,15,16,17,18,19,20}
  BY DEF IsFaultDrill
<1>2. /\ Len(Script[d]) = 20 /\ Script[d][6].n = 2 /\ Script[d][9].n = 2
      /\ Op(d, 1) = "cancel_listed" /\ Op(d, 2) = "await_cluster" /\ Op(d, 3) = "reset_tables"
      /\ Op(d, 4) = "submit" /\ Op(d, 5) = "await_job" /\ Op(d, 6) = "insert"
      /\ Op(d, 7) = "await_rows" /\ Op(d, 8) = "require_checkpoint" /\ Op(d, 9) = "insert"
      /\ Op(d, 10) = "await_marker" /\ Op(d, 11) = "await_job" /\ Op(d, 12) = "await_rows"
      /\ Op(d, 13) = "update" /\ Op(d, 14) = "await_statuses" /\ Op(d, 15) = "delete"
      /\ Op(d, 16) = "read_table" /\ Op(d, 17) = "await_audit" /\ Op(d, 18) = "read_table"
      /\ Op(d, 19) = "report" /\ Op(d, 20) = "verdict"
  BY DEF IsFaultDrill, IsFilling, IsOpening, IsUpdating, IsAudited, Op
<1>3. /\ d \in Updating /\ d \in Audited /\ d # Metrics /\ UpdatesAt(d) = 13 /\ DeletesAt(d) = 15
      /\ AuditsAt(d) = 17
      /\ \A n \in Nat : RowsAt(d, n) = IF n <= 6 THEN 0 ELSE IF n <= 9 THEN 2 ELSE 4
  BY DEF Updating, Audited, Metrics, UpdatesAt, DeletesAt, AuditsAt, RowsAt, Fault, Restoring, Rewriting
<1> QED BY <1>1, <1>2, <1>3 DEF Booked

\* that restore one,
LEMMA RestoreBooked ==
  ASSUME NEW d \in Restoring \ {"smoke"}, NEW i, IsRestoreDrill(Script[d]),
         StopsAndRestores(d), Framed(d), i \in 1 .. Len(Script[d])
  PROVE  Booked(d, i)
<1>1. i \in {1,2,3,4,5,6,7,8,9,10,11,12,13,14,15,16,17,18,19,20,21}
  BY DEF IsRestoreDrill
<1>2. /\ Len(Script[d]) = 21 /\ Script[d][6].n = 3 /\ Script[d][16].n = 1
      /\ Op(d, 12) = "await_restored"
      /\ Op(d, 13) = "update" /\ Op(d, 14) = "await_statuses" /\ Op(d, 15) = "delete"
      /\ Op(d, 16) = "insert"
      /\ Op(d, 17) = "read_table" /\ Op(d, 18) = "await_audit" /\ Op(d, 19) = "read_table"
      /\ Op(d, 20) = "report" /\ Op(d, 21) = "verdict"
  BY DEF IsRestoreDrill, IsUpdating, IsAudited, Op
<1>3. /\ Op(d, 1) = "cancel_listed" /\ Op(d, 2) = "await_cluster" /\ Op(d, 3) = "reset_tables"
      /\ Op(d, 4) = "submit"
  BY DEF Framed
<1>4. /\ Op(d, 5) = "await_job" /\ Op(d, 6) = "insert" /\ Op(d, 7) = "await_rows"
      /\ Op(d, 8) = "require_checkpoint"
      /\ Op(d, 9) \in {"cancel", "restart_jobmanager", "savepoint"}
      /\ Op(d, 10) \in {"find_retained", "await_cluster", "cancel"}
      /\ Op(d, 11) = "submit_restored"
  BY DEF StopsAndRestores, Restoring, RestoresAt
<1>5. /\ d \in Updating /\ d \in Audited /\ d # Metrics /\ UpdatesAt(d) = 13 /\ DeletesAt(d) = 15
      /\ AuditsAt(d) = 18
      /\ \A n \in Nat : RowsAt(d, n) = IF n <= 6 THEN 0 ELSE IF n <= 16 THEN 3 ELSE 4
  BY DEF Updating, Audited, Metrics, UpdatesAt, DeletesAt, AuditsAt, RowsAt, Restoring, Fault,
         Rewriting
<1> QED BY <1>1, <1>2, <1>3, <1>4, <1>5 DEF Booked

\* the smoke,
LEMMA SmokeBooked ==
  ASSUME NEW d, d = "smoke", NEW i, IsSmokeDrill(Script[d]),
         StopsAndRestores(d), Framed(d), i \in 1 .. Len(Script[d])
  PROVE  Booked(d, i)
<1>1. i \in {1,2,3,4,5,6,7,8,9,10,11,12,13,14,15,16,17,18,19}
  BY DEF IsSmokeDrill
<1>2. /\ Len(Script[d]) = 19 /\ Script[d][6].n = 2
      /\ Op(d, 11) = "await_restored"
      /\ Op(d, 12) = "update" /\ Op(d, 13) = "await_statuses" /\ Op(d, 14) = "delete"
      /\ Op(d, 15) = "await_statuses" /\ Op(d, 16) = "read_source"
      /\ Op(d, 17) = "read_table" /\ Op(d, 18) = "await_changelog" /\ Op(d, 19) = "verdict"
  BY DEF IsSmokeDrill, IsUpdating, Op
<1>3. /\ Op(d, 1) = "cancel_listed" /\ Op(d, 2) = "await_cluster" /\ Op(d, 3) = "reset_tables"
      /\ Op(d, 4) = "submit"
  BY DEF Framed
<1>4. /\ Op(d, 5) = "await_job" /\ Op(d, 6) = "insert" /\ Op(d, 7) = "await_rows"
      /\ Op(d, 8) = "savepoint" /\ Op(d, 9) = "cancel" /\ Op(d, 10) = "submit_restored"
  BY DEF StopsAndRestores, RestoresAt
<1>5. /\ d \in Updating /\ d \notin Audited /\ d # Metrics /\ UpdatesAt(d) = 12 /\ DeletesAt(d) = 14
      /\ \A n \in Nat : RowsAt(d, n) = IF n <= 6 THEN 0 ELSE 2
  BY DEF Updating, Audited, Metrics, UpdatesAt, DeletesAt, AuditsAt, RowsAt, Restoring, Fault,
         Rewriting
<1> QED BY <1>1, <1>2, <1>3, <1>4, <1>5 DEF Booked

\* the one that rewrites files,
LEMMA RewriteBooked ==
  ASSUME NEW d, d = Rewriting, NEW i, Rewrites(d), Framed(d), i \in 1 .. Len(Script[d])
  PROVE  Booked(d, i)
<1>1. i \in {1,2,3,4,5,6,7,8,9,10,11,12,13,14,15,16,17}
  BY DEF Rewrites
<1>2. /\ Len(Script[d]) = 17
      /\ Op(d, 5) = "await_job" /\ Op(d, 6) = "require_checkpoint"
      /\ Op(d, 7) = "insert" /\ Op(d, 8) = "await_checkpoint_after"
      /\ Op(d, 9) = "insert" /\ Op(d, 10) = "await_checkpoint_after"
      /\ Op(d, 11) = "await_rows" /\ Op(d, 12) = "await_checkpoint_after"
      /\ Op(d, 13) = "cancel" /\ Op(d, 14) = "measure_before" /\ Op(d, 15) = "rewrite"
      /\ Op(d, 16) = "measure_after" /\ Op(d, 17) = "verdict"
      /\ Script[d][7].n = 1 /\ Script[d][9].n = 1
  BY DEF Rewrites
<1>3. /\ Op(d, 1) = "cancel_listed" /\ Op(d, 2) = "await_cluster" /\ Op(d, 3) = "reset_tables"
      /\ Op(d, 4) = "submit"
  BY DEF Framed
<1>5. /\ d \notin Updating /\ d \notin Audited /\ d # Metrics
      /\ \A n \in Nat : RowsAt(d, n) = IF n <= 7 THEN 0 ELSE IF n <= 9 THEN 1 ELSE 2
  BY DEF Updating, Audited, Metrics, RowsAt, Restoring, Fault, Rewriting
<1> QED BY <1>1, <1>2, <1>3, <1>5 DEF Booked

\* and the metrics run.
LEMMA MetricsBooked ==
  ASSUME NEW d, d = Metrics, NEW i, IsMetrics(Script[d]), i \in 1 .. Len(Script[d])
  PROVE  Booked(d, i)
<1>1. i \in {1,2,3,4,5,6,7,8,9}
  BY DEF IsMetrics
<1>2. /\ Len(Script[d]) = 9
      /\ Op(d, 1) = "cancel_listed" /\ Op(d, 2) = "await_cluster" /\ Op(d, 3) = "reset_tables"
      /\ Op(d, 4) = "submit" /\ Op(d, 5) = "await_job" /\ Op(d, 6) = "require_checkpoint"
      /\ Op(d, 7) = "insert" /\ Op(d, 8) = "sample" /\ Op(d, 9) = "verdict"
      /\ Script[d][7].n = 3
  BY DEF IsMetrics, IsOpening, Op
<1>5. /\ d \notin Updating /\ d \notin Audited
      /\ \A n \in Nat : RowsAt(d, n) = IF n <= 7 THEN 0 ELSE 3
  BY DEF Updating, Audited, Metrics, RowsAt, Restoring, Fault, Rewriting
<1> QED BY <1>1, <1>2, <1>5 DEF Booked

\* Every step of every drill books what it writes.
LEMMA AllBooked ==
  ASSUME NEW d \in Drills, NEW i \in 1 .. Len(Script[d]) PROVE Booked(d, i)
<1>1. /\ d \in Restoring => StopsAndRestores(d) /\ Framed(d)
      /\ d = Rewriting => Rewrites(d) /\ Framed(d)
  BY ScriptsLegal DEF Legal, Judged
<1> QED BY <1>1, ScriptsListed, FaultBooked, RestoreBooked, SmokeBooked, RewriteBooked,
           MetricsBooked DEF Restoring

-----------------------------------------------------------------------------
(* The ledger. *)

\* A row of the source is not there, or what the last change of it says.
LEMMA RowInIs ==
  ASSUME NEW b, NEW n \in Nat, NEW r
  PROVE  \/ (\A i \in 1 .. n : b[i].row # r) /\ RowIn(b, n, r) = 0
         \/ \E i \in 1 .. n : /\ b[i].row = r /\ \A m \in 1 .. n : b[m].row = r => m <= i
                              /\ RowIn(b, n, r) = b[i].after
<1> DEFINE of == {i \in 1 .. n : b[i].row = r}
<1>1. CASE of = {}
  BY <1>1 DEF RowIn
<1>2. CASE of # {}
  <2>1. of \subseteq 0 .. n
    OBVIOUS
  <2>2. \E i \in of : \A m \in of : m <= i
    BY <1>2, <2>1, Greatest
  <2> DEFINE last == CHOOSE i \in of : \A m \in of : m <= i
  <2>3. last \in of /\ \A m \in of : m <= last
    BY <2>2
  <2>4. RowIn(b, n, r) = b[last].after
    BY <1>2 DEF RowIn
  <2> HIDE DEF last
  <2> QED BY <2>3, <2>4
<1> QED BY <1>1, <1>2

\* The last change of a row says what it is,
LEMMA RowInLast ==
  ASSUME NEW b, NEW n \in Nat, NEW r, NEW i \in 1 .. n, b[i].row = r,
         \A m \in 1 .. n : b[m].row = r => m <= i
  PROVE  RowIn(b, n, r) = b[i].after
<1>1. PICK m \in 1 .. n : /\ b[m].row = r /\ \A l \in 1 .. n : b[l].row = r => l <= m
                          /\ RowIn(b, n, r) = b[m].after
  BY RowInIs
<1>2. m <= i /\ i <= m
  BY <1>1
<1>3. m = i
  BY <1>2
<1> QED BY <1>1, <1>3

\* and the same changes say the same of it.
LEMMA RowInSame ==
  ASSUME NEW b, NEW c, NEW n \in Nat, \A i \in 1 .. n : b[i] = c[i], NEW r
  PROVE  RowIn(b, n, r) = RowIn(c, n, r)
<1>1. CASE \A i \in 1 .. n : b[i].row # r
  <2>1. RowIn(b, n, r) = 0 /\ RowIn(c, n, r) = 0
    BY <1>1, RowInIs
  <2> QED BY <2>1
<1>2. CASE ~ \A i \in 1 .. n : b[i].row # r
  <2>1. PICK i \in 1 .. n : /\ b[i].row = r /\ \A l \in 1 .. n : b[l].row = r => l <= i
                            /\ RowIn(b, n, r) = b[i].after
    BY <1>2, RowInIs
  <2>2. RowIn(c, n, r) = c[i].after
    BY <2>1, RowInLast
  <2> QED BY <2>1, <2>2
<1> QED BY <1>1, <1>2

\* A row nobody writes stays what it was, one written is what it was written last.
LEMMA RowInMore ==
  ASSUME NEW b, NEW n \in Nat, NEW m \in Nat, n <= m, NEW r
  PROVE  (\A i \in n + 1 .. m : b[i].row # r) => RowIn(b, m, r) = RowIn(b, n, r)
<1> SUFFICES ASSUME \A i \in n + 1 .. m : b[i].row # r PROVE RowIn(b, m, r) = RowIn(b, n, r)
  OBVIOUS
<1>0. \A i \in 1 .. m : b[i].row = r => i \in 1 .. n
  OBVIOUS
<1>1. CASE \A i \in 1 .. n : b[i].row # r
  <2>1. RowIn(b, n, r) = 0
    BY <1>1, RowInIs
  <2>2. \A i \in 1 .. m : b[i].row # r
    BY <1>0, <1>1
  <2>3. RowIn(b, m, r) = 0
    BY <2>2, RowInIs
  <2> QED BY <2>1, <2>3
<1>2. CASE ~ \A i \in 1 .. n : b[i].row # r
  <2>1. PICK i \in 1 .. n : /\ b[i].row = r /\ \A l \in 1 .. n : b[l].row = r => l <= i
                            /\ RowIn(b, n, r) = b[i].after
    BY <1>2, RowInIs
  <2>2. i \in 1 .. m /\ \A l \in 1 .. m : b[l].row = r => l <= i
    BY <1>0, <2>1
  <2>3. RowIn(b, m, r) = b[i].after
    BY <2>1, <2>2, RowInLast
  <2> QED BY <2>1, <2>3
<1> QED BY <1>1, <1>2

\* What it is is an event.
LEMMA RowInEvent ==
  ASSUME NEW b \in Seq(Change), NEW n \in 0 .. Len(b), NEW r
  PROVE  RowIn(b, n, r) \in Event
<1>1. n \in Nat /\ \A i \in 1 .. n : b[i] \in Change
  OBVIOUS
<1>2. \A i \in 1 .. n : b[i].after \in Event
  BY <1>1 DEF Change
<1>3. 0 \in Event
  BY DEF Event
<1> QED BY <1>1, <1>2, <1>3, RowInIs

\* A source and what is written to it.
LEMMA Appended ==
  ASSUME NEW b \in Seq(Change), NEW w \in Seq(Change)
  PROVE  /\ b \o w \in Seq(Change) /\ Len(b) \in Nat /\ Len(w) \in Nat
         /\ Len(b \o w) = Len(b) + Len(w)
         /\ \A i \in 1 .. Len(b) : (b \o w)[i] = b[i]
         /\ \A i \in 1 .. Len(w) : (b \o w)[Len(b) + i] = w[i]
         /\ \A i \in 1 .. Len(b) + Len(w) :
              i \in 1 .. Len(b) \/ \E j \in 1 .. Len(w) : i = Len(b) + j
<1>1. ASSUME NEW i \in 1 .. Len(b) + Len(w), ~(i \in 1 .. Len(b))
      PROVE  \E j \in 1 .. Len(w) : i = Len(b) + j
  <2>1. i - Len(b) \in 1 .. Len(w) /\ i = Len(b) + (i - Len(b))
    BY <1>1
  <2> QED BY <2>1
<1>2. \A i \in 1 .. Len(w) : (b \o w)[Len(b) + i] = w[i]
  OBVIOUS
<1>3. b \o w \in Seq(Change) /\ Len(b) \in Nat /\ Len(w) \in Nat /\ Len(b \o w) = Len(b) + Len(w)
  OBVIOUS
<1>4. \A i \in 1 .. Len(b) : (b \o w)[i] = b[i]
  OBVIOUS
<1> QED BY <1>1, <1>2, <1>3, <1>4

\* The fields of a change.
LEMMA ChangeIs ==
  ASSUME NEW c \in Change
  PROVE  c.row \in Row /\ c.row \in Nat /\ c.before \in Nat /\ c.after \in Nat /\ c.after \in Event
BY DEF Change, Row, Event

\* Sequence u is b and behind it n inserts.
Inserting(u, b, n, k, e) ==
  /\ u \in Seq(Change) /\ Len(u) = Len(b) + n
  /\ \A i \in 1 .. Len(b) : u[i] = b[i]
  /\ \A i \in 1 .. n :
       /\ u[Len(b) + i].row = k + i /\ u[Len(b) + i].before = 0
       /\ u[Len(b) + i].after = e + i

\* They add their rows and event ids to the ledger.
LEMMA InsertsBooked ==
  ASSUME NEW b, NEW k \in Nat, NEW e \in Nat, NEW up, NEW del, LedgerOf(b, k, e, up, del),
         NEW n \in Nat, NEW u, Inserting(u, b, n, k, e)
  PROVE  LedgerOf(u, k + n, e + n, up, del)
<1> DEFINE l == Len(b)
<1>1. b \in Seq(Change)
  BY DEF LedgerOf
<1>2. /\ u \in Seq(Change) /\ Len(u) = l + n /\ l \in Nat
      /\ \A i \in 1 .. l : u[i] = b[i]
      /\ \A i \in 1 .. n : u[l + i].row = k + i /\ u[l + i].before = 0 /\ u[l + i].after = e + i
  BY <1>1 DEF Inserting
<1>3. \A i \in 1 .. l + n : i \in 1 .. l \/ \E j \in 1 .. n : i = l + j
  <2>1. ASSUME NEW i \in 1 .. l + n, ~(i \in 1 .. l) PROVE \E j \in 1 .. n : i = l + j
    <3>1. i - l \in 1 .. n /\ i = l + (i - l)
      BY <2>1, <1>2
    <3> QED BY <3>1
  <2> QED BY <2>1
<1>4. \A i \in 1 .. l : b[i].row \in Nat /\ b[i].after \in Nat /\ b[i].before \in Nat
  <2>1. \A i \in 1 .. l : b[i] \in Change
    BY <1>1
  <2> QED BY <2>1, ChangeIs
<1>5. /\ {b[i].after : i \in 1 .. l} \ {0} = 1 .. e
      /\ \A i \in 1 .. l : b[i].row <= k
      /\ \A r \in 1 .. k : RowIn(b, l, r) = 0 => r = 1 /\ del
      /\ \A i, m \in 1 .. l : b[i].after = b[m].after => i = m
      /\ \A i \in 1 .. l :
           /\ i = 1 => b[i].row = 1 /\ b[i].after # 0
           /\ b[i].after = 0 => b[i].row = 1 /\ del
           /\ IsUpdate(b[i]) => up
      /\ Cardinality({i \in 1 .. l : b[i].before = 0}) = k
  BY DEF LedgerOf, Born, Afters
<1>6. \A i \in 1 .. n : /\ u[l + i].row = k + i /\ u[l + i].before = 0 /\ u[l + i].after = e + i
                        /\ ~IsUpdate(u[l + i])
  BY <1>2 DEF IsUpdate
<1>0. l \in Nat /\ \A i \in 1 .. l : u[i] = b[i]
  BY <1>2
<1> HIDE DEF l
<1>7. Cardinality({i \in 1 .. l + n : u[i].before = 0}) = k + n
  <2> DEFINE old == {i \in 1 .. l : b[i].before = 0}
             new == l + 1 .. l + n
  <2>1. {i \in 1 .. l + n : u[i].before = 0} = old \cup new
    <3>1. \A j \in new : \E i \in 1 .. n : j = l + i
      <4>1. \A j \in new : j - l \in 1 .. n /\ j = l + (j - l)
        BY <1>0, <1>3
      <4> QED BY <4>1
    <3>2. ASSUME NEW j \in new PROVE j \in 1 .. l + n /\ u[j].before = 0
      <4>1. PICK i \in 1 .. n : j = l + i
        BY <3>1
      <4> QED BY <1>0, <1>6, <4>1
    <3>3. \A j \in 1 .. l + n : j \in new \/ j \in 1 .. l
      BY <1>0, <1>3
    <3>4. \A j \in 1 .. l : j \in 1 .. l + n /\ u[j].before = b[j].before
      BY <1>0, <1>3
    <3> QED BY <3>2, <3>3, <3>4
  <2>2. IsFiniteSet(1 .. l) /\ IsFiniteSet(new) /\ Cardinality(new) = n
    <3>1. l + 1 \in Int /\ l + n \in Int
      BY <1>0, <1>3
    <3> QED BY <1>0, <1>3, <3>1, FS_Interval
  <2>3. IsFiniteSet(old)
    BY <2>2, FS_Subset
  <2>4. old \cap new = {}
    BY <1>0, <1>3
  <2>5. Cardinality(old \cup new) = Cardinality(old) + Cardinality(new) - Cardinality(old \cap new)
    BY <2>2, <2>3, FS_Union
  <2>6. Cardinality(old \cap new) = 0
    BY <2>4, FS_EmptySet
  <2>7. Cardinality(old) = k
    BY <1>5
  <2> HIDE DEF old, new
  <2>8. Cardinality(old \cup new) = k + n
    BY <2>2, <2>5, <2>6, <2>7
  <2> QED BY <2>1, <2>8
<1>8. {u[i].after : i \in 1 .. l + n} \ {0} = 1 .. e + n
  <2>1. ASSUME NEW x \in 1 .. e + n PROVE \E i \in 1 .. l + n : u[i].after = x
    <3>1. CASE x <= e
      <4>1. x \in {b[i].after : i \in 1 .. l}
        BY <1>5, <3>1
      <4>2. PICK i \in 1 .. l : b[i].after = x
        BY <4>1
      <4>3. i \in 1 .. l + n /\ u[i].after = x
        BY <1>0, <1>3, <4>2
      <4> QED BY <4>3
    <3>2. CASE x > e
      <4>1. x - e \in 1 .. n /\ e + (x - e) = x
        BY <3>2
      <4>2. u[l + (x - e)].after = x
        BY <1>6, <4>1
      <4>3. l + (x - e) \in 1 .. l + n
        BY <1>0, <1>3, <4>1
      <4> QED BY <4>2, <4>3
    <3> QED BY <3>1, <3>2
  <2>2. ASSUME NEW i \in 1 .. l + n, u[i].after # 0 PROVE u[i].after \in 1 .. e + n
    <3>1. CASE i \in 1 .. l
      <4>1. b[i].after \in 1 .. e
        BY <1>0, <1>3, <1>5, <2>2, <3>1
      <4> QED BY <1>0, <1>3, <3>1, <4>1
    <3>2. CASE \E j \in 1 .. n : i = l + j
      <4>1. PICK j \in 1 .. n : i = l + j
        BY <3>2
      <4> QED BY <1>6, <4>1
    <3> QED BY <1>0, <1>3, <3>1, <3>2
  <2> QED BY <2>1, <2>2
<1>9. \A i \in 1 .. l + n : u[i].row <= k + n
  BY <1>0, <1>3, <1>4, <1>5, <1>6
<1>10. \A r \in 1 .. k + n : RowIn(u, l + n, r) = 0 => r = 1 /\ del
  <2>1. ASSUME NEW r \in 1 .. k PROVE RowIn(u, l + n, r) = RowIn(b, l, r)
    <3>1. \A i \in l + 1 .. l + n : u[i].row # r
      <4>1. ASSUME NEW i \in l + 1 .. l + n PROVE u[i].row # r
        <5>1. i - l \in 1 .. n /\ i = l + (i - l)
          BY <1>0, <1>3
        <5>2. u[i].row = k + (i - l)
          BY <1>6, <5>1
        <5> QED BY <5>1, <5>2, <1>3
      <4> QED BY <4>1
    <3>2. l + n \in Nat /\ l <= l + n
      BY <1>0, <1>3
    <3>3. RowIn(u, l + n, r) = RowIn(u, l, r)
      BY <1>0, <1>3, <3>1, <3>2, RowInMore
    <3>4. RowIn(u, l, r) = RowIn(b, l, r)
      BY <1>0, <1>3, RowInSame
    <3> QED BY <3>3, <3>4
  <2>2. ASSUME NEW r \in k + 1 .. k + n PROVE RowIn(u, l + n, r) # 0
    <3>1. r - k \in 1 .. n /\ k + (r - k) = r
      OBVIOUS
    <3> DEFINE i == l + (r - k)
    <3>2. i \in 1 .. l + n /\ u[i].row = r /\ u[i].after = e + (r - k)
      BY <1>0, <1>3, <1>6, <3>1
    <3>3. ASSUME NEW m \in 1 .. l + n, u[m].row = r PROVE m = i
      <4>1. CASE m \in 1 .. l
        BY <1>0, <1>3, <1>4, <1>5, <3>1, <3>3, <4>1
      <4>2. CASE \E j \in 1 .. n : m = l + j
        <5>1. PICK j \in 1 .. n : m = l + j
          BY <4>2
        <5>2. k + j = r
          BY <1>6, <3>3, <5>1
        <5>3. j = r - k
          BY <5>2
        <5> QED BY <5>1, <5>3
      <4> QED BY <1>0, <1>3, <4>1, <4>2
    <3> HIDE DEF i
    <3>4. RowIn(u, l + n, r) = u[i].after
      <4>1. l + n \in Nat /\ i <= i
        BY <1>0, <1>3, <3>2
      <4> QED BY <3>2, <3>3, <4>1, RowInLast
    <3> QED BY <3>1, <3>2, <3>4
  <2>3. \A r \in 1 .. k + n : r \in 1 .. k \/ r \in k + 1 .. k + n
    OBVIOUS
  <2> QED BY <1>5, <2>1, <2>2, <2>3
<1>11. \A i, m \in 1 .. l + n : u[i].after = u[m].after => i = m
  <2>1. \A i \in 1 .. l : u[i].after <= e
    <3>1. ASSUME NEW i \in 1 .. l PROVE u[i].after <= e
      <4>1. b[i].after = 0 \/ b[i].after \in 1 .. e
        BY <1>5
      <4> QED BY <1>0, <1>3, <4>1
    <3> QED BY <3>1
  <2>2. ASSUME NEW i \in 1 .. l + n, NEW m \in 1 .. l + n, u[i].after = u[m].after PROVE i = m
    <3>1. CASE i \in 1 .. l /\ m \in 1 .. l
      BY <1>0, <1>3, <1>5, <2>2, <3>1
    <3>2. CASE i \in 1 .. l /\ m \notin 1 .. l
      <4>1. PICK j \in 1 .. n : m = l + j
        BY <1>0, <1>3, <3>2
      <4>2. u[m].after = e + j /\ u[i].after <= e /\ u[i].after \in Nat
        BY <1>0, <1>4, <1>6, <2>1, <3>2, <4>1
      <4> QED BY <2>2, <4>2
    <3>3. CASE i \notin 1 .. l /\ m \in 1 .. l
      <4>1. PICK j \in 1 .. n : i = l + j
        BY <1>0, <1>3, <3>3
      <4>2. u[i].after = e + j /\ u[m].after <= e /\ u[m].after \in Nat
        BY <1>0, <1>4, <1>6, <2>1, <3>3, <4>1
      <4> QED BY <2>2, <4>2
    <3>4. CASE i \notin 1 .. l /\ m \notin 1 .. l
      <4>1. PICK j \in 1 .. n : i = l + j
        BY <1>0, <1>3, <3>4
      <4>2. PICK o \in 1 .. n : m = l + o
        BY <1>0, <1>3, <3>4
      <4>3. e + j = e + o
        BY <1>6, <2>2, <4>1, <4>2
      <4> QED BY <4>1, <4>2, <4>3
    <3> QED BY <3>1, <3>2, <3>3, <3>4
  <2> QED BY <2>2
<1>12. ASSUME NEW i \in 1 .. l + n
       PROVE  /\ i = 1 => u[i].row = 1 /\ u[i].after # 0
              /\ u[i].after = 0 => u[i].row = 1 /\ del
              /\ IsUpdate(u[i]) => up
  <2>1. CASE i \in 1 .. l
    BY <1>0, <1>3, <1>5, <2>1
  <2>2. CASE i \notin 1 .. l
    <3>1. PICK j \in 1 .. n : i = l + j
      BY <1>0, <1>3, <2>2
    <3>2. i = 1 => k = 0 /\ j = 1
      <4>1. SUFFICES ASSUME i = 1 PROVE k = 0 /\ j = 1
        OBVIOUS
      <4>2. l = 0 /\ j = 1
        BY <1>0, <1>3, <3>1, <4>1
      <4>3. {m \in 1 .. l : b[m].before = 0} = {}
        BY <4>2
      <4> QED BY <1>5, <4>2, <4>3, FS_EmptySet
    <3> QED BY <1>6, <3>1, <3>2
  <2> QED BY <2>1, <2>2
<1> QED BY <1>0, <1>3, <1>7, <1>8, <1>9, <1>10, <1>11, <1>12, <1>2 DEF LedgerOf, l, Born, Afters

\* Sequence u is b and behind it one change of row r to event a.
Changing(u, b, r, a) ==
  /\ u \in Seq(Change) /\ Len(u) = Len(b) + 1
  /\ \A i \in 1 .. Len(b) : u[i] = b[i]
  /\ u[Len(u)].row = r /\ u[Len(u)].before = RowIn(b, Len(b), r) /\ u[Len(u)].after = a

SourceOf(b, k, e) ==
  /\ b \in Seq(Change)
  /\ Cardinality(Born(b)) = k
  /\ Afters(b) = 1 .. e
  /\ \A i \in 1 .. Len(b) : b[i].row <= k

\* What one change of a row that is there leaves of the ledger.
LEMMA ChangeBooked ==
  ASSUME NEW b, NEW k \in Nat, NEW e \in Nat, SourceOf(b, k, e),
         NEW r \in 1 .. k, RowIn(b, Len(b), r) # 0, NEW a \in Nat, NEW u, Changing(u, b, r, a)
  PROVE  /\ u \in Seq(Change) /\ Len(u) \in Nat /\ Len(b) \in Nat /\ Len(u) = Len(b) + 1
         /\ Len(b) >= 1
         /\ \A i \in 1 .. Len(b) : u[i] = b[i]
         /\ Cardinality(Born(u)) = k
         /\ Afters(u) = (1 .. e \cup {a}) \ {0}
         /\ \A i \in 1 .. Len(u) : u[i].row <= k
         /\ RowIn(u, Len(u), r) = a
         /\ \A q : q # r => RowIn(u, Len(u), q) = RowIn(b, Len(b), q)
<1> DEFINE l == Len(b)
           z == Len(u)
<1>1. b \in Seq(Change)
  BY DEF SourceOf
<1>2. /\ u \in Seq(Change) /\ z = l + 1 /\ l \in Nat /\ z \in Nat
      /\ \A i \in 1 .. l : u[i] = b[i]
      /\ u[z].row = r /\ u[z].before = RowIn(b, l, r) /\ u[z].after = a
  BY <1>1 DEF Changing
<1>3. /\ Cardinality({i \in 1 .. l : b[i].before = 0}) = k
      /\ {b[i].after : i \in 1 .. l} \ {0} = 1 .. e
      /\ \A i \in 1 .. l : b[i].row <= k
  BY DEF SourceOf, Born, Afters
<1> HIDE DEF l, z
<1>4. \A i \in 1 .. z : i \in 1 .. l \/ i = z
  BY <1>2
<1>5. 1 .. l \subseteq 1 .. z /\ z \in 1 .. z
  BY <1>2
<1>6. {i \in 1 .. z : u[i].before = 0} = {i \in 1 .. l : b[i].before = 0}
  <2>1. u[z].before # 0
    BY <1>2 DEF l
  <2> QED BY <1>2, <1>4, <1>5, <2>1
<1>7. {u[i].after : i \in 1 .. z} = {b[i].after : i \in 1 .. l} \cup {a}
  BY <1>2, <1>4, <1>5
<1>8. \A i \in 1 .. z : u[i].row <= k
  BY <1>2, <1>3, <1>4
<1>9. RowIn(u, z, r) = a
  <2>1. \A m \in 1 .. z : u[m].row = r => m <= z
    BY <1>2
  <2> QED BY <1>2, <1>5, <2>1, RowInLast
<1>10. ASSUME NEW q, q # r PROVE RowIn(u, z, q) = RowIn(b, l, q)
  <2>1. \A i \in l + 1 .. z : u[i].row # q
    BY <1>2, <1>10
  <2>2. RowIn(u, z, q) = RowIn(u, l, q)
    <3>1. l <= z
      BY <1>2
    <3> QED BY <1>2, <2>1, <3>1, RowInMore
  <2>3. RowIn(u, l, q) = RowIn(b, l, q)
    <3>1. l \in Nat /\ \A i \in 1 .. l : u[i] = b[i]
      BY <1>2
    <3> QED BY <3>1, RowInSame
  <2> QED BY <2>2, <2>3
<1>11. l >= 1
  <2>1. ASSUME l = 0 PROVE FALSE
    <3>1. {i \in 1 .. l : b[i].before = 0} = {}
      BY <2>1
    <3> QED BY <1>3, <3>1, FS_EmptySet
  <2> QED BY <1>2, <2>1
<1>12. {u[i].after : i \in 1 .. z} \ {0} = (1 .. e \cup {a}) \ {0}
  BY <1>3, <1>7
<1>13. Cardinality({i \in 1 .. z : u[i].before = 0}) = k
  BY <1>3, <1>6
<1> QED BY <1>2, <1>8, <1>9, <1>10, <1>11, <1>12, <1>13 DEF l, z, Born, Afters

\* Row 1, and then row 2, is updated to the next event.
LEMMA UpdateBooked ==
  ASSUME NEW b, NEW k \in Nat, NEW e \in Nat, NEW up \in BOOLEAN, NEW del \in BOOLEAN,
         LedgerOf(b, k, e, up, del),
         NEW r \in 1 .. k, RowIn(b, Len(b), r) # 0, NEW u, Changing(u, b, r, e + 1)
  PROVE  LedgerOf(u, k, e + 1, TRUE, del)
<1> DEFINE l == Len(b)
           z == Len(u)
<1>1. /\ u \in Seq(Change) /\ z \in Nat /\ l \in Nat /\ z = l + 1 /\ l >= 1
      /\ \A i \in 1 .. l : u[i] = b[i]
      /\ Cardinality(Born(u)) = k /\ Afters(u) = (1 .. e \cup {e + 1}) \ {0}
      /\ \A i \in 1 .. z : u[i].row <= k
      /\ RowIn(u, z, r) = e + 1
      /\ \A q : q # r => RowIn(u, z, q) = RowIn(b, l, q)
  <2> DEFINE a == e + 1
  <2>1. a \in Nat /\ Changing(u, b, r, a)
    OBVIOUS
  <2> HIDE DEF a
  <2>2. /\ u \in Seq(Change) /\ Len(u) \in Nat /\ Len(b) \in Nat /\ Len(u) = Len(b) + 1
        /\ Len(b) >= 1
        /\ \A i \in 1 .. Len(b) : u[i] = b[i]
        /\ Cardinality(Born(u)) = k
        /\ Afters(u) = (1 .. e \cup {a}) \ {0}
        /\ \A i \in 1 .. Len(u) : u[i].row <= k
        /\ RowIn(u, Len(u), r) = a
        /\ \A q : q # r => RowIn(u, Len(u), q) = RowIn(b, Len(b), q)
    <3>1. SourceOf(b, k, e)
      BY DEF LedgerOf, SourceOf
    <3> QED BY <2>1, <3>1, ChangeBooked
  <2> QED BY <2>2 DEF a
<1>2. u[z].row = r /\ u[z].after = e + 1
  BY DEF Changing
<1>3. /\ {b[i].after : i \in 1 .. l} \ {0} = 1 .. e
      /\ \A q \in 1 .. k : RowIn(b, l, q) = 0 => q = 1 /\ del
      /\ \A i, m \in 1 .. l : b[i].after = b[m].after => i = m
      /\ \A i \in 1 .. l :
           /\ i = 1 => b[i].row = 1 /\ b[i].after # 0
           /\ b[i].after = 0 => b[i].row = 1 /\ del
  BY DEF LedgerOf, Afters
<1> HIDE DEF l, z
<1>4. \A i \in 1 .. z : i \in 1 .. l \/ (i = z /\ i # 1)
  BY <1>1
<1>5. 1 .. l \subseteq 1 .. z /\ z \in 1 .. z
  BY <1>1
<1>6. Afters(u) = 1 .. e + 1
  <2>1. (1 .. e \cup {e + 1}) \ {0} = 1 .. e + 1
    OBVIOUS
  <2> QED BY <1>1, <2>1
<1>7. \A q \in 1 .. k : RowIn(u, z, q) = 0 => q = 1 /\ del
  <2>1. e + 1 # 0
    OBVIOUS
  <2> QED BY <1>1, <1>3, <2>1
<1>8. \A i, m \in 1 .. z : u[i].after = u[m].after => i = m
  <2>1. \A i \in 1 .. l : u[i].after # e + 1
    <3>1. ASSUME NEW i \in 1 .. l, b[i].after = e + 1 PROVE FALSE
      <4>1. b[i].after \in 1 .. e
        BY <1>3, <3>1
      <4> QED BY <3>1, <4>1
    <3> QED BY <1>1, <3>1
  <2> QED BY <1>1, <1>2, <1>3, <1>4, <2>1
<1>9. \A i \in 1 .. z : /\ i = 1 => u[i].row = 1 /\ u[i].after # 0
                        /\ u[i].after = 0 => u[i].row = 1 /\ del
  <2>1. e + 1 # 0
    OBVIOUS
  <2> QED BY <1>1, <1>2, <1>3, <1>4, <2>1
<1> QED BY <1>1, <1>6, <1>7, <1>8, <1>9 DEF LedgerOf, z

\* Row 1 is deleted, once.
LEMMA DeleteBooked ==
  ASSUME NEW b, NEW k \in Nat, NEW e \in Nat, NEW up \in BOOLEAN, LedgerOf(b, k, e, up, FALSE),
         1 <= k, NEW u, Changing(u, b, 1, 0)
  PROVE  LedgerOf(u, k, e, up, TRUE)
<1> DEFINE l == Len(b)
           z == Len(u)
<1>0. 1 \in 1 .. k /\ RowIn(b, Len(b), 1) # 0
  BY DEF LedgerOf
<1>1. /\ u \in Seq(Change) /\ z \in Nat /\ l \in Nat /\ z = l + 1 /\ l >= 1
      /\ \A i \in 1 .. l : u[i] = b[i]
      /\ Cardinality(Born(u)) = k /\ Afters(u) = (1 .. e \cup {0}) \ {0}
      /\ \A i \in 1 .. z : u[i].row <= k
      /\ \A q : q # 1 => RowIn(u, z, q) = RowIn(b, l, q)
  <2>1. 0 \in Nat
    OBVIOUS
  <2>2. SourceOf(b, k, e)
    BY DEF LedgerOf, SourceOf
  <2> QED BY <1>0, <2>1, <2>2, ChangeBooked
<1>2. u[z].row = 1 /\ u[z].after = 0
  BY DEF Changing
<1>3. /\ \A q \in 1 .. k : RowIn(b, l, q) # 0
      /\ \A i, m \in 1 .. l : b[i].after = b[m].after => i = m
      /\ \A i \in 1 .. l :
           /\ i = 1 => b[i].row = 1 /\ b[i].after # 0
           /\ b[i].after # 0
           /\ IsUpdate(b[i]) => up
  BY DEF LedgerOf
<1> HIDE DEF l, z
<1>4. \A i \in 1 .. z : i \in 1 .. l \/ (i = z /\ i # 1)
  BY <1>1
<1>5. 1 .. l \subseteq 1 .. z /\ z \in 1 .. z
  BY <1>1
<1>6. Afters(u) = 1 .. e
  <2>1. (1 .. e \cup {0}) \ {0} = 1 .. e
    OBVIOUS
  <2> QED BY <1>1, <2>1
<1>7. \A q \in 1 .. k : RowIn(u, z, q) = 0 => q = 1
  BY <1>1, <1>3
<1>8. \A i, m \in 1 .. z : u[i].after = u[m].after => i = m
  BY <1>1, <1>2, <1>3, <1>4
<1>9. \A i \in 1 .. z : /\ i = 1 => u[i].row = 1 /\ u[i].after # 0
                        /\ u[i].after = 0 => u[i].row = 1
  BY <1>1, <1>2, <1>3, <1>4
<1>10. \A i \in 1 .. z : IsUpdate(u[i]) => up
  <2>1. ~IsUpdate(u[z])
    BY <1>2 DEF IsUpdate
  <2> QED BY <1>1, <1>3, <1>4, <2>1
<1> QED BY <1>1, <1>6, <1>7, <1>8, <1>9, <1>10 DEF LedgerOf, z

-----------------------------------------------------------------------------
(* The types. *)

JobTyped(r) ==
  r \in Job /\ r.read <= Len(binlog) /\ r.done.pos <= Len(binlog) /\ r.ongoing.pos <= Len(binlog)
JobsTyped == job \in [Name -> Job] /\ \A j \in Name : JobTyped(job[j])
DiskTyped ==
  /\ points \subseteq Point /\ aborted \subseteq Nat
  /\ \A p \in points : p.pos <= Len(binlog)
  /\ \E n \in Nat : (\A p \in points : p.id <= n) /\ \A a \in aborted : a <= n
TablesTyped ==
  /\ tableId \in 0 .. 1 /\ maxId \in [Name -> [Sink -> Nat]] /\ dataFiles \in Nat
  /\ changelog \in Seq([change : 1 .. Len(binlog), by : Name])
  /\ current \in [Row -> Event] /\ late \subseteq Sink
ScriptTyped ==
  /\ drill \in Drills /\ pc \in 1 .. Len(Script[drill]) /\ ownId \in BOOLEAN
  /\ verdict \in {"none", "passed", "failed"} /\ reason \in Reason /\ cleaned \in BOOLEAN
SeenTyped == seen \in Seen /\ seen.point.pos <= Len(binlog)
TypedInv ==
  /\ Ledger /\ marker \in BOOLEAN /\ clusterUp \in BOOLEAN
  /\ JobsTyped /\ DiskTyped /\ TablesTyped /\ ScriptTyped /\ SeenTyped

\* A sequence over a set is one over a greater set.
LEMMA SeqMore ==
  ASSUME NEW S, NEW T, S \subseteq T, NEW s \in Seq(S)
  PROVE  s \in Seq(T)
OBVIOUS

\* The source is a sequence of changes of its rows to events.
LEMMA LedgerIs ==
  ASSUME Ledger
  PROVE  /\ binlog \in Seq(Change) /\ Len(binlog) \in Nat /\ DOMAIN binlog = 1 .. Len(binlog)
         /\ binlog \in Seq(Elements(binlog))
         /\ \A i \in 1 .. Len(binlog) :
              /\ binlog[i] \in Change /\ binlog[i].row \in Row /\ binlog[i].after \in Event
<1>1. binlog \in Seq(Change) /\ Len(binlog) \in Nat /\ DOMAIN binlog = 1 .. Len(binlog)
  BY DEF Ledger, LedgerOf
<1>2. \A i \in 1 .. Len(binlog) : binlog[i] \in Change
  BY <1>1
<1>3. \A i \in 1 .. Len(binlog) : binlog[i].row \in Row /\ binlog[i].after \in Event
  BY <1>2, ChangeIs
<1>4. \A i \in 1 .. Len(binlog) : binlog[i] \in Elements(binlog)
  BY DEF Elements
<1>5. binlog = [i \in 1 .. Len(binlog) |-> binlog[i]]
  BY <1>1
<1> HIDE DEF Elements
<1>6. binlog \in Seq(Elements(binlog))
  BY <1>1, <1>4, <1>5
<1> QED BY <1>1, <1>2, <1>3, <1>6

\* What was known of the types so far.
LEMMA TypedIsType ==
  ASSUME TypedInv PROVE TypeInv
<1>1. binlog \in Seq(Elements(binlog)) /\ Len(binlog) \in Nat
  BY LedgerIs DEF TypedInv
<1>2. job \in [Name -> Job] /\ points \subseteq Point /\ aborted \subseteq Nat
  BY DEF TypedInv, JobsTyped, DiskTyped
<1>3. changelog \in Seq([change : Nat, by : Name])
  <2> DEFINE S == [change : 1 .. Len(binlog), by : Name]
             T == [change : Nat, by : Name]
  <2>1. changelog \in Seq(S)
    BY DEF TypedInv, TablesTyped
  <2>2. S \subseteq T
    OBVIOUS
  <2> HIDE DEF S, T
  <2>3. changelog \in Seq(T)
    BY <2>1, <2>2, SeqMore
  <2> QED BY <2>3 DEF T
<1>4. maxId \in [Name -> [Sink -> Nat]] /\ current = [r \in Row |-> current[r]]
  BY DEF TypedInv, TablesTyped
<1>5. "point" \in DOMAIN seen /\ seen.point \in Point
  BY DEF TypedInv, SeenTyped, Seen
<1> QED BY <1>1, <1>2, <1>3, <1>4, <1>5 DEF TypeInv

\* What is kept is more than what is checked.
LEMMA TypedIs == TypedInv => TypeOK
<1> SUFFICES ASSUME TypedInv PROVE TypeOK
  OBVIOUS
<1>1. binlog \in Seq(Change) /\ DOMAIN binlog = 1 .. Len(binlog)
  BY LedgerIs DEF TypedInv
<1>2. DOMAIN Script[drill] = 1 .. Len(Script[drill])
  <2>1. drill \in Drills
    BY DEF TypedInv, ScriptTyped
  <2> QED BY <2>1, ScriptsListed DEF Stretch
<1>3. /\ \A j \in Name : job[j].read <= Len(binlog)
      /\ job \in [Name -> Job] /\ points \subseteq Point /\ aborted \subseteq Nat
  BY DEF TypedInv, JobsTyped, JobTyped, DiskTyped
<1>4. /\ tableId \in 0 .. 1 /\ maxId \in [Name -> [Sink -> Nat]] /\ dataFiles \in Nat
      /\ changelog \in Seq([change : DOMAIN binlog, by : Name])
      /\ current \in [Row -> Event] /\ late \subseteq Sink
  BY <1>1 DEF TypedInv, TablesTyped
<1>5. /\ marker \in BOOLEAN /\ clusterUp \in BOOLEAN
      /\ drill \in Drills /\ pc \in DOMAIN Script[drill] /\ ownId \in BOOLEAN
      /\ verdict \in {"none", "passed", "failed"} /\ reason \in Reason /\ cleaned \in BOOLEAN
      /\ seen \in Seen
  BY <1>2 DEF TypedInv, ScriptTyped, SeenTyped
<1> QED BY <1>1, <1>3, <1>4, <1>5 DEF TypeOK

\* What a publication does to each row of the current table.
LEMMA PublishRows ==
  ASSUME TypeInv, NEW j, NEW files, NEW id, Publish(j, Cur, files, id), NEW r \in Row
  PROVE  \/ (\A i \in Held(files) : binlog[i].row # r) /\ current'[r] = current[r]
         \/ \E i \in Held(files) :
              /\ binlog[i].row = r /\ current'[r] = binlog[i].after
              /\ \A m \in Held(files) : binlog[m].row = r => m <= i
<1> DEFINE of == {i \in Held(files) : binlog[i].row = r}
<1>1. current'[r] = IF of = {} THEN current[r]
                    ELSE binlog[CHOOSE i \in of : \A k \in of : k <= i].after
  BY DEF Publish, Cur
<1>2. CASE of = {}
  BY <1>1, <1>2
<1>3. CASE of # {}
  <2>1. of \subseteq 0 .. Len(binlog) /\ Len(binlog) \in Nat
    BY HeldAre DEF TypeInv
  <2>2. \E i \in of : \A m \in of : m <= i
    BY <1>3, <2>1, Greatest
  <2> DEFINE last == CHOOSE i \in of : \A m \in of : m <= i
  <2>3. last \in of /\ \A m \in of : m <= last
    BY <2>2
  <2>4. current'[r] = binlog[last].after
    BY <1>1, <1>3
  <2> HIDE DEF last
  <2> QED BY <2>3, <2>4
<1> QED BY <1>2, <1>3

\* A publication keeps the tables what they are.
LEMMA PublishTyped ==
  ASSUME TypedInv, NEW j \in Name, NEW s \in Sink, NEW files, NEW id \in Nat,
         Publish(j, s, files, id), binlog' = binlog, late' \subseteq Sink
  PROVE  TablesTyped'
<1>1. TypeInv /\ TablesTyped /\ Ledger
  BY TypedIsType DEF TypedInv
<1>2. maxId' \in [Name -> [Sink -> Nat]]
  BY <1>1, PublishSummary
<1>3. tableId' \in 0 .. 1 /\ dataFiles' \in Nat
  BY <1>1 DEF Publish, TablesTyped
<1>4. current' \in [Row -> Event]
  <2>1. CASE s = Cur
    <3>1. Publish(j, Cur, files, id) /\ Publish(j, "current", files, id)
      BY <2>1 DEF Cur
    <3>2. current' = [r \in Row |-> current'[r]]
      BY <1>1, <3>1, PublishCurrent
    <3>3. ASSUME NEW r \in Row PROVE current'[r] \in Event
      <4>1. current[r] \in Event
        BY <1>1 DEF TablesTyped
      <4>2. \A i \in Held(files) : binlog[i].after \in Event
        BY <1>1, HeldAre, LedgerIs
      <4> QED BY <1>1, <3>1, <4>1, <4>2, PublishRows
    <3> QED BY <3>2, <3>3
  <2>2. CASE s # Cur
    <3>1. current' = current
      BY <2>2 DEF Publish, Cur
    <3> QED BY <1>1, <3>1 DEF TablesTyped
  <2> QED BY <2>1, <2>2
<1>5. changelog' \in Seq([change : 1 .. Len(binlog), by : Name])
  <2>1. CASE s = Log
    <3>1. Publish(j, Log, files, id)
      BY <2>1
    <3>2. /\ changelog' \in Seq([change : Nat, by : Name])
          /\ \A n \in DOMAIN changelog' :
               \/ n \in DOMAIN changelog /\ changelog'[n] = changelog[n]
               \/ changelog'[n].by = j /\ changelog'[n].change \in Held(files)
      BY <1>1, <3>1, PublishLog
    <3> DEFINE S == [change : 1 .. Len(binlog), by : Name]
               T == [change : Nat, by : Name]
    <3>3. \A n \in DOMAIN changelog : changelog[n] \in S
      BY <1>1, ElementsAre DEF TablesTyped
    <3>4. \A n \in DOMAIN changelog' : changelog'[n] \in T
      BY <3>2, ElementsAre
    <3>5. Held(files) \subseteq 1 .. Len(binlog)
      BY <1>1, HeldAre
    <3>6. \A t \in T : t.change \in 1 .. Len(binlog) => t \in S
      OBVIOUS
    <3> HIDE DEF S, T
    <3>7. \A n \in DOMAIN changelog' : changelog'[n] \in S
      BY <3>2, <3>3, <3>4, <3>5, <3>6
    <3>8. changelog' \in Seq(T)
      BY <3>2 DEF T
    <3>9. changelog' \in Seq(S)
      BY <3>7, <3>8
    <3> QED BY <3>9 DEF S
  <2>2. CASE s # Log
    <3>1. changelog' = changelog
      BY <2>2 DEF Publish, Log
    <3> QED BY <1>1, <3>1 DEF TablesTyped
  <2> QED BY <2>1, <2>2
<1> QED BY <1>2, <1>3, <1>4, <1>5 DEF TablesTyped

\* A step of one job that is typed keeps the types.
LEMMA JobKeepsTypes ==
  ASSUME TypedInv, NEW j \in Name, NEW q, JobTyped(q), Update(j, q), TablesTyped',
         UNCHANGED <<binlog, clusterUp, harness>>, marker' \in BOOLEAN,
         aborted' = aborted, points' = points \/ points' = points \cup {q.done}
  PROVE  TypedInv'
<1> USE DEF TypedInv
<1>1. q \in Job /\ JobsTyped
  BY DEF JobTyped
<1>2. JobsTyped'
  <2>1. job' \in [Name -> Job]
    BY <1>1 DEF JobsTyped, Update
  <2>2. \A k \in Name : job'[k] = q \/ job'[k] = job[k]
    BY <1>1 DEF JobsTyped, Update
  <2> QED BY <2>1, <2>2, <1>1 DEF JobsTyped, JobTyped
<1>3. UNCHANGED <<binlog, drill, pc, ownId, verdict, reason, cleaned, seen>>
  BY DEF harness, script, ending
<1>4. Ledger' /\ ScriptTyped' /\ SeenTyped'
  BY <1>3 DEF Ledger, ScriptTyped, SeenTyped
<1>5. DiskTyped'
  <2>0. q.done \in Point /\ q.done.id \in Nat /\ q.done.pos <= Len(binlog)
    BY <1>1, JobKinds DEF JobTyped
  <2>1. points' \subseteq Point /\ aborted' \subseteq Nat /\ \A p \in points' : p.pos <= Len(binlog')
    BY <2>0, <1>3 DEF DiskTyped
  <2>2. PICK n \in Nat : (\A p \in points : p.id <= n) /\ \A a \in aborted : a <= n
    BY DEF DiskTyped
  <2>3. PICK m \in Nat : m >= n /\ m >= q.done.id
    <3>1. CASE n >= q.done.id
      BY <3>1, <2>0, n >= n
    <3>2. CASE ~(n >= q.done.id)
      BY <3>2, <2>0, q.done.id >= n, q.done.id >= q.done.id
    <3> QED BY <3>1, <3>2
  <2>4. (\A p \in points' : p.id <= m) /\ \A a \in aborted' : a <= m
    <3>1. \A p \in points : p.id \in Nat
      BY DEF DiskTyped, Point
    <3>2. \A a \in aborted : a \in Nat
      BY DEF DiskTyped
    <3> QED BY <2>0, <2>2, <2>3, <3>1, <3>2
  <2> QED BY <2>1, <2>4 DEF DiskTyped
<1>6. marker' \in BOOLEAN /\ clusterUp' \in BOOLEAN
  OBVIOUS
<1> QED BY <1>2, <1>4, <1>5, <1>6

\* What a job may become, by step.
LEMMA StepsTyped ==
  ASSUME TypedInv, NEW j \in Name, NEW t \in Nat
  PROVE  LET r == job[j] IN
         /\ \A rec \in SUBSET Sink :
              JobTyped([r EXCEPT !.status = "RUNNING", !.table = t, !.recover = rec])
         /\ \A rec \in SUBSET Sink :
              JobTyped([r EXCEPT !.status = "RUNNING", !.table = t, !.read = r.done.pos,
                                 !.pend = r.done.pend, !.recover = rec])
         /\ JobTyped(Failed(j)) /\ JobTyped(Stopped(j))
         /\ \A l : JobTyped([r EXCEPT !.notify = @ \ {l}])
         /\ \A s \in Sink : \A files \in SUBSET r.pend[s] :
              JobTyped([r EXCEPT !.recover = @ \ {s}, !.pend[s] = files])
         /\ \A s \in Sink : \A files :
              JobTyped([r EXCEPT !.notify = @ \ {s}, !.pend[s] = @ \ files])
         /\ \A told \in SUBSET (Sink \cup {"fault"}) :
              JobTyped([r EXCEPT !.done = r.ongoing, !.ongoing = NoPoint, !.notify = told])
         /\ JobTyped([NoJob EXCEPT !.done = r.done])
<1> DEFINE r == job[j]
<1>1. r \in Job /\ r.read <= Len(binlog) /\ r.done.pos <= Len(binlog) /\ r.ongoing.pos <= Len(binlog)
  BY DEF TypedInv, JobsTyped, JobTyped
<1>2. Len(binlog) \in Nat /\ NoPoint \in Point /\ NoPoint.pos = 0 /\ NoPoint.pend \in [Sink -> SUBSET Files]
      /\ NoPoint.pos <= Len(binlog) /\ NoJob \in Job /\ NoJob.read = 0 /\ NoJob.ongoing = NoPoint
  BY LedgerIs, EmptyIsSound DEF TypedInv, Point
<1>3. r.done \in Point /\ r.ongoing \in Point /\ r.done.pos \in Nat /\ r.done.pend \in [Sink -> SUBSET Files]
  BY <1>1 DEF Job, Point
<1> HIDE DEF r
<1>4. \A rec \in SUBSET Sink :
        JobTyped([r EXCEPT !.status = "RUNNING", !.table = t, !.recover = rec])
  BY <1>1 DEF JobTyped, Job
<1>5. \A rec \in SUBSET Sink :
        JobTyped([r EXCEPT !.status = "RUNNING", !.table = t, !.read = r.done.pos,
                           !.pend = r.done.pend, !.recover = rec])
  BY <1>1, <1>3 DEF JobTyped, Job
<1>6. JobTyped([r EXCEPT !.status = "RESTARTING", !.ongoing = NoPoint, !.notify = {},
                         !.recover = {}, !.pend = NoPoint.pend])
  BY <1>1, <1>2 DEF JobTyped, Job
<1>7. JobTyped([r EXCEPT !.status = "CANCELING", !.ongoing = NoPoint])
  BY <1>1, <1>2 DEF JobTyped, Job
<1>8. \A l : JobTyped([r EXCEPT !.notify = @ \ {l}])
  BY <1>1 DEF JobTyped, Job
<1>9. ASSUME NEW s \in Sink, NEW files \in SUBSET r.pend[s]
      PROVE  JobTyped([r EXCEPT !.recover = @ \ {s}, !.pend[s] = files])
  <2>1. r.pend \in [Sink -> SUBSET Files]
    BY <1>1 DEF Job
  <2>2. [r.pend EXCEPT ![s] = files] \in [Sink -> SUBSET Files]
    BY <2>1
  <2> QED BY <1>1, <2>2 DEF JobTyped, Job
<1>10. ASSUME NEW s \in Sink, NEW files
       PROVE  JobTyped([r EXCEPT !.notify = @ \ {s}, !.pend[s] = @ \ files])
  <2>1. r.pend \in [Sink -> SUBSET Files]
    BY <1>1 DEF Job
  <2>2. [r.pend EXCEPT ![s] = @ \ files] \in [Sink -> SUBSET Files]
    BY <2>1
  <2> QED BY <1>1, <2>2 DEF JobTyped, Job
<1>11. \A told \in SUBSET (Sink \cup {"fault"}) :
         JobTyped([r EXCEPT !.done = r.ongoing, !.ongoing = NoPoint, !.notify = told])
  BY <1>1, <1>2, <1>3 DEF JobTyped, Job
<1>12. JobTyped([NoJob EXCEPT !.done = r.done])
  BY <1>1, <1>2, <1>3 DEF JobTyped, Job
<1> QED BY <1>4, <1>5, <1>6, <1>7, <1>8, <1>9, <1>10, <1>11, <1>12 DEF r, Failed, Stopped

\* What a job has flushed at a barrier, and the checkpoint of it, are typed.
LEMMA FlushTyped ==
  ASSUME TypedInv, NEW j \in Name, NEW n \in job[j].read .. Len(binlog)
  PROVE  /\ JobTyped(Flushed(j, n))
         /\ JobTyped([Flushed(j, n) EXCEPT !.ongoing = PointOf(Flushed(j, n))])
         /\ PointOf(Flushed(j, n)) \in Point /\ PointOf(Flushed(j, n)).pos = n
<1> DEFINE r == job[j]
           files == IF n = r.read THEN {} ELSE {[id |-> r.epoch + 1, lo |-> r.read, hi |-> n]}
           q == Flushed(j, n)
<1>1. r \in Job /\ r.done.pos <= Len(binlog) /\ r.ongoing.pos <= Len(binlog)
  BY DEF TypedInv, JobsTyped, JobTyped
<1>2. q = [r EXCEPT !.epoch = r.epoch + 1, !.read = n,
                    !.pend = [s \in Sink |-> r.pend[s] \cup files]]
  BY DEF Flushed
<1>3. Len(binlog) \in Nat /\ n \in Int
  BY LedgerIs DEF TypedInv
<1>4. n \in Nat /\ n <= Len(binlog)
  BY <1>1, <1>3 DEF Job
<1> HIDE DEF r, q
<1>5. files \subseteq Files
  BY <1>1, <1>4 DEF Job, Files
<1>6. [s \in Sink |-> r.pend[s] \cup files] \in [Sink -> SUBSET Files] /\ r.epoch + 1 \in Nat
  BY <1>1, <1>5 DEF Job
<1> HIDE DEF files
<1>7. q \in Job /\ q.read = n /\ q.done = r.done /\ q.ongoing = r.ongoing
  BY <1>1, <1>2, <1>4, <1>6 DEF Job
<1>8. PointOf(q) \in Point /\ PointOf(q).pos = n
  BY <1>7 DEF PointOf, Point, Job
<1>9. JobTyped(q)
  BY <1>1, <1>4, <1>7 DEF JobTyped
<1>10. JobTyped([q EXCEPT !.ongoing = PointOf(q)])
  <2>1. \A p \in Point : p.pos = n => JobTyped([q EXCEPT !.ongoing = p])
    BY <1>1, <1>4, <1>7 DEF JobTyped, Job
  <2> QED BY <1>8, <2>1
<1> QED BY <1>8, <1>9, <1>10 DEF q

\* A step of a job or of its cluster keeps the types.
LEMMA SystemTyped ==
  ASSUME TypedInv, SystemStep PROVE TypedInv'
<1>1. /\ TablesTyped /\ marker \in BOOLEAN /\ clusterUp \in BOOLEAN /\ JobsTyped
      /\ tableId \in Nat
  BY DEF TypedInv, TablesTyped
<1>2. UNCHANGED <<binlog, tables>> => TablesTyped'
  BY <1>1 DEF TablesTyped, tables
<1> USE DEF disk
<1>3. ASSUME NEW j \in Name, JobStarts(j) \/ Restart(j) PROVE TypedInv'
  <2>1. /\ UNCHANGED <<binlog, clusterUp, harness, marker, points, aborted, tables>>
    BY <1>3 DEF JobStarts, Restart
  <2>2. PICK q : JobTyped(q) /\ Update(j, q)
    <3> DEFINE rec == IF job[j].done.id > 0 THEN Sink ELSE {}
    <3>1. rec \in SUBSET Sink
      OBVIOUS
    <3>2. CASE JobStarts(j)
      <4>1. Update(j, [job[j] EXCEPT !.status = "RUNNING", !.table = tableId, !.recover = rec])
        BY <3>2 DEF JobStarts
      <4> HIDE DEF rec
      <4> QED BY <1>1, <3>1, <4>1, StepsTyped
    <3>3. CASE Restart(j)
      <4>1. Update(j, [job[j] EXCEPT !.status = "RUNNING", !.table = tableId,
                         !.read = job[j].done.pos, !.pend = job[j].done.pend, !.recover = rec])
        BY <3>3 DEF Restart
      <4> HIDE DEF rec
      <4> QED BY <1>1, <3>1, <4>1, StepsTyped
    <3> QED BY <1>3, <3>2, <3>3
  <2> QED BY <1>1, <1>2, <2>1, <2>2, JobKeepsTypes
<1>4. ASSUME NEW j \in Name, Strikes(j) \/ ToldFault(j) PROVE TypedInv'
  <2>1. /\ UNCHANGED <<binlog, clusterUp, harness, points, aborted, tables>>
        /\ marker' \in BOOLEAN
    BY <1>1, <1>4 DEF Strikes, ToldFault
  <2>2. Update(j, Failed(j)) \/ Update(j, [job[j] EXCEPT !.notify = @ \ {"fault"}])
    BY <1>4 DEF Strikes, ToldFault
  <2>3. JobTyped(Failed(j)) /\ JobTyped([job[j] EXCEPT !.notify = @ \ {"fault"}])
    BY StepsTyped, 0 \in Nat
  <2> QED BY <1>2, <2>1, <2>2, <2>3, JobKeepsTypes
<1>5. ASSUME NEW j \in Name, JobEnds(j) PROVE TypedInv'
  <2>1. /\ UNCHANGED <<binlog, clusterUp, harness, points, aborted, tables, marker>>
        /\ Update(j, [NoJob EXCEPT !.done = job[j].done])
    BY <1>5 DEF JobEnds
  <2>3. JobTyped([NoJob EXCEPT !.done = job[j].done])
    BY StepsTyped, 0 \in Nat
  <2> QED BY <1>1, <1>2, <2>1, <2>3, JobKeepsTypes
<1>6. ASSUME NEW j \in Name, Trigger(j) PROVE TypedInv'
  <2>1. /\ UNCHANGED <<binlog, clusterUp, harness, points, aborted, tables, marker>>
        /\ \E n \in Reached(j) :
             Update(j, [Flushed(j, n) EXCEPT !.ongoing = PointOf(Flushed(j, n))])
    BY <1>6 DEF Trigger
  <2>2. PICK n \in job[j].read .. Len(binlog) :
          Update(j, [Flushed(j, n) EXCEPT !.ongoing = PointOf(Flushed(j, n))])
    BY <2>1 DEF Reached
  <2>3. JobTyped([Flushed(j, n) EXCEPT !.ongoing = PointOf(Flushed(j, n))])
    BY FlushTyped
  <2> QED BY <1>1, <1>2, <2>1, <2>2, <2>3, JobKeepsTypes
<1>7. ASSUME NEW j \in Name, CompleteCheckpoint(j) PROVE TypedInv'
  <2> DEFINE told == IF Armed(j, "sink_commit_fault") THEN Sink \cup {"fault"} ELSE Sink
             q == [job[j] EXCEPT !.done = job[j].ongoing, !.ongoing = NoPoint, !.notify = told]
  <2>1. /\ UNCHANGED <<binlog, clusterUp, harness, aborted, tables, marker>>
        /\ Update(j, q)
        /\ points' = points \/ points' = points \cup {job[j].ongoing}
    BY <1>7 DEF CompleteCheckpoint
  <2>2. told \in SUBSET (Sink \cup {"fault"})
    OBVIOUS
  <2> HIDE DEF told
  <2>3. JobTyped(q)
    BY <2>2, StepsTyped, 0 \in Nat
  <2>4. q.done = job[j].ongoing
    BY <1>1 DEF JobsTyped, Job
  <2> HIDE DEF q
  <2> QED BY <1>1, <1>2, <2>1, <2>3, <2>4, JobKeepsTypes
<1>8. ASSUME NEW j \in Name, NEW s \in Sink, Recover(j, s) PROVE TypedInv'
  <2>1. /\ UNCHANGED <<binlog, clusterUp, harness, points, aborted, marker, late>>
        /\ Publish(j, s, Missing(j, s), job[j].done.id)
        /\ Update(j, [job[j] EXCEPT !.recover = @ \ {s}, !.pend[s] = {}])
    BY <1>8 DEF Recover
  <2>2. job[j].done.id \in Nat /\ late' \subseteq Sink
    BY <1>1, <2>1 DEF JobsTyped, TablesTyped, Job, Point
  <2>3. TablesTyped'
    BY <2>1, <2>2, PublishTyped
  <2>4. JobTyped([job[j] EXCEPT !.recover = @ \ {s}, !.pend[s] = {}])
    <3>1. {} \in SUBSET job[j].pend[s]
      OBVIOUS
    <3> QED BY <3>1, StepsTyped, 0 \in Nat
  <2> QED BY <1>1, <2>1, <2>3, <2>4, JobKeepsTypes
<1>9. ASSUME NEW j \in Name, NEW s \in Sink, Commit(j, s) PROVE TypedInv'
  <2> DEFINE files == {f \in job[j].pend[s] : f.id <= job[j].done.id}
             q == [job[j] EXCEPT !.notify = @ \ {s}, !.pend[s] = @ \ files]
  <2>1. /\ UNCHANGED <<binlog, clusterUp, harness, points, aborted, marker>>
        /\ \/ /\ Publish(j, s, files, job[j].done.id) /\ Update(j, q)
              /\ late' = late \/ late' = late \cup {s}
           \/ /\ UNCHANGED tables
              /\ Update(j, Failed(j)) \/ Update(j, [job[j] EXCEPT !.notify = @ \ {s}])
    BY <1>9 DEF Commit
  <2>2. job[j].done.id \in Nat /\ late \subseteq Sink
    BY <1>1 DEF JobsTyped, TablesTyped, Job, Point
  <2>3. JobTyped(q) /\ JobTyped(Failed(j)) /\ JobTyped([job[j] EXCEPT !.notify = @ \ {s}])
    BY StepsTyped, 0 \in Nat
  <2> HIDE DEF files, q
  <2>4. TablesTyped'
    BY <1>2, <2>1, <2>2, PublishTyped
  <2> QED BY <1>1, <2>1, <2>3, <2>4, JobKeepsTypes
<1>10. ASSUME DeleteSubsumed \/ DiscardAborted \/ ClusterStarts PROVE TypedInv'
  <2>1. /\ UNCHANGED <<binlog, job, marker, tables, harness>> /\ clusterUp' \in BOOLEAN
        /\ points' \subseteq points /\ aborted' \subseteq aborted
    BY <1>1, <1>10 DEF DeleteSubsumed, DiscardAborted, ClusterStarts
  <2>2. DiskTyped'
    <3>1. PICK n \in Nat : (\A p \in points : p.id <= n) /\ \A a \in aborted : a <= n
      BY DEF TypedInv, DiskTyped
    <3> QED BY <2>1, <3>1 DEF TypedInv, DiskTyped
  <2>3. UNCHANGED <<drill, pc, ownId, verdict, reason, cleaned, seen>>
    BY <2>1 DEF harness, script, ending
  <2>4. Ledger' /\ ScriptTyped' /\ SeenTyped' /\ JobsTyped' /\ TablesTyped'
    BY <1>2, <2>1, <2>3 DEF TypedInv, Ledger, ScriptTyped, SeenTyped, JobsTyped, JobTyped
  <2> QED BY <1>1, <2>1, <2>2, <2>4 DEF TypedInv
<1> QED BY <1>3, <1>4, <1>5, <1>6, <1>7, <1>8, <1>9, <1>10 DEF SystemStep

\* How many rows and events there are at most.
LEMMA Amounts ==
  ASSUME NEW d \in Drills, NEW n \in Nat
  PROVE  /\ RowsAt(d, n) \in 0 .. 4 /\ EventsAt(d, n) \in 0 .. 6
         /\ EventsAt(d, n) = RowsAt(d, n) + IF Updated(d, n) THEN 2 ELSE 0
         /\ UpdatesAt(d) \in Nat /\ DeletesAt(d) = UpdatesAt(d) + 2
         /\ d \in Updating /\ n >= UpdatesAt(d) => RowsAt(d, n) >= 2
         /\ Updated(d, n) \in BOOLEAN /\ Deleted(d, n) \in BOOLEAN
         /\ d \in Audited => /\ RowsAt(d, AuditsAt(d) - 1) = RowsAt(d, AuditsAt(d))
                             /\ AuditsAt(d) \in Nat /\ AuditsAt(d) - 1 \in Nat
                             /\ UpdatesAt(d) + 2 < AuditsAt(d) - 1
<1>1. d \in Fault \cup Restoring \cup {Rewriting, Metrics}
  BY ScriptsListed
<1>2. RowsAt(d, n) \in {0, 1, 2, 3, 4}
  <2>1. CASE d \in Fault
    BY <2>1 DEF RowsAt
  <2>2. CASE d \in Restoring
    BY <2>2 DEF RowsAt, Restoring, Fault
  <2>3. CASE d = Rewriting
    BY <2>3 DEF RowsAt, Restoring, Rewriting, Fault
  <2>4. CASE d = Metrics
    BY <2>4 DEF RowsAt, Restoring, Rewriting, Metrics, Fault
  <2> QED BY <1>1, <2>1, <2>2, <2>3, <2>4
<1>3. UpdatesAt(d) = IF d = "smoke" THEN 12 ELSE 13
  BY DEF UpdatesAt
<1>4. d \in Updating /\ n >= UpdatesAt(d) => RowsAt(d, n) >= 2
  BY <1>3 DEF RowsAt, Updating, Fault, Restoring, Rewriting
<1>5. d \in Audited => /\ RowsAt(d, AuditsAt(d) - 1) = RowsAt(d, AuditsAt(d))
                       /\ AuditsAt(d) \in {17, 18} /\ d # "smoke"
  <2>1. CASE d \in Fault
    <3>1. AuditsAt(d) = 17 /\ d # "smoke"
      BY <2>1 DEF AuditsAt, Fault
    <3>2. RowsAt(d, 16) = 4 /\ RowsAt(d, 17) = 4
      BY <2>1 DEF RowsAt, Fault, Restoring, Rewriting, Metrics
    <3>3. 17 - 1 = 16
      OBVIOUS
    <3> QED BY <3>1, <3>2, <3>3
  <2>2. CASE d \in Restoring \ {"smoke"}
    <3>1. AuditsAt(d) = 18
      BY <2>2 DEF AuditsAt, Fault, Restoring
    <3>2. RowsAt(d, 17) = 4 /\ RowsAt(d, 18) = 4
      BY <2>2 DEF RowsAt, Fault, Restoring, Rewriting, Metrics
    <3>3. 18 - 1 = 17
      OBVIOUS
    <3> QED BY <2>2, <3>1, <3>2, <3>3
  <2> QED BY <2>1, <2>2 DEF Audited
<1>6. EventsAt(d, n) = RowsAt(d, n) + IF Updated(d, n) THEN 2 ELSE 0
  BY DEF EventsAt
<1>7. Updated(d, n) \in BOOLEAN /\ Deleted(d, n) \in BOOLEAN
  BY DEF Updated, Deleted
<1>8. DeletesAt(d) = UpdatesAt(d) + 2
  BY DEF DeletesAt
<1>9. EventsAt(d, n) \in 0 .. 6
  BY <1>2, <1>6
<1> QED BY <1>2, <1>3, <1>4, <1>5, <1>6, <1>7, <1>8, <1>9

\* Where a step leads that does not write.
Turns ==
  \/ pc' = pc
  \/ pc' = pc + 1 /\ Step.do \notin Writes \cup {"verdict"}
  \/ pc' = pc - 1 /\ Step.do = "await_audit"

\* A step that does not write keeps the ledger.
LEMMA BookKept ==
  ASSUME Ledger, drill \in Drills, pc \in 1 .. Len(Script[drill]), binlog' = binlog, drill' = drill,
         Turns
  PROVE  Ledger' /\ pc' \in 1 .. Len(Script[drill])
<1>1. Booked(drill, pc) /\ Op(drill, pc) = Step.do
  BY AllBooked DEF Op, Step
<1>2. pc \in Nat
  BY <1>1 DEF Booked
<1>3. CASE pc' = pc
  BY <1>3 DEF Ledger
<1>4. CASE pc' = pc + 1 /\ Step.do \notin Writes \cup {"verdict"}
  <2>1. RowsAt(drill, pc') = RowsAt(drill, pc) /\ pc' \in 1 .. Len(Script[drill])
    BY <1>1, <1>4 DEF Booked, Writes
  <2>2. drill \in Updating => pc # UpdatesAt(drill) /\ pc # DeletesAt(drill)
    BY <1>1, <1>4 DEF Booked, Writes
  <2>3. Updated(drill, pc') = Updated(drill, pc) /\ Deleted(drill, pc') = Deleted(drill, pc)
    BY <1>2, <1>4, <2>2, Amounts DEF Updated, Deleted
  <2> QED BY <2>1, <2>3 DEF Ledger, EventsAt
<1>5. CASE pc' = pc - 1 /\ Step.do = "await_audit"
  <2>1. drill \in Audited /\ pc = AuditsAt(drill)
    BY <1>1, <1>5 DEF Booked
  <2>2. RowsAt(drill, pc') = RowsAt(drill, pc) /\ UpdatesAt(drill) + 2 < pc'
        /\ UpdatesAt(drill) \in Nat /\ DeletesAt(drill) = UpdatesAt(drill) + 2 /\ pc' \in Nat
    BY <1>2, <1>5, <2>1, Amounts
  <2>3. Updated(drill, pc') = Updated(drill, pc) /\ Deleted(drill, pc') = Deleted(drill, pc)
    BY <1>2, <1>5, <2>2 DEF Updated, Deleted
  <2>4. pc' \in 1 .. Len(Script[drill])
    <3>1. Len(Script[drill]) \in Nat
      BY ScriptsListed DEF Stretch
    <3> QED BY <1>5, <2>2, <3>1
  <2> QED BY <2>2, <2>3, <2>4 DEF Ledger, EventsAt
<1> QED BY <1>3, <1>4, <1>5 DEF Turns

\* A row of the source by its number.
LEMMA SourceIs ==
  /\ \A n, r : RowAfter(n, r) = RowIn(binlog, n, r)
  /\ \A r \in Row : SourceTable[r] = RowIn(binlog, Len(binlog), r)
<1>1. \A n, r : RowAfter(n, r) = RowIn(binlog, n, r)
  BY DEF RowAfter, RowIn
<1> QED BY <1>1 DEF SourceTable

\* A write is booked.
LEMMA WriteBooked ==
  ASSUME Ledger, drill \in Drills, pc \in 1 .. Len(Script[drill]), Write
  PROVE  /\ Ledger' /\ pc' \in 1 .. Len(Script[drill])
         /\ Len(binlog) < Len(binlog') /\ \A i \in 1 .. Len(binlog) : binlog'[i] = binlog[i]
<1> DEFINE k == RowsAt(drill, pc)
           e == EventsAt(drill, pc)
           up == Updated(drill, pc)
           del == Deleted(drill, pc)
           l == Len(binlog)
<1>1. Booked(drill, pc) /\ Op(drill, pc) = Step.do /\ Step = Script[drill][pc]
  BY AllBooked DEF Op, Step
<1>2. /\ pc \in Nat /\ k \in Nat /\ e \in Nat /\ k <= 4 /\ e <= 6 /\ up \in BOOLEAN /\ del \in BOOLEAN
      /\ e = k + (IF up THEN 2 ELSE 0) /\ UpdatesAt(drill) \in Nat
      /\ DeletesAt(drill) = UpdatesAt(drill) + 2
      /\ drill \in Updating /\ pc >= UpdatesAt(drill) => k >= 2
  <2>1. pc \in Nat
    BY <1>1 DEF Booked
  <2> QED BY <2>1, Amounts
<1>3. LedgerOf(binlog, k, e, up, del) /\ binlog \in Seq(Change) /\ l \in Nat
  BY DEF Ledger, LedgerOf
<1>4. /\ up <=> drill \in Updating /\ pc > UpdatesAt(drill)
      /\ del <=> drill \in Updating /\ pc > DeletesAt(drill)
  BY DEF Updated, Deleted
<1>5. pc' = pc + 1 /\ drill' = drill
  BY DEF Write, Go
<1>6. Events = e /\ Cardinality({i \in DOMAIN binlog : binlog[i].before = 0}) = k
  <2>1. {c.after : c \in ToSet(binlog)} \ {0} = Afters(binlog)
    BY <1>3 DEF ToSet, Afters
  <2>2. Afters(binlog) = 1 .. e /\ Cardinality(Born(binlog)) = k
    BY <1>3 DEF LedgerOf
  <2>3. Cardinality(1 .. e) = e
    <3>1. e \in Nat /\ 1 \in Int
      BY <1>2
    <3> HIDE DEF e
    <3>2. Cardinality(1 .. e) = IF 1 > e THEN 0 ELSE e - 1 + 1
      BY <3>1, FS_Interval
    <3> QED BY <3>1, <3>2
  <2>4. {i \in DOMAIN binlog : binlog[i].before = 0} = Born(binlog)
    BY <1>3 DEF Born
  <2> QED BY <2>1, <2>2, <2>3, <2>4 DEF Events
<1> HIDE DEF k, e, up, del, l
<1>7. CASE At("insert") /\ binlog' = binlog \o Inserts(Step.n)
  <2> DEFINE n == Step.n
  <2>1. n \in 1 .. 3 /\ RowsAt(drill, pc + 1) = k + n /\ pc + 1 \in 1 .. Len(Script[drill])
        /\ (drill \in Updating => pc # UpdatesAt(drill) /\ pc # DeletesAt(drill))
    BY <1>1, <1>7 DEF Booked, At, k
  <2>2. pc + 1 \in Nat /\ RowsAt(drill, pc + 1) <= 4
    BY <1>2, Amounts
  <2> DEFINE w == [i \in 1 .. n |-> [row |-> k + i, before |-> 0, after |-> e + i]]
  <2> HIDE DEF n
  <2>3. Inserts(n) = w
    BY <1>6 DEF Inserts
  <2>4. \A i \in 1 .. n : w[i] \in Change /\ w[i].row = k + i /\ w[i].before = 0 /\ w[i].after = e + i
    <3>1. ASSUME NEW i \in 1 .. n
          PROVE  [row |-> k + i, before |-> 0, after |-> e + i] \in Change
      <4>1. k + i \in Row /\ e + i \in Event /\ 0 \in Event
        BY <1>2, <2>1, <2>2 DEF Row, Event
      <4> QED BY <4>1 DEF Change
    <3> QED BY <3>1
  <2>5. w \in Seq(Change) /\ Len(w) = n
    BY <2>1, <2>4
  <2>6. /\ binlog' \in Seq(Change) /\ Len(binlog') = l + n
        /\ \A i \in 1 .. l : binlog'[i] = binlog[i]
        /\ \A i \in 1 .. n : binlog'[l + i] = w[i]
    <3> HIDE DEF w
    <3>1. /\ binlog' \in Seq(Change) /\ Len(binlog') = Len(binlog) + Len(w)
          /\ \A i \in 1 .. Len(binlog) : binlog'[i] = binlog[i]
          /\ \A i \in 1 .. Len(w) : binlog'[Len(binlog) + i] = w[i]
      <4>1. binlog' = binlog \o w
        BY <1>7, <2>3 DEF n
      <4> QED BY <1>3, <2>5, <4>1, Appended
    <3> QED BY <2>5, <3>1 DEF l
  <2>7. Inserting(binlog', binlog, n, k, e)
    BY <2>4, <2>6 DEF Inserting, l
  <2>8. LedgerOf(binlog', k + n, e + n, up, del)
    <3>1. n \in Nat
      BY <2>1
    <3> QED BY <1>2, <1>3, <2>7, <3>1, InsertsBooked
  <2>9. Updated(drill, pc + 1) = up /\ Deleted(drill, pc + 1) = del
    BY <1>2, <2>1 DEF Updated, Deleted, up, del
  <2>10. EventsAt(drill, pc + 1) = e + n
    BY <1>2, <2>1, <2>9 DEF EventsAt
  <2>11. Ledger'
    BY <1>5, <2>1, <2>8, <2>9, <2>10 DEF Ledger
  <2> QED BY <1>3, <1>5, <2>1, <2>6, <2>11 DEF l
<1>8. CASE At("update") /\ binlog' = binlog \o UpdateBoth
  <2>1. drill \in Updating /\ pc = UpdatesAt(drill) /\ pc + 1 \in 1 .. Len(Script[drill])
        /\ RowsAt(drill, pc + 1) = k
    BY <1>1, <1>8 DEF Booked, At, k
  <2>2. k >= 2 /\ up = FALSE /\ del = FALSE
    BY <1>2, <1>4, <2>1
  <2> DEFINE c(r) == [row |-> r, before |-> SourceTable[r], after |-> e + r]
             w == [r \in 1 .. 2 |-> c(r)]
             s1 == <<c(1)>>
             v == binlog \o s1
  <2>3. UpdateBoth = w
    BY <1>6 DEF UpdateBoth
  <2>4. 1 \in Row /\ 2 \in Row /\ 1 \in 1 .. k /\ 2 \in 1 .. k
    BY <1>2, <2>2 DEF Row
  <2>5. SourceTable[1] = RowIn(binlog, l, 1) /\ SourceTable[2] = RowIn(binlog, l, 2)
    BY <2>4, SourceIs DEF l
  <2>6. RowIn(binlog, l, 1) # 0 /\ RowIn(binlog, l, 2) # 0
    BY <1>3, <2>2, <2>4 DEF LedgerOf, l
  <2>7. ASSUME NEW r \in {1, 2}
        PROVE  /\ c(r) \in Change /\ c(r).row = r /\ c(r).before = RowIn(binlog, l, r)
               /\ c(r).after = e + r
    <3>1. r \in Row /\ e + r \in Event
      BY <1>2 DEF Row, Event
    <3>2. l \in 0 .. Len(binlog)
      BY <1>3 DEF l
    <3>3. RowIn(binlog, l, r) \in Event
      BY <1>3, <3>2, RowInEvent
    <3> QED BY <2>5, <3>1, <3>3 DEF Change
  <2> HIDE DEF c
  <2>8. s1 \in Seq(Change) /\ Len(s1) = 1 /\ s1[1] = c(1)
    BY <2>7
  <2>9. w \in Seq(Change) /\ Len(w) = 2 /\ w[1] = c(1) /\ w[2] = c(2)
    <3>1. \A r \in 1 .. 2 : c(r) \in Change
      BY <2>7
    <3> QED BY <3>1
  <2> HIDE DEF s1, w
  <2>10. /\ v \in Seq(Change) /\ Len(v) = l + 1 /\ \A i \in 1 .. l : v[i] = binlog[i]
         /\ v[l + 1] = c(1)
    <3>1. /\ v \in Seq(Change) /\ Len(v) = Len(binlog) + Len(s1)
          /\ \A i \in 1 .. Len(binlog) : v[i] = binlog[i]
          /\ \A i \in 1 .. Len(s1) : v[Len(binlog) + i] = s1[i]
      BY <1>3, <2>8, Appended
    <3> HIDE DEF v
    <3>2. v[l + 1] = s1[1]
      BY <2>8, <3>1 DEF l
    <3> QED BY <2>8, <3>1, <3>2 DEF l
  <2> HIDE DEF v
  <2>11. /\ binlog' \in Seq(Change) /\ Len(binlog') = l + 2
         /\ \A i \in 1 .. l : binlog'[i] = binlog[i]
         /\ binlog'[l + 1] = c(1) /\ binlog'[l + 2] = c(2)
    <3>1. /\ binlog' \in Seq(Change) /\ Len(binlog') = Len(binlog) + Len(w)
          /\ \A i \in 1 .. Len(binlog) : binlog'[i] = binlog[i]
          /\ \A i \in 1 .. Len(w) : binlog'[Len(binlog) + i] = w[i]
      BY <1>3, <1>8, <2>3, <2>9, Appended
    <3>2. binlog'[l + 1] = w[1] /\ binlog'[l + 2] = w[2]
      BY <2>9, <3>1 DEF l
    <3> QED BY <2>9, <3>1, <3>2 DEF l
  <2>12. Changing(v, binlog, 1, e + 1)
    <3>1. c(1).row = 1 /\ c(1).before = RowIn(binlog, l, 1) /\ c(1).after = e + 1
      BY <2>7
    <3> QED BY <2>10, <3>1 DEF Changing, l
  <2>13. LedgerOf(v, k, e + 1, TRUE, FALSE)
    <3>1. LedgerOf(binlog, k, e, FALSE, FALSE) /\ RowIn(binlog, Len(binlog), 1) # 0
      BY <1>3, <2>2, <2>6 DEF l
    <3> QED BY <1>2, <2>4, <2>12, <3>1, UpdateBooked
  <2>14. RowIn(v, Len(v), 2) = RowIn(binlog, l, 2)
    <3>1. SourceOf(binlog, k, e)
      BY <1>3 DEF LedgerOf, SourceOf
    <3>2. e + 1 \in Nat /\ RowIn(binlog, Len(binlog), 1) # 0
      BY <1>2, <2>6 DEF l
    <3>3. \A q : q # 1 => RowIn(v, Len(v), q) = RowIn(binlog, Len(binlog), q)
      BY <1>2, <2>4, <2>12, <3>1, <3>2, ChangeBooked
    <3> QED BY <3>3 DEF l
  <2>15. Changing(binlog', v, 2, (e + 1) + 1)
    <3>1. Len(binlog') = Len(v) + 1 /\ \A i \in 1 .. Len(v) : binlog'[i] = v[i]
      <4>1. \A i \in 1 .. l + 1 : i \in 1 .. l \/ i = l + 1
        BY <1>3 DEF l
      <4> QED BY <1>3, <2>10, <2>11, <4>1
    <3>2. c(2).row = 2 /\ c(2).before = RowIn(binlog, l, 2) /\ c(2).after = e + 2
      BY <2>7
    <3>3. (e + 1) + 1 = e + 2
      BY <1>2
    <3>4. binlog'[Len(binlog')] = c(2)
      BY <2>11
    <3> QED BY <2>11, <2>14, <3>1, <3>2, <3>3, <3>4 DEF Changing
  <2>16. LedgerOf(binlog', k, (e + 1) + 1, TRUE, FALSE)
    <3>1. RowIn(v, Len(v), 2) # 0 /\ e + 1 \in Nat
      BY <1>2, <2>6, <2>14
    <3> QED BY <1>2, <2>4, <2>13, <2>15, <3>1, UpdateBooked
  <2>17. /\ Updated(drill, pc + 1) = TRUE /\ Deleted(drill, pc + 1) = FALSE
         /\ EventsAt(drill, pc + 1) = (e + 1) + 1
    BY <1>2, <2>1, <2>2 DEF Updated, Deleted, EventsAt
  <2>18. Ledger'
    BY <1>5, <2>1, <2>16, <2>17 DEF Ledger
  <2> QED BY <1>3, <1>5, <2>1, <2>11, <2>18 DEF l
<1>9. CASE At("delete") /\ binlog' = binlog \o DeleteFirst
  <2>1. drill \in Updating /\ pc = DeletesAt(drill) /\ pc + 1 \in 1 .. Len(Script[drill])
        /\ RowsAt(drill, pc + 1) = k
    BY <1>1, <1>9 DEF Booked, At, k
  <2>2. k >= 2 /\ up = TRUE /\ del = FALSE
    BY <1>2, <1>4, <2>1
  <2> DEFINE c == [row |-> 1, before |-> SourceTable[1], after |-> 0]
             w == <<c>>
  <2>3. c \in Change /\ c.row = 1 /\ c.before = RowIn(binlog, l, 1) /\ c.after = 0
    <3>1. 1 \in Row /\ 0 \in Event
      BY DEF Row, Event
    <3>2. l \in 0 .. Len(binlog)
      BY <1>3 DEF l
    <3>3. RowIn(binlog, l, 1) \in Event
      BY <1>3, <3>2, RowInEvent
    <3>4. SourceTable[1] = RowIn(binlog, l, 1)
      BY <3>1, SourceIs DEF l
    <3> QED BY <3>1, <3>3, <3>4 DEF Change
  <2>4. DeleteFirst = w
    BY DEF DeleteFirst
  <2> HIDE DEF c
  <2>5. w \in Seq(Change) /\ Len(w) = 1 /\ w[1] = c
    BY <2>3
  <2> HIDE DEF w
  <2>6. /\ binlog' \in Seq(Change) /\ Len(binlog') = l + 1
        /\ \A i \in 1 .. l : binlog'[i] = binlog[i] /\ binlog'[l + 1] = c
    <3>1. /\ binlog' \in Seq(Change) /\ Len(binlog') = Len(binlog) + Len(w)
          /\ \A i \in 1 .. Len(binlog) : binlog'[i] = binlog[i]
          /\ \A i \in 1 .. Len(w) : binlog'[Len(binlog) + i] = w[i]
      BY <1>3, <1>9, <2>4, <2>5, Appended
    <3>2. binlog'[l + 1] = w[1]
      BY <2>5, <3>1 DEF l
    <3> QED BY <2>5, <3>1, <3>2 DEF l
  <2>7. binlog'[l + 1] = c
    <3>1. l >= 1
      <4>1. ASSUME l = 0 PROVE FALSE
        <5>1. Born(binlog) = {}
          BY <4>1 DEF Born, l
        <5>2. Cardinality(Born(binlog)) = k
          BY <1>3 DEF LedgerOf
        <5> QED BY <2>2, <5>1, <5>2, FS_EmptySet
      <4> QED BY <1>3, <4>1
    <3>2. 1 \in 1 .. l
      BY <1>3, <3>1
    <3> QED BY <2>6, <3>2
  <2>8. Changing(binlog', binlog, 1, 0)
    BY <2>3, <2>6, <2>7 DEF Changing, l
  <2>9. LedgerOf(binlog', k, e, TRUE, TRUE)
    <3>2. LedgerOf(binlog, k, e, TRUE, FALSE)
      BY <1>3, <2>2, Zenon
    <3>3. 1 <= k
      BY <1>2, <2>2
    <3>1. LedgerOf(binlog, k, e, TRUE, FALSE) /\ 1 <= k
      BY <3>2, <3>3
    <3> QED BY <1>2, <2>8, <3>1, DeleteBooked
  <2>10. /\ Updated(drill, pc + 1) = TRUE /\ Deleted(drill, pc + 1) = TRUE
         /\ EventsAt(drill, pc + 1) = e
    BY <1>2, <2>1, <2>2 DEF Updated, Deleted, EventsAt
  <2>11. Ledger'
    BY <1>5, <2>1, <2>9, <2>10 DEF Ledger
  <2> QED BY <1>3, <1>5, <2>1, <2>6, <2>11 DEF l
<1> QED BY <1>7, <1>8, <1>9 DEF Write

\* A step that writes nothing keeps the types if it keeps those of what it sets.
LEMMA TypesKept ==
  ASSUME TypedInv, binlog' = binlog, drill' = drill, Turns,
         JobsTyped', DiskTyped', TablesTyped', SeenTyped',
         marker' \in BOOLEAN, clusterUp' \in BOOLEAN, ownId' \in BOOLEAN,
         verdict' \in {"none", "passed", "failed"}, reason' \in Reason, cleaned' \in BOOLEAN
  PROVE  TypedInv'
<1>1. Ledger /\ drill \in Drills /\ pc \in 1 .. Len(Script[drill])
  BY DEF TypedInv, ScriptTyped
<1>2. Ledger' /\ pc' \in 1 .. Len(Script[drill])
  BY <1>1, BookKept
<1>3. ScriptTyped'
  BY <1>1, <1>2 DEF ScriptTyped
<1> QED BY <1>2, <1>3 DEF TypedInv

\* What is there keeps its type while it does not change.
LEMMA PartsKept ==
  ASSUME TypedInv, Len(binlog) <= Len(binlog')
  PROVE  /\ job' = job /\ Len(binlog') = Len(binlog) => JobsTyped'
         /\ points' = points /\ aborted' = aborted /\ Len(binlog') = Len(binlog) => DiskTyped'
         /\ UNCHANGED tables /\ Len(binlog') = Len(binlog) => TablesTyped'
         /\ seen' = seen /\ Len(binlog') = Len(binlog) => SeenTyped'
         /\ marker \in BOOLEAN /\ clusterUp \in BOOLEAN /\ ownId \in BOOLEAN
         /\ verdict \in {"none", "passed", "failed"} /\ reason \in Reason /\ cleaned \in BOOLEAN
<1>1. JobsTyped /\ DiskTyped /\ TablesTyped /\ SeenTyped
  BY DEF TypedInv
<1>2. job' = job /\ Len(binlog') = Len(binlog) => JobsTyped'
  BY <1>1 DEF JobsTyped, JobTyped
<1>3. points' = points /\ aborted' = aborted /\ Len(binlog') = Len(binlog) => DiskTyped'
  BY <1>1 DEF DiskTyped
<1>4. UNCHANGED tables /\ Len(binlog') = Len(binlog) => TablesTyped'
  BY <1>1 DEF TablesTyped, tables
<1>5. seen' = seen /\ Len(binlog') = Len(binlog) => SeenTyped'
  BY <1>1 DEF SeenTyped
<1> QED BY <1>2, <1>3, <1>4, <1>5 DEF TypedInv, ScriptTyped

\* A cancellation of any jobs keeps their types.
LEMMA CancelTyped ==
  ASSUME TypedInv, NEW S, job' = CancelEach(S) \/ job' = job, binlog' = binlog
  PROVE  JobsTyped'
<1>1. job \in [Name -> Job] /\ \A j \in Name : JobTyped(job[j]) /\ JobTyped(Stopped(j))
  BY StepsTyped, 0 \in Nat DEF TypedInv, JobsTyped
<1>2. \A r : JobTyped(r) => r \in Job
  BY DEF JobTyped
<1>3. job' \in [Name -> Job] /\ \A j \in Name : JobTyped(job'[j])
  BY <1>1, <1>2 DEF CancelEach
<1>4. \A r : JobTyped(r)' <=> JobTyped(r)
  BY DEF JobTyped
<1> QED BY <1>3, <1>4 DEF JobsTyped

\* So does a job that is set.
LEMMA SetTyped ==
  ASSUME TypedInv, NEW j \in Name, NEW q, JobTyped(q), Update(j, q), binlog' = binlog
  PROVE  JobsTyped'
<1>1. job \in [Name -> Job] /\ \A k \in Name : JobTyped(job[k])
  BY DEF TypedInv, JobsTyped
<1>2. q \in Job
  BY DEF JobTyped
<1>3. job' \in [Name -> Job] /\ \A k \in Name : job'[k] = job[k] \/ job'[k] = q
  BY <1>1, <1>2 DEF Update
<1> QED BY <1>1, <1>3 DEF JobsTyped, JobTyped

\* The greatest number among the directories, and what is read from it.
LEMMA FoundTyped ==
  ASSUME TypedInv, binlog' = binlog, FindRetained
  PROVE  SeenTyped'
<1> DEFINE ids == {p.id : p \in points}
           found == ids \cup aborted
           latest == CHOOSE i \in found : \A k \in found : k <= i
           point == IF latest \in ids THEN CHOOSE p \in points : p.id = latest
                    ELSE [NoPoint EXCEPT !.id = latest]
<1>1. found # {} /\ seen' = [seen EXCEPT !.point = point]
  BY DEF FindRetained
<1>2. /\ points \subseteq Point /\ aborted \subseteq Nat /\ \A p \in points : p.pos <= Len(binlog)
      /\ \E n \in Nat : (\A p \in points : p.id <= n) /\ \A a \in aborted : a <= n
  BY DEF TypedInv, DiskTyped
<1>3. PICK n \in Nat : (\A p \in points : p.id <= n) /\ \A a \in aborted : a <= n
  BY <1>2
<1>4. \A p \in points : p.id \in Nat
  BY <1>2 DEF Point
<1>5. found \subseteq 0 .. n
  <2>1. \A i \in ids : i \in Nat /\ i <= n
    BY <1>3, <1>4
  <2>2. \A a \in aborted : a \in Nat /\ a <= n
    BY <1>2, <1>3
  <2>3. \A x \in Nat : x <= n => x \in 0 .. n
    OBVIOUS
  <2> HIDE DEF ids
  <2> QED BY <2>1, <2>2, <2>3
<1>6. latest \in found
  <2> HIDE DEF found
  <2>1. \E i \in found : \A k \in found : k <= i
    BY <1>1, <1>5, Greatest
  <2> QED BY <2>1
<1> HIDE DEF latest
<1>7. point \in Point /\ point.pos <= Len(binlog)
  <2>1. CASE latest \in ids
    BY <1>2, <2>1
  <2>2. CASE latest \notin ids
    <3>1. latest \in Nat /\ point = [NoPoint EXCEPT !.id = latest]
      BY <1>2, <1>6, <2>2
    <3>2. NoPoint \in Point /\ NoPoint.pos = 0 /\ Len(binlog) \in Nat
      BY EmptyIsSound, LedgerIs DEF TypedInv
    <3> HIDE DEF point
    <3> QED BY <3>1, <3>2 DEF Point
  <2> QED BY <2>1, <2>2
<1> HIDE DEF point
<1>8. seen \in Seen
  BY DEF TypedInv, SeenTyped
<1> QED BY <1>1, <1>7, <1>8 DEF SeenTyped, Seen

\* A step of the drill keeps the types: those that only change what it has read,
LEMMA ReadTyped ==
  ASSUME TypedInv, Await \/ ReadSomething \/ Audit \/ Sample
  PROVE  TypedInv'
<1>1. UNCHANGED <<binlog, job, marker, points, aborted, clusterUp, tables, ownId>>
      /\ UNCHANGED <<drill, verdict, reason, cleaned>>
  BY DEF Await, ReadSomething, Audit, Sample, system, disk, Go, ending
<1>2. Turns
  <2>1. CASE Await
    BY <2>1 DEF Await, Arrived, Go, At, Turns, Writes
  <2>2. CASE ReadSomething
    BY <2>2 DEF ReadSomething, Go, At, Turns, Writes
  <2>3. CASE Audit
    BY <2>3 DEF Audit, Go, At, Turns, Writes
  <2>4. CASE Sample
    BY <2>4 DEF Sample, Go, At, Turns, Writes
  <2> QED BY <2>1, <2>2, <2>3, <2>4
<1>3. /\ seen \in Seen /\ seen.point.pos <= Len(binlog) /\ seen.zeros \in 0 .. 3
      /\ current \in [Row -> Event] /\ dataFiles \in Nat
      /\ job["first"].done \in Point /\ job["first"].done.id \in Nat
      /\ job["first"].done.pos <= Len(binlog)
  <2>1. "first" \in Name
    BY DEF Name
  <2> QED BY <2>1 DEF TypedInv, SeenTyped, TablesTyped, JobsTyped, JobTyped, Job, Point, Seen
<1>4. SourceTable \in [Row -> Event]
  <2>1. ASSUME NEW r \in Row PROVE SourceTable[r] \in Event
    <3>1. binlog \in Seq(Change) /\ Len(binlog) \in 0 .. Len(binlog)
      BY LedgerIs DEF TypedInv
    <3> QED BY <3>1, SourceIs, RowInEvent
  <2>2. SourceTable = [r \in Row |-> SourceTable[r]]
    BY DEF SourceTable
  <2> QED BY <2>1, <2>2
<1>5. SeenTyped'
  <2>1. CASE seen' = seen
    BY <1>1, <1>3, <2>1 DEF SeenTyped
  <2>2. CASE FindRetained
    BY <1>1, <2>2, FoundTyped
  <2>3. ASSUME NEW done \in Point, done.id \in Nat, done.pos <= Len(binlog), SawCheckpoint(done)
        PROVE  SeenTyped'
    BY <1>1, <1>3, <2>3 DEF SeenTyped, Seen, SawCheckpoint
  <2>4. CASE seen' = [seen EXCEPT !.source = SourceTable] \/ seen' = [seen EXCEPT !.table = current]
    BY <1>1, <1>3, <1>4, <2>4 DEF SeenTyped, Seen
  <2>5. CASE seen' = [seen EXCEPT !.before = dataFiles] \/ seen' = [seen EXCEPT !.after = dataFiles]
    BY <1>1, <1>3, <2>5 DEF SeenTyped, Seen
  <2>6. CASE seen' = [seen EXCEPT !.reported = Consistent]
    <3>1. Consistent \in BOOLEAN
      BY DEF Consistent
    <3> QED BY <1>1, <1>3, <2>6, <3>1 DEF SeenTyped, Seen
  <2>7. CASE Sample
    <3> DEFINE zeros == IF Lag > 0 THEN 0 ELSE IF seen.zeros = 3 THEN 3 ELSE seen.zeros + 1
               lagged == seen.lagged \/ Lag > 0
    <3>1. seen' = [seen EXCEPT !.zeros = zeros, !.lagged = lagged]
      BY <2>7 DEF Sample
    <3>2. zeros \in 0 .. 3
      BY <1>3
    <3>3. lagged \in BOOLEAN
      OBVIOUS
    <3> HIDE DEF zeros, lagged
    <3> QED BY <1>1, <1>3, <3>1, <3>2, <3>3 DEF SeenTyped, Seen
  <2>8. Await \/ ReadSomething \/ Audit \/ Sample
    OBVIOUS
  <2>9. CASE ReadSomething
    BY <1>3, <2>2, <2>3, <2>4, <2>5, <2>9 DEF ReadSomething
  <2> QED BY <2>1, <2>6, <2>7, <2>8, <2>9 DEF Await, Audit
<1>6. JobsTyped' /\ DiskTyped' /\ TablesTyped'
  BY <1>1, PartsKept, LedgerIs DEF TypedInv
<1> QED BY <1>1, <1>2, <1>5, <1>6, TypesKept, PartsKept DEF TypedInv, ScriptTyped

\* those that write to the source,
LEMMA WriteTyped ==
  ASSUME TypedInv, Write PROVE TypedInv'
<1>1. /\ Ledger' /\ pc' \in 1 .. Len(Script[drill]) /\ Len(binlog) < Len(binlog')
  BY WriteBooked DEF TypedInv, ScriptTyped
<1>2. /\ UNCHANGED <<job, marker, points, aborted, clusterUp, tables, ownId, seen>>
      /\ UNCHANGED <<drill, verdict, reason, cleaned>>
  BY DEF Write, Go, disk, ending
<1>3. Len(binlog) \in Nat /\ Len(binlog') \in Nat
  BY <1>1, LedgerIs DEF TypedInv, Ledger, LedgerOf
<1>4. \A n \in Nat : n <= Len(binlog) => n <= Len(binlog')
  BY <1>1, <1>3
<1>5. JobsTyped' /\ DiskTyped' /\ SeenTyped'
  <2>1. \A r : JobTyped(r) => JobTyped(r)'
    BY <1>4 DEF JobTyped, Job, Point
  <2>2. JobsTyped'
    BY <1>2, <2>1 DEF TypedInv, JobsTyped
  <2>3. DiskTyped'
    BY <1>2, <1>4 DEF TypedInv, DiskTyped, Point
  <2>4. SeenTyped'
    BY <1>2, <1>4 DEF TypedInv, SeenTyped, Seen, Point
  <2> QED BY <2>2, <2>3, <2>4
<1>6. TablesTyped'
  <2> DEFINE S == [change : 1 .. Len(binlog), by : Name]
             T == [change : 1 .. Len(binlog'), by : Name]
  <2>1. changelog \in Seq(S)
    BY DEF TypedInv, TablesTyped
  <2>2. S \subseteq T
    <3>1. 1 .. Len(binlog) \subseteq 1 .. Len(binlog')
      BY <1>1, <1>3
    <3> QED BY <3>1
  <2> HIDE DEF S, T
  <2>3. changelog \in Seq(T)
    BY <2>1, <2>2, SeqMore
  <2>4. UNCHANGED <<tableId, dataFiles, maxId, changelog, current, late>>
    BY <1>2 DEF tables
  <2> QED BY <2>3, <2>4 DEF TypedInv, TablesTyped, T
<1> QED BY <1>1, <1>2, <1>5, <1>6 DEF TypedInv, ScriptTyped

\* and those that change the jobs and the tables.
LEMMA ActTyped ==
  ASSUME TypedInv, CancelListed \/ ResetTables \/ Submit \/ TakeSavepoint \/ CancelJob
                   \/ RestartJobManager \/ SubmitRestored \/ Rewrite
  PROVE  TypedInv'
<1>1. Len(binlog) \in Nat /\ Len(binlog) <= Len(binlog) /\ 0 <= Len(binlog)
  BY LedgerIs DEF TypedInv
<1>2. "first" \in Name /\ "restored" \in Name
  BY DEF Name
<1>3. seen \in Seen /\ seen.point.pos <= Len(binlog) /\ seen.point \in Point
  BY DEF TypedInv, SeenTyped, Seen
<1>4. /\ NoPoint \in Point /\ NoPoint.pos = 0 /\ NoJob \in Job /\ NoJob.read = 0
      /\ NoJob.ongoing = NoPoint /\ NoJob.done = NoPoint
  BY EmptyIsSound
<1>5. JobTyped([NoJob EXCEPT !.status = "STARTING"])
  BY <1>1, <1>4 DEF JobTyped, Job
<1>6. UNCHANGED <<binlog, drill, cleaned, marker>> /\ Len(binlog') = Len(binlog)
      /\ verdict' \in {"none", "passed", "failed"} /\ reason' \in Reason
      /\ ownId' \in BOOLEAN /\ clusterUp' \in BOOLEAN
  <2>1. verdict \in {"none", "passed", "failed"} /\ reason \in Reason /\ ownId \in BOOLEAN
        /\ clusterUp \in BOOLEAN
    BY DEF TypedInv, ScriptTyped
  <2>2. CASE ~SubmitRestored
    BY <2>1, <2>2 DEF CancelListed, ResetTables, Submit, TakeSavepoint, CancelJob,
       RestartJobManager, Rewrite, Go, ending
  <2>3. CASE SubmitRestored
    <3>1. UNCHANGED <<binlog, drill, cleaned, marker, clusterUp, ownId>>
      BY <2>3 DEF SubmitRestored, Go, Raise, system, script, ending
    <3>2. UNCHANGED ending \/ Raise("restore_point")
      BY <2>3 DEF SubmitRestored, Go
    <3>3. verdict' \in {"none", "passed", "failed"} /\ reason' \in Reason
      BY <2>1, <3>2 DEF Raise, ending, Reason
    <3> QED BY <2>1, <3>1, <3>3
  <2> QED BY <2>2, <2>3
<1>7. Turns
  <2>1. CASE CancelListed \/ ResetTables \/ Submit \/ TakeSavepoint
    BY <2>1 DEF CancelListed, ResetTables, Submit, TakeSavepoint, Go, At, Turns, Writes
  <2>2. CASE CancelJob \/ RestartJobManager \/ Rewrite
    BY <2>2 DEF CancelJob, RestartJobManager, Rewrite, Go, At, Turns, Writes
  <2>3. CASE SubmitRestored
    BY <2>3 DEF SubmitRestored, Go, At, Turns, Writes, Raise, script
  <2> QED BY <2>1, <2>2, <2>3
<1>8. /\ job' = job => JobsTyped'
      /\ points' = points /\ aborted' = aborted => DiskTyped'
      /\ UNCHANGED tables => TablesTyped'
      /\ seen' = seen => SeenTyped'
      /\ marker' \in BOOLEAN /\ cleaned' \in BOOLEAN
  BY <1>1, <1>6, PartsKept
<1>9. JobsTyped' /\ DiskTyped' /\ TablesTyped' /\ SeenTyped' => TypedInv'
  BY <1>6, <1>7, <1>8, TypesKept
<1>10. CASE CancelListed
  <2>1. UNCHANGED <<points, aborted, tables, seen>>
        /\ (job' = CancelEach(Name) \/ job' = job)
    BY <1>10 DEF CancelListed, disk
  <2>2. JobsTyped'
    BY <1>6, <2>1, CancelTyped
  <2> QED BY <1>8, <1>9, <2>1, <2>2
<1>11. CASE ResetTables
  <2>1. UNCHANGED <<points, aborted, job, seen>>
    BY <1>11 DEF ResetTables, disk
  <2>2. TablesTyped'
    <3>1. /\ tableId' = 1 /\ dataFiles' = 0 /\ changelog' = <<>> /\ late' = late
          /\ maxId' = [j \in Name |-> [s \in Sink |-> 0]] /\ current' = [r \in Row |-> 0]
      BY <1>11 DEF ResetTables
    <3>2. changelog' \in Seq([change : 1 .. Len(binlog'), by : Name])
      BY <3>1
    <3>3. late' \subseteq Sink
      BY <3>1 DEF TypedInv, TablesTyped
    <3>4. current' \in [Row -> Event]
      BY <3>1 DEF Event
    <3> QED BY <3>1, <3>2, <3>3, <3>4 DEF TablesTyped
  <2> QED BY <1>8, <1>9, <2>1, <2>2
<1>12. CASE Submit
  <2>1. UNCHANGED <<points, aborted, tables, seen>>
        /\ Update("first", [NoJob EXCEPT !.status = "STARTING"])
    BY <1>12 DEF Submit, disk
  <2>2. JobsTyped'
    BY <1>2, <1>5, <1>6, <2>1, SetTyped
  <2> QED BY <1>8, <1>9, <2>1, <2>2
<1>13. CASE TakeSavepoint
  <2>1. UNCHANGED <<points, aborted, tables>>
    BY <1>13 DEF TakeSavepoint, disk
  <2>2. PICK n \in Reached("first") :
          /\ Update("first", Flushed("first", n))
          /\ seen' = [seen EXCEPT !.point = PointOf(Flushed("first", n))]
    BY <1>13 DEF TakeSavepoint
  <2>3. n \in job["first"].read .. Len(binlog)
    BY <2>2 DEF Reached
  <2>4. JobTyped(Flushed("first", n)) /\ PointOf(Flushed("first", n)) \in Point
        /\ PointOf(Flushed("first", n)).pos = n
    BY <1>2, <2>3, FlushTyped
  <2>5. JobsTyped'
    BY <1>2, <1>6, <2>2, <2>4, SetTyped
  <2>6. n <= Len(binlog')
    <3>1. job["first"].read \in Nat
      BY <1>2 DEF TypedInv, JobsTyped, Job
    <3> QED BY <1>1, <1>6, <2>3, <3>1
  <2>7. \A p \in Point : p.pos = n /\ seen' = [seen EXCEPT !.point = p] => SeenTyped'
    BY <1>3, <2>6 DEF SeenTyped, Seen
  <2>8. SeenTyped'
    BY <2>2, <2>4, <2>7
  <2> QED BY <1>8, <1>9, <2>1, <2>5, <2>8
<1>14. CASE CancelJob
  <2>1. UNCHANGED <<points, tables, seen>> /\ Update("first", Stopped("first"))
        /\ (aborted' = aborted \/ aborted' = aborted \cup {job["first"].ongoing.id})
    BY <1>14 DEF CancelJob
  <2>2. JobsTyped'
    BY <1>2, <1>6, <2>1, SetTyped, StepsTyped, 0 \in Nat
  <2>3. DiskTyped'
    <3> DEFINE i == job["first"].ongoing.id
    <3>1. i \in Nat
      BY <1>2 DEF TypedInv, JobsTyped, Job, Point
    <3>2. PICK n \in Nat : (\A p \in points : p.id <= n) /\ \A a \in aborted : a <= n
      BY DEF TypedInv, DiskTyped
    <3> HIDE DEF i
    <3>3. points \subseteq Point /\ aborted \subseteq Nat /\ \A p \in points : p.pos <= Len(binlog)
      BY DEF TypedInv, DiskTyped
    <3>4. \A p \in points : p.id \in Nat
      BY <3>3 DEF Point
    <3>5. (\A p \in points : p.id <= n + i) /\ (\A a \in aborted : a <= n + i) /\ i <= n + i
      BY <3>1, <3>2, <3>3, <3>4
    <3>6. aborted' \subseteq aborted \cup {i}
      BY <2>1 DEF i
    <3>7. n + i \in Nat
      BY <3>1
    <3>8. aborted' \subseteq Nat /\ \A a \in aborted' : a <= n + i
      BY <3>1, <3>3, <3>5, <3>6
    <3> QED BY <1>6, <2>1, <3>3, <3>5, <3>7, <3>8 DEF DiskTyped
  <2> QED BY <1>8, <1>9, <2>1, <2>2, <2>3
<1>15. CASE RestartJobManager
  <2>1. UNCHANGED <<points, aborted, tables, seen>> /\ Update("first", Stopped("first"))
    BY <1>15 DEF RestartJobManager, disk
  <2>2. JobsTyped'
    BY <1>2, <1>6, <2>1, SetTyped, StepsTyped, 0 \in Nat
  <2> QED BY <1>8, <1>9, <2>1, <2>2
<1>16. CASE SubmitRestored
  <2>1. CASE Readable
    <3> DEFINE q == [NoJob EXCEPT !.status = "STARTING", !.read = seen.point.pos,
                       !.epoch = seen.point.id, !.pend = seen.point.pend, !.done = seen.point]
    <3>1. /\ UNCHANGED tables /\ points' = {} /\ aborted' = {} /\ Update("restored", q)
          /\ seen' = [seen EXCEPT !.point = NoPoint, !.checkpoint = 0]
      BY <1>16, <2>1 DEF SubmitRestored
    <3>2. JobTyped(q)
      <4>1. \A p \in Point : p.pos <= Len(binlog) =>
              JobTyped([NoJob EXCEPT !.status = "STARTING", !.read = p.pos,
                                     !.epoch = p.id, !.pend = p.pend, !.done = p])
        BY <1>1, <1>4 DEF JobTyped, Job, Point
      <4> QED BY <1>3, <4>1
    <3> HIDE DEF q
    <3>3. JobsTyped'
      BY <1>2, <1>6, <3>1, <3>2, SetTyped
    <3>4. DiskTyped'
      BY <3>1, 0 \in Nat DEF DiskTyped
    <3>5. SeenTyped'
      BY <1>1, <1>3, <1>4, <1>6, <3>1 DEF SeenTyped, Seen
    <3> QED BY <1>8, <1>9, <3>1, <3>3, <3>4, <3>5
  <2>2. CASE ~Readable
    <3>1. UNCHANGED <<job, points, aborted, tables, seen>>
      BY <1>16, <2>2 DEF SubmitRestored, Raise, system, disk
    <3> QED BY <1>8, <1>9, <3>1
  <2> QED BY <2>1, <2>2
<1>17. CASE Rewrite
  <2>1. UNCHANGED <<job, points, aborted, seen, tableId, maxId, changelog, current, late>>
        /\ (dataFiles' = 0 \/ dataFiles' = 1)
    BY <1>17 DEF Rewrite, disk
  <2>2. TablesTyped'
    BY <1>6, <2>1 DEF TypedInv, TablesTyped
  <2> QED BY <1>8, <1>9, <2>1, <2>2
<1> QED BY <1>10, <1>11, <1>12, <1>13, <1>14, <1>15, <1>16, <1>17

\* The steps that end a drill keep them, too.
LEMMA EndTyped ==
  ASSUME TypedInv, Conclude \/ Finally \/ StepRaises PROVE TypedInv'
<1>1. UNCHANGED <<binlog, marker, points, aborted, clusterUp, tables, drill, pc, ownId, seen>>
  BY DEF Conclude, Finally, StepRaises, Raise, system, script, disk
<1>2. job' \in {CancelEach(Canceled)} \cup {job}
  BY DEF Conclude, Finally, StepRaises, Raise, system
<1>3. JobsTyped'
  BY <1>1, <1>2, CancelTyped
<1>4. verdict' \in {"none", "passed", "failed"} /\ reason' \in Reason /\ cleaned' \in BOOLEAN
  <2>1. verdict \in {"none", "passed", "failed"} /\ reason \in Reason /\ cleaned \in BOOLEAN
    BY DEF TypedInv, ScriptTyped
  <2>2. \A why \in {"checks", "error"} : Raise(why) =>
          verdict' \in {"none", "passed", "failed"} /\ reason' \in Reason /\ cleaned' = cleaned
    BY DEF Raise, Reason
  <2>3. CASE Conclude \/ Finally
    <3>1. \/ Raise("checks")
          \/ /\ verdict' \in {"passed", verdict} /\ reason' = reason
             /\ (cleaned' = cleaned \/ cleaned' = TRUE)
      BY <2>3 DEF Conclude, Finally
    <3> QED BY <2>1, <2>2, <3>1
  <2>4. CASE StepRaises
    BY <2>1, <2>2, <2>4 DEF StepRaises
  <2> QED BY <2>3, <2>4
<1>5. Len(binlog) <= Len(binlog) /\ Len(binlog') = Len(binlog)
  BY <1>1, LedgerIs DEF TypedInv
<1>6. DiskTyped' /\ TablesTyped' /\ SeenTyped' /\ marker' \in BOOLEAN /\ clusterUp' \in BOOLEAN
      /\ ownId' \in BOOLEAN
  BY <1>1, <1>5, PartsKept
<1>7. Turns
  BY <1>1 DEF Turns
<1> QED BY <1>1, <1>3, <1>4, <1>6, <1>7, TypesKept

\* So every step keeps the types,
LEMMA TypedKept == TypedInv /\ [Next]_vars => TypedInv'
<1> SUFFICES ASSUME TypedInv, [Next]_vars PROVE TypedInv'
  OBVIOUS
<1>1. CASE SystemStep
  BY <1>1, SystemTyped
<1>2. CASE DrillStep
  BY <1>2, ActTyped, WriteTyped, ReadTyped, EndTyped DEF DrillStep
<1>3. CASE StepRaises
  BY <1>3, EndTyped
<1>4. CASE UNCHANGED vars
  <2>1. UNCHANGED <<binlog, job, marker, points, aborted, clusterUp, tables>>
        /\ UNCHANGED <<drill, pc, ownId, seen, verdict, reason, cleaned>>
    BY <1>4 DEF vars, system, harness, script, ending, disk
  <2>2. Len(binlog) <= Len(binlog) /\ Len(binlog') = Len(binlog)
    BY <2>1, LedgerIs DEF TypedInv
  <2>3. Turns
    BY <2>1 DEF Turns
  <2>4. JobsTyped' /\ DiskTyped' /\ TablesTyped' /\ SeenTyped'
    BY <2>1, <2>2, PartsKept
  <2> QED BY <2>1, <2>2, <2>3, <2>4, TypesKept, PartsKept
<1> QED BY <1>1, <1>2, <1>3, <1>4 DEF Next

\* and a drill starts with them.
LEMMA TypedFirst == Init => TypedInv
<1> SUFFICES ASSUME Init PROVE TypedInv
  OBVIOUS
<1>1. /\ NoPoint \in Point /\ NoPoint.pos = 0 /\ NoJob \in Job /\ NoJob.read = 0
      /\ NoJob.ongoing = NoPoint /\ NoJob.done = NoPoint
  BY EmptyIsSound
<1>2. binlog = <<>> /\ Len(binlog) = 0 /\ Len(binlog) \in Nat
  BY DEF Init
<1>3. drill \in Drills /\ pc = 1
  BY DEF Init
<1>4. RowsAt(drill, pc) = 0 /\ EventsAt(drill, pc) = 0
  <2>1. RowsAt(drill, 1) = 0
    <3>1. drill \in Fault \cup Restoring \cup {Rewriting, Metrics}
      BY <1>3, ScriptsListed
    <3> QED BY <3>1 DEF RowsAt, Fault, Restoring, Rewriting, Metrics
  <2>2. ~Updated(drill, 1)
    BY DEF Updated, UpdatesAt
  <2> QED BY <1>3, <2>1, <2>2 DEF EventsAt
<1>5. Ledger
  <2>1. Born(binlog) = {} /\ Afters(binlog) = {}
    BY <1>2 DEF Born, Afters
  <2>2. Cardinality(Born(binlog)) = 0
    BY <2>1, FS_EmptySet
  <2>3. Afters(binlog) = 1 .. 0 /\ binlog \in Seq(Change)
    BY <1>2, <2>1
  <2> QED BY <1>2, <1>4, <2>2, <2>3 DEF Ledger, LedgerOf
<1>6. JobsTyped
  <2>1. JobTyped(NoJob) /\ \A s \in {"absent", "RUNNING"} : JobTyped([NoJob EXCEPT !.status = s])
    BY <1>1, <1>2 DEF JobTyped, Job
  <2>2. \A r : JobTyped(r) => r \in Job
    BY DEF JobTyped
  <2>3. job \in [Name -> Job] /\ \A j \in Name : JobTyped(job[j])
    BY <2>1, <2>2 DEF Init
  <2> QED BY <2>3 DEF JobsTyped
<1>7. DiskTyped
  BY 0 \in Nat DEF Init, DiskTyped
<1>8. TablesTyped
  <2>1. changelog \in Seq([change : 1 .. Len(binlog), by : Name])
    BY DEF Init, Reason
  <2> QED BY <2>1 DEF Init, TablesTyped, Event
<1>9. SeenTyped
  <2>1. [r \in Row |-> 0] \in [Row -> Event]
    BY DEF Event
  <2> QED BY <1>1, <1>2, <2>1 DEF Init, SeenTyped, Seen
<1>10. ScriptTyped
  <2>1. pc \in 1 .. Len(Script[drill])
    <3>1. drill \in Fault \cup Restoring \cup {Rewriting, Metrics} /\ Len(Script[drill]) \in Nat
      BY <1>3, ScriptsListed DEF Stretch
    <3>2. Len(Script[drill]) >= 1
      <4>1. CASE drill \in Fault
        BY <1>3, <4>1, ScriptsListed DEF IsFaultDrill
      <4>2. CASE drill \in Restoring \ {"smoke"}
        BY <1>3, <4>2, ScriptsListed DEF IsRestoreDrill
      <4>3. CASE drill = "smoke"
        BY <1>3, <4>3, ScriptsListed DEF IsSmokeDrill
      <4>4. CASE drill = Metrics
        BY <1>3, <4>4, ScriptsListed DEF IsMetrics
      <4>5. CASE drill = Rewriting
        BY <1>3, <4>5, ScriptsLegal DEF Legal, Rewrites
      <4> QED BY <3>1, <4>1, <4>2, <4>3, <4>4, <4>5
    <3> QED BY <1>3, <3>1, <3>2
  <2>2. ownId \in BOOLEAN /\ verdict = "none" /\ reason \in Reason /\ cleaned \in BOOLEAN
    BY DEF Init, Reason
  <2> QED BY <1>3, <2>1, <2>2 DEF ScriptTyped
<1> QED BY <1>5, <1>6, <1>7, <1>8, <1>9, <1>10 DEF Init, TypedInv

\* The types: in particular no job has read beyond the end of the binlog, each row of the
\* changelog is one of its changes, and the source has no more rows and event ids than
\* its table.  The invariant says which rows and ids a drill has written at each step.
THEOREM TypeCorrect == Spec => []TypeOK
<1>1. Spec => []TypedInv
  BY TypedFirst, TypedKept, PTL DEF Spec
<1> QED BY <1>1, TypedIs, PTL
=============================================================================
